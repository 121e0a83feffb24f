---------------------------- MODULE CXLUnpacker ----------------------------
(***************************************************************************)
(* The flit unpacker, written once for both ends of the link:             *)
(* CXLHost::FLIT_unpacker and CXLDevice::FLIT_unpacker have the same       *)
(* control flow and differ in the message classes they accept and in the  *)
(* credits they take from the flit header, which are the parameters.      *)
(*                                                                         *)
(* Node fields used: rx (rx_buffer), urollover (unpacker_rollover),       *)
(* ulastHdr (the header whose data is still arriving: last_drs_hdr on    *)
(* the host, last_rwd_hdr on the device), rxSmall and rxBig (S2M_NDR and  *)
(* S2M_DRS on the host, M2S_Req and M2S_RWD on the device) and fault.    *)
(***************************************************************************)
EXTENDS Naturals, Sequences, CXLNode

CONSTANTS RxBufSize,        \* capacity of rx_buffer
          VcSize,           \* capacity of each of rxSmall and rxBig
          SmallType,        \* slot type of the message without data
          BigType,          \* slot type of the header with data
          SmallOp,          \* opcode of the message without data
          BigOp,            \* opcode of the header with data
          AddCredits(_, _)  \* credit update from the flit header

\* The enqueue of the header whose last data chunk has just arrived.
CompleteHeader(n) == Enqueue(n, "rxBig", Message(n.ulastHdr, BigOp), VcSize)

\* The first loop: while data of an earlier header is owed, data slots are
\* taken (and blanked) until the header is complete.
RECURSIVE ConsumeRollover(_, _, _)
ConsumeRollover(n, f, i) ==
    IF i > 3 THEN [n |-> n, f |-> f]
    ELSE IF f.slots[i].type # "data" THEN ConsumeRollover(n, f, i + 1)
    ELSE LET n1 == [n EXCEPT !.urollover = @ - 1]
             f1 == [f EXCEPT !.slots[i].type = "empty"]
         IN  IF n1.urollover = 0 THEN [n |-> CompleteHeader(n1), f |-> f1]
             ELSE ConsumeRollover(n1, f1, i + 1)

Fault(n, msg) == [n EXCEPT !.fault = @ \cup {msg}]

\* The second loop: each remaining slot, in order.
RECURSIVE Dispatch(_, _, _)
Dispatch(n, f, i) ==
    IF i > 3 THEN n
    ELSE LET s == f.slots[i]
             n1 == CASE s.type = SmallType ->
                          Enqueue(n, "rxSmall", Message(s.id, SmallOp), VcSize)
                     [] s.type = BigType ->
                          [IF n.urollover = 0 THEN n
                           ELSE Fault(n, "Received header without getting previous data first")
                           EXCEPT !.urollover = 4, !.ulastHdr = s.id]
                     [] s.type = "data" /\ n.urollover = 0 ->
                          Fault(n, "Data received when not expected")
                     [] s.type = "data" /\ n.urollover = 1 ->
                          CompleteHeader([n EXCEPT !.urollover = 0])
                     [] s.type = "data" ->
                          [n EXCEPT !.urollover = @ - 1]
                     [] s.type = "empty" -> n
                     [] OTHER -> Fault(n, "Illegal message type on rx buffer")
         IN  Dispatch(n1, f, i + 1)

\* FLIT_unpacker: the head of rx_buffer, once it has waited
\* delay_rx_buf_to_unpack, is checked against the rollover and packing
\* rules, unpacked, dequeued, and its credits are added.
FLIT_unpacker(n0) ==
    LET n == IF Len(n0.rx) = RxBufSize /\ Len(n0.rxSmall) = VcSize /\ Len(n0.rxBig) = VcSize
             THEN Fault(n0, "Rx side stall") ELSE n0
        f == Head(n.rx)
        n1 == [n EXCEPT !.fault = @
                 \cup (IF RolloverPatternOk(f, n.urollover) THEN {}
                       ELSE {"Data rollover rule violated"})
                 \cup (IF PackingRuleOk(f, SmallType, BigType) THEN {}
                       ELSE {"Packing rule violated"})]
        r == IF n.urollover # 0 THEN ConsumeRollover(n1, f, 0) ELSE [n |-> n1, f |-> f]
        n2 == Dispatch(r.n, r.f, 0)
    IN  IF n.rx = << >> \/ Head(n.rx).fresh THEN [n |-> n, active |-> FALSE]
        ELSE [n |-> AddCredits([n2 EXCEPT !.rx = Tail(@)], f.cred), active |-> TRUE]

=============================================================================
