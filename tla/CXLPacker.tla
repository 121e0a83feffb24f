----------------------------- MODULE CXLPacker -----------------------------
(***************************************************************************)
(* The flit packer, written once for both ends of the link: CXLHost and   *)
(* CXLDevice implement FLIT_packer, get_msg_from_vcs and                   *)
(* check_vcs_for_packing with the same control flow and differ only in    *)
(* the message classes, the credit conditions and the credit updates,     *)
(* which are the parameters below.                                         *)
(*                                                                         *)
(* A node is a record; the fields the packer uses are                     *)
(*   small, big  the NUM_VC transmit lanes of the message class without   *)
(*               data (M2S_Req / S2M_NDR) and with data (M2S_RWD / S2M_DRS)*)
(*   curVc       packer_cur_vc          pkr2      pkr2_state               *)
(*   waiting     is_packer_waiting      flit      flit_to_pack             *)
(*   waitAge     curr_tick - started_packing_at, capped                    *)
(*   rollover    packer_rollover        lastHdr   last_rwd_hdr/last_drs_hdr*)
(*   tx          tx_buffer              fault     CXL_ASSERTs that fired   *)
(***************************************************************************)
EXTENDS Naturals, Sequences, TLC, CXLFlit

CONSTANTS NUM_VC,            \* lanes per message class
          BufSize,           \* capacity of tx_buffer
          PackerWaitTime,    \* packer_wait_time, in ticks
          SmallType,         \* slot type of the class without data
          BigType,           \* slot type of the header with data
          SmallOk(_),        \* credit condition of a class-without-data head
          BigOk(_),          \* credit condition of a class-with-data head
          PlaceSmall(_),     \* credit update when such a message is placed
          PlaceBig(_),       \* credit update when a header is placed
          AddFlitToBuf(_)    \* add_flit_to_buf: credits, tx_buffer, counters

LOCAL FSE == INSTANCE FiniteSetsExt

Lanes == 0..NUM_VC - 1

\* The next state of pkr2_state after a message of class `cls' was chosen.
RRNext == ("r" :> [small |-> "R", big |-> "w"]) @@
          ("R" :> [small |-> "R", big |-> "w"]) @@
          ("w" :> [small |-> "r", big |-> "w"])

\* The class get_msg_from_vcs tries first in each round-robin state.
RRFirst == ("r" :> "small") @@ ("R" :> "big") @@ ("w" :> "small")

Other(cls) == IF cls = "small" THEN "big" ELSE "small"

\* A lane whose head has waited delay_vc_to_pack and whose class has credit.
Eligible(n, cls, lane) ==
    /\ n[cls][lane] # << >>
    /\ ~Head(n[cls][lane]).fresh
    /\ IF cls = "small" THEN SmallOk(n) ELSE BigOk(n)

\* check_vcs_for_packing: scan the lanes from packer_cur_vc on and take the
\* first eligible one; packer_cur_vc then becomes 0 if it was NUM_VC-1 and
\* the chosen lane + 1 otherwise (so it may equal NUM_VC).
CheckVcsForPacking(n, cls) ==
    LET ks == {k \in Lanes : Eligible(n, cls, (n.curVc + k) % NUM_VC)}
        lane == (n.curVc + FSE!Min(ks)) % NUM_VC
    IN  IF ks = {} THEN [valid |-> FALSE, n |-> n]
        ELSE [valid |-> TRUE, cls |-> cls, lane |-> lane,
              n |-> [n EXCEPT !.curVc = IF @ = NUM_VC - 1 THEN 0 ELSE lane + 1]]

\* get_msg_from_vcs: try the class the round-robin state prefers, then the
\* other one, and move the state on according to the class chosen.
GetMsgFromVcs(n) ==
    LET a == CheckVcsForPacking(n, RRFirst[n.pkr2])
        x == IF a.valid THEN a ELSE CheckVcsForPacking(n, Other(RRFirst[n.pkr2]))
    IN  IF x.valid THEN [x EXCEPT !.n.pkr2 = RRNext[n.pkr2][x.cls]] ELSE x

\* The switch on the chosen head's opcode inside the slot loop: a message
\* without data goes in if the flit holds at most one of its class; a header
\* with data goes in if the flit has none and it is in slot 0 or every later
\* slot is empty, and then owes four data chunks.  A message that does not
\* fit stays in its lane (the round-robin state has already moved on).
Place(n, cls, lane, i) ==
    LET m == Head(n[cls][lane]) IN
    IF cls = "small"
    THEN IF SlotCountInFlit(n.flit, SmallType) <= 1
         THEN PlaceSmall([n EXCEPT !.flit = SetSlot(@, i, SmallType, m.id),
                                   !.small[lane] = Tail(@)])
         ELSE n
    ELSE IF SlotCountInFlit(n.flit, BigType) = 0
            /\ (i = 0 \/ AreAllSlotsAfterThisEmpty(n.flit, i))
         THEN PlaceBig([n EXCEPT !.flit = SetSlot(@, i, BigType, m.id),
                                 !.lastHdr = m.id, !.rollover = 4,
                                 !.big[lane] = Tail(@)])
         ELSE n

\* The slot loop of FLIT_packer from slot i on: filled slots are skipped,
\* owed data goes in any slot but 0, and otherwise a message is chosen; the
\* loop ends when no message can be chosen.
RECURSIVE FillSlots(_, _)
FillSlots(n, i) ==
    IF i > 3 THEN n
    ELSE IF n.flit.slots[i].type # "empty" THEN FillSlots(n, i + 1)
    ELSE IF n.rollover > 0 /\ i # 0
         THEN FillSlots([n EXCEPT !.flit = SetSlot(@, i, "data", n.lastHdr),
                                  !.rollover = @ - 1], i + 1)
    ELSE LET x == GetMsgFromVcs(n) IN
         IF ~x.valid THEN n ELSE FillSlots(Place(x.n, x.cls, x.lane, i), i + 1)

\* Mutant of RolloverPrefix: slots 1..r-1, one data chunk is dropped.
RolloverPrefixShort(n) ==
    [n EXCEPT !.flit.slots = [i \in Slots |->
                 IF i \in 1..(n.rollover - 1) THEN [type |-> "data", id |-> n.lastHdr]
                 ELSE n.flit.slots[i]],
              !.rollover = 0]

\* Rollover cases 1-3 of a brand new flit: the owed data goes in slots 1..r.
RolloverPrefix(n) ==
    [n EXCEPT !.flit.slots = [i \in Slots |->
                 IF i \in 1..n.rollover THEN [type |-> "data", id |-> n.lastHdr]
                 ELSE n.flit.slots[i]],
              !.rollover = 0]

\* Send flit_to_pack to tx_buffer unless the buffer is full (backpressure).
Flush(n) ==
    IF Len(n.tx) = BufSize THEN n
    ELSE [AddFlitToBuf(n) EXCEPT !.waiting = FALSE]

\* Rollover case 4: an all-data flit that is sent at once, or kept waiting
\* if tx_buffer is full.
AllDataFlit(n) ==
    LET d == [NewFlit EXCEPT !.slots = [i \in Slots |-> [type |-> "data", id |-> n.lastHdr]]]
        n2 == [n EXCEPT !.flit = d, !.rollover = 0]
    IN  IF Len(n.tx) = BufSize THEN [n2 EXCEPT !.waiting = TRUE]
        ELSE [AddFlitToBuf(n2) EXCEPT !.waiting = FALSE]

\* The end of FLIT_packer: the packer waits iff the flit holds something,
\* and the packing rules are asserted.
AfterLoop(n) ==
    [n EXCEPT !.waiting = @ \/ ~IsFlitEmpty(n.flit),
              !.fault = IF PackingRuleOk(n.flit, SmallType, BigType) THEN @
                        ELSE @ \cup {"Packing rule violated on packer side"}]

\* FLIT_packer, returning the new node and the value the method returns.
FLIT_packer(n0) ==
    LET n == IF n0.waiting THEN n0 ELSE [n0 EXCEPT !.flit = NewFlit, !.waitAge = 0]
    IN  CASE n.waiting /\ IsFlitFull(n.flit) ->
               [n |-> Flush(n), active |-> TRUE]
          [] n.waiting /\ n.waitAge > PackerWaitTime /\ ~IsFlitEmpty(n.flit) ->
               [n |-> Flush(n), active |-> TRUE]
          [] ~n.waiting /\ n.rollover = 4 ->
               [n |-> AllDataFlit(n), active |-> TRUE]
          [] OTHER ->
               LET n1 == IF ~n.waiting /\ n.rollover \in 1..3 THEN RolloverPrefix(n) ELSE n
                   n2 == AfterLoop(FillSlots(n1, 0))
               IN  [n |-> n2, active |-> ~IsFlitEmpty(n2.flit)]

=============================================================================
