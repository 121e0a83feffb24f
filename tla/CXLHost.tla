------------------------------ MODULE CXLHost ------------------------------
(***************************************************************************)
(* The CXL host (src/CXLHost.cpp): it turns trace lines into M2S requests *)
(* (Req) and writes (RwD), packs them into flits, transmits them, unpacks *)
(* the S2M responses (NDR for writes, DRS with data for reads) and retires *)
(* the requests they answer.  One device is attached; the host's address  *)
(* decode (destination_device, device_under_consideration) therefore      *)
(* always yields that device and is left out.  A trace line whose address *)
(* lies in DAM_addr goes to the direct-attached memory instead.           *)
(*                                                                         *)
(* The host's state is the record `host'; its fields are named in         *)
(* CXLPacker and CXLUnpacker, plus                                         *)
(*   int, ext     int_cred and ext_creds[device], triples [req, rsp, data] *)
(*   enqSmall     cur_Req_vc           enqBig    cur_RWD_vc                *)
(*   rcvd         rcvd_rsp_state                                           *)
(*   traceHead    opcode of the head of text_to_trace_buf ("none" at end) *)
(*   traceDam     whether the head's address lies in DAM_addr             *)
(*   dam          reqs_in_dam, as the set of its msg ids                   *)
(*   nextId       msg_id of the next message the trace creates            *)
(*   sent         messages_sent_to_device: msg_id -> opcode or "none"     *)
(*   completed    num_reqs_completed                                       *)
(***************************************************************************)
EXTENDS Naturals, Sequences, FiniteSets, TLC, CXLNode, CXLInterface

CONSTANTS NUM_VC,
          HostLaneSize,        \* each M2S_Req[i], M2S_RWD[i]: vc_size / NUM_VC
          HostRspVcSize,       \* S2M_NDR and S2M_DRS (1024 in the code)
          BufSize,             \* tx_buffer and rx_buffer
          HostPackerWaitTime   \* packer_wait_time (10 ticks)

VARIABLES host,     \* the host's state
          busHD     \* the bus from the host towards the device

Lanes == 0..NUM_VC - 1

\* CXLHost::CXLHost and register_device: int_cred = {0, |S2M_NDR|, |S2M_DRS|},
\* ext_creds = {1, 0, 1}; the first trace line is any request, head.op to
\* the device or (head.dam) to the direct-attached memory.
HostInit(head) ==
    [small |-> [l \in Lanes |-> << >>], big |-> [l \in Lanes |-> << >>],
     curVc |-> 0, pkr2 |-> "R", waiting |-> FALSE, flit |-> NewFlit,
     waitAge |-> 0, rollover |-> 0, lastHdr |-> NoMsg,
     tx |-> << >>, rx |-> << >>, urollover |-> 0, ulastHdr |-> NoMsg,
     rxSmall |-> << >>, rxBig |-> << >>,
     int |-> [req |-> 0, rsp |-> HostRspVcSize, data |-> HostRspVcSize],
     ext |-> [req |-> 1, rsp |-> 0, data |-> 1],
     fault |-> {}, enqSmall |-> 0, enqBig |-> 0, rcvd |-> "R",
     traceHead |-> head.op, traceDam |-> head.dam, nextId |-> 1,
     sent |-> [i \in MsgIds |-> "none"], completed |-> 0, dam |-> {}]

(***************************************************************************)
(* Credits of the packer (check_vcs_for_packing, the placement in          *)
(* FLIT_packer, get_Host_credits).                                          *)
(***************************************************************************)
\* Mutant of HostSmallOk: the device's request credit is not checked.
HostSmallOkNoExt(h) == h.int.data # 0

HostSmallOk(h) == h.ext.req # 0 /\ h.int.data # 0
HostBigOk(h)   == h.ext.data # 0 /\ h.int.rsp # 0

HostPlaceSmall(h) == [h EXCEPT !.ext.req = @ - 1, !.int.data = @ - 1]
HostPlaceBig(h)   == [h EXCEPT !.ext.data = @ - 1, !.int.rsp = @ - 1]

\* credit_sanity_check
HostCreditSane(h) ==
    /\ h.int.req = 0
    /\ h.int.rsp \in 0..HostRspVcSize
    /\ h.int.data \in 0..HostRspVcSize

\* add_flit_to_buf with get_Host_credits: the flit grants one response
\* credit per write header and one data credit per read it carries.
HostAddFlitToBuf(h) ==
    LET c == [req |-> 0, rsp |-> SlotCountInFlit(h.flit, "m2s_rwd_hdr"),
              data |-> SlotCountInFlit(h.flit, "m2s_req")]
    IN  [h EXCEPT !.tx = Append(@, [h.flit EXCEPT !.cred = c, !.fresh = TRUE]),
                  !.fault = IF HostCreditSane(h) THEN @
                            ELSE @ \cup {"host credit out of range"}]

\* Mutant of HostAddCredits: the request credits of the flit are dropped.
HostAddCreditsNoReq(h, c) == [h EXCEPT !.ext.data = @ + c.data]

\* FLIT_unpacker's credit update: ext_creds gains the req and data credits.
HostAddCredits(h, c) == [h EXCEPT !.ext.req = @ + c.req, !.ext.data = @ + c.data]

P == INSTANCE CXLPacker WITH BufSize <- BufSize, PackerWaitTime <- HostPackerWaitTime,
        SmallType <- "m2s_req", BigType <- "m2s_rwd_hdr",
        SmallOk <- HostSmallOk, BigOk <- HostBigOk,
        PlaceSmall <- HostPlaceSmall, PlaceBig <- HostPlaceBig,
        AddFlitToBuf <- HostAddFlitToBuf

U == INSTANCE CXLUnpacker WITH RxBufSize <- BufSize, VcSize <- HostRspVcSize,
        SmallType <- "s2m_ndr", BigType <- "s2m_drs_hdr",
        SmallOp <- "NDR", BigOp <- "DRS", AddCredits <- HostAddCredits

(***************************************************************************)
(* Retirement of responses.                                                 *)
(***************************************************************************)
\* check_rx_vc: the head of S2M_NDR (rxSmall) or S2M_DRS (rxBig), once it
\* has waited delay_vc_to_retire, must answer a request that was sent; the
\* request is erased, counted, and its response credit is freed.
CheckRxVc(h, q) ==
    LET m == Head(h[q]) IN
    IF h[q] = << >> \/ m.fresh THEN [ok |-> FALSE, n |-> h]
    ELSE [ok |-> TRUE,
          n |-> [h EXCEPT !.fault = IF h.sent[m.id] # "none" THEN @
                                    ELSE @ \cup {"Response received is for an unknown request"},
                          !.sent[m.id] = "none",
                          !.completed = @ + 1,
                          !.int.data = IF m.op = "DRS" THEN @ + 1 ELSE @,
                          !.int.rsp = IF m.op = "NDR" THEN @ + 1 ELSE @,
                          ![q] = Tail(@)]]

\* rcvd_rsp_state: R tries S2M_NDR first, r and w try S2M_DRS first.
RcvdFirst == ("R" :> "rxSmall") @@ ("r" :> "rxBig") @@ ("w" :> "rxBig")
RcvdNext(s, q) == IF q = "rxSmall" THEN "w" ELSE IF s = "R" THEN "r" ELSE "R"

\* check_if_req_completed
CheckIfReqCompleted(h) ==
    LET q1 == RcvdFirst[h.rcvd]
        q2 == IF q1 = "rxSmall" THEN "rxBig" ELSE "rxSmall"
        a == CheckRxVc(h, q1)
        b == CheckRxVc(h, q2)
        q == IF a.ok THEN q1 ELSE q2
        r == IF a.ok THEN a ELSE b
    IN  IF r.ok THEN [n |-> [r.n EXCEPT !.rcvd = RcvdNext(h.rcvd, q)], active |-> TRUE]
        ELSE [n |-> h, active |-> FALSE]

(***************************************************************************)
(* Creation of requests from the trace.                                     *)
(***************************************************************************)
\* Mutant of TextToTrace: the lane-full test is one entry too late.
TextToTraceLate(h, next) ==
    LET op == h.traceHead
        q == IF op = "Req" THEN "small" ELSE "big"
        lane == IF op = "Req" THEN h.enqSmall ELSE h.enqBig
    IN  IF Len(h[q][lane]) > HostLaneSize THEN h
        ELSE [EnqueueLane(h, q, lane, Message(h.nextId, op), HostLaneSize) EXCEPT
                       !.enqSmall = IF op = "Req" THEN NextLane(@, NUM_VC) ELSE @,
                       !.enqBig = IF op = "RwD" THEN NextLane(@, NUM_VC) ELSE @,
                       !.sent[h.nextId] = op,
                       !.nextId = @ + 1,
                       !.traceHead = IF h.nextId = MaxMsgs THEN "none" ELSE next.op,
                       !.traceDam = next.dam]

(***************************************************************************)
(* The idle jump of text_to_trace.                                          *)
(***************************************************************************)
\* no_active_transaction: the M2S_Req and M2S_RWD lanes and the S2M_DRS and
\* S2M_NDR VCs are empty, and neither messages_sent_to_device nor
\* reqs_in_dam has an entry.
NoActiveTransaction(h) ==
    /\ \A l \in Lanes : h.small[l] = << >> /\ h.big[l] = << >>
    /\ h.rxSmall = << >> /\ h.rxBig = << >>
    /\ h.dam = {}
    /\ \A i \in MsgIds : h.sent[i] = "none"

\* The jump is taken when the system is idle and a line is buffered: it
\* advances curr_tick to the tick at which the head's instruction gap has
\* elapsed (replaying the DRAM and DAM updates of the skipped ticks), so
\* the head is issued in this call and never waits.
IdleJump(h) == h.traceHead # "none" /\ NoActiveTransaction(h)

\* text_to_trace, once the head's instruction gap has elapsed: the message
\* goes to lane cur_Req_vc or cur_RWD_vc unless that lane is full (then the
\* head stays and is tried again), and is recorded in
\* messages_sent_to_device.  `next' is the following line: its opcode and
\* whether its address lies in DAM_addr.
TextToTrace(h, next) ==
    LET op == h.traceHead
        q == IF op = "Req" THEN "small" ELSE "big"
        lane == IF op = "Req" THEN h.enqSmall ELSE h.enqBig
    IN  IF Len(h[q][lane]) = HostLaneSize THEN h
        ELSE [EnqueueLane(h, q, lane, Message(h.nextId, op), HostLaneSize) EXCEPT
                       !.enqSmall = IF op = "Req" THEN NextLane(@, NUM_VC) ELSE @,
                       !.enqBig = IF op = "RwD" THEN NextLane(@, NUM_VC) ELSE @,
                       !.sent[h.nextId] = op,
                       !.nextId = @ + 1,
                       !.traceHead = IF h.nextId = MaxMsgs THEN "none" ELSE next.op,
                       !.traceDam = next.dam]

\* text_to_trace for a head whose address lies in DAM_addr: unless the
\* DAM's inp_buf is full, the request goes there and into reqs_in_dam and
\* the head is dequeued; otherwise it stays for the next tick.
TextToTraceDam(h, dm, next) ==
    IF IfBufIsFull(dm) THEN [host |-> h, dam |-> dm]
    ELSE [host |-> [h EXCEPT !.dam = @ \cup {h.nextId},
                             !.nextId = @ + 1,
                             !.traceHead = IF h.nextId = MaxMsgs THEN "none" ELSE next.op,
                             !.traceDam = next.dam],
          dam |-> IfBufAdd(dm, h.nextId)]

(***************************************************************************)
(* Skip predicates (SKIP_CYCLE build).                                       *)
(***************************************************************************)
Ready(q) == q # << >> /\ ~Head(q).fresh

\* skip_packer_check
SkipPackerCheck(h) ==
    /\ h.rollover = 0
    /\ ~h.waiting
    /\ \A l \in Lanes : ~Ready(h.small[l]) /\ ~Ready(h.big[l])

\* skip_req_complete_check
SkipReqCompleteCheck(h) == ~Ready(h.rxBig) /\ ~Ready(h.rxSmall)

(***************************************************************************)
(* The steps of CXLHost::update, in the order it makes them.                *)
(***************************************************************************)
HostTextToTrace(next) ==
    /\ host.traceHead # "none"
    /\ host' = TextToTrace(host, next)
    /\ UNCHANGED busHD

HostPack ==
    /\ host' = P!FLIT_packer(host).n
    /\ UNCHANGED busHD

HostTransmit ==
    LET r == Transmit(host, busHD) IN
    /\ host' = r.n
    /\ busHD' = r.bus

HostUnpack ==
    /\ host' = U!FLIT_unpacker(host).n
    /\ UNCHANGED busHD

HostComplete ==
    /\ host' = CheckIfReqCompleted(host).n
    /\ UNCHANGED busHD

=============================================================================
