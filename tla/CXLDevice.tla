----------------------------- MODULE CXLDevice -----------------------------
(***************************************************************************)
(* The CXL memory device (src/CXLDevice.cpp) with its DRAM                 *)
(* (ramulator/src/RamDevice.cpp): it unpacks M2S flits into M2S_Req and   *)
(* M2S_RWD, submits requests to the DRAM's input buffer, turns each DRAM  *)
(* completion into a response (DRS for a read, NDR for a write) on one of *)
(* the S2M lanes, packs the responses into flits and transmits them.      *)
(*                                                                         *)
(* The device's state is the record `dev'; besides the fields named in    *)
(* CXLPacker and CXLUnpacker it has                                        *)
(*   int, ext     int_cred and ext_creds[0]                                *)
(*   seqLen       packer_seq_length                                        *)
(*   enqSmall     cur_NDR_vc           enqBig    cur_DRS_vc                *)
(*   ramState     ramulator_inp_state                                      *)
(*   inp, cur, mem  the DRAM's front end, as in CXLInterface              *)
(*   inRam        messages_in_ramulator: msg_id -> opcode or "none"       *)
(* The controller itself is abstract: it accepts a request while it has  *)
(* room, and completes any request it holds, in any order, later.          *)
(***************************************************************************)
EXTENDS Naturals, Sequences, FiniteSets, TLC, CXLNode, CXLInterface

CONSTANTS NUM_VC,
          DevVcSize,          \* M2S_Req and M2S_RWD: vc_size
          DevLaneSize,        \* each S2M_NDR[i], S2M_DRS[i]: vc_size / NUM_VC
          BufSize,            \* tx_buffer and rx_buffer
          DevPackerWaitTime,  \* packer_wait_time (0.1 ns = 1 tick)
          SeqThreshold        \* seq_threshold (5)

VARIABLES dev,      \* the device's state
          busDH     \* the bus from the device towards the host

Lanes == 0..NUM_VC - 1

\* CXLDevice::CXLDevice: int_cred = {|M2S_Req| - 1, 0, |M2S_RWD| - 1}, one
\* credit of each having been given to the host already; ext_creds = 0.
DevInit ==
    [small |-> [l \in Lanes |-> << >>], big |-> [l \in Lanes |-> << >>],
     curVc |-> 0, pkr2 |-> "R", waiting |-> FALSE, flit |-> NewFlit,
     waitAge |-> 0, rollover |-> 0, lastHdr |-> NoMsg, seqLen |-> 0,
     tx |-> << >>, rx |-> << >>, urollover |-> 0, ulastHdr |-> NoMsg,
     rxSmall |-> << >>, rxBig |-> << >>,
     int |-> [req |-> DevVcSize - 1, rsp |-> 0, data |-> DevVcSize - 1],
     ext |-> NoCredits,
     fault |-> {}, enqSmall |-> 0, enqBig |-> 0, ramState |-> "R",
     inp |-> << >>, cur |-> NoMsg, mem |-> {}, inRam |-> [i \in MsgIds |-> "none"]]

(***************************************************************************)
(* Credits of the packer (check_vcs_for_packing, FLIT_packer,              *)
(* add_flit_to_buf, get_device_credits).                                    *)
(***************************************************************************)
DevSmallOk(d) == d.ext.rsp # 0
DevBigOk(d)   == d.ext.data # 0 /\ d.seqLen < SeqThreshold

\* Mutant of DevPlaceSmall: the write's data credit is not freed.
DevPlaceSmallNoFree(d) == [d EXCEPT !.ext.rsp = @ - 1]

\* Packing an NDR ends a write: its data buffer credit is freed here.
DevPlaceSmall(d) == [d EXCEPT !.int.data = @ + 1, !.ext.rsp = @ - 1]
DevPlaceBig(d)   == [d EXCEPT !.ext.data = @ - 1]

\* credit_sanity_check
DevCreditSane(d) ==
    /\ d.int.rsp = 0
    /\ d.int.req \in 0..DevVcSize
    /\ d.int.data \in 0..DevVcSize

\* get_device_credits with one connected host: every internal credit is
\* granted (1 if there is one, int / 1 if there are more).
Grant(c) == IF c >= 1 THEN c ELSE 0

\* add_flit_to_buf: the flit carries the grant, and packer_seq_length counts
\* the flits in a row after which data is still owed.
DevAddFlitToBuf(d) ==
    LET g == [req |-> Grant(d.int.req), rsp |-> 0, data |-> Grant(d.int.data)]
        seq == IF d.rollover > 0 THEN d.seqLen + 1 ELSE 0
    IN  [d EXCEPT !.tx = Append(@, [d.flit EXCEPT !.cred = g, !.fresh = TRUE]),
                  !.int.req = @ - g.req,
                  !.int.data = @ - g.data,
                  !.seqLen = seq,
                  !.fault = @ \cup (IF DevCreditSane(d) THEN {}
                                    ELSE {"device credit out of range"})
                              \cup (IF seq = SeqThreshold /\ d.rollover > 0
                                    THEN {"Device packer sequence threshold violated"}
                                    ELSE {})]

\* FLIT_unpacker's credit update: ext_creds gains the rsp and data credits.
DevAddCredits(d, c) == [d EXCEPT !.ext.rsp = @ + c.rsp, !.ext.data = @ + c.data]

P == INSTANCE CXLPacker WITH BufSize <- BufSize, PackerWaitTime <- DevPackerWaitTime,
        SmallType <- "s2m_ndr", BigType <- "s2m_drs_hdr",
        SmallOk <- DevSmallOk, BigOk <- DevBigOk,
        PlaceSmall <- DevPlaceSmall, PlaceBig <- DevPlaceBig,
        AddFlitToBuf <- DevAddFlitToBuf

U == INSTANCE CXLUnpacker WITH RxBufSize <- BufSize, VcSize <- DevVcSize,
        SmallType <- "m2s_req", BigType <- "m2s_rwd_hdr",
        SmallOp <- "Req", BigOp <- "RwD", AddCredits <- DevAddCredits

(***************************************************************************)
(* Submission to the DRAM.                                                  *)
(***************************************************************************)
\* check_rx_vc: the head of M2S_Req (rxSmall) or M2S_RWD (rxBig), once it
\* has waited delay_vc_to_ramulator, goes to inp_buf unless that is full;
\* a read's request credit is freed now, a write's data credit only when
\* its NDR is packed.
DevCheckRxVc(d, q) ==
    LET m == Head(d[q]) IN
    IF d[q] = << >> \/ m.fresh \/ IfBufIsFull(d) THEN [ok |-> FALSE, n |-> d]
    ELSE [ok |-> TRUE,
          n |-> [IfBufAdd(d, m.id) EXCEPT !.inRam[m.id] = IF @ = "none" THEN m.op ELSE @,
                                           !.int.req = IF m.op = "Req" THEN @ + 1 ELSE @,
                                           ![q] = Tail(@)]]

\* ramulator_inp_state: R tries M2S_RWD first, r and w try M2S_Req first.
RamFirst == ("R" :> "rxBig") @@ ("r" :> "rxSmall") @@ ("w" :> "rxSmall")
RamNext(s, q) == IF q = "rxBig" THEN "w" ELSE IF s = "R" THEN "r" ELSE "R"

\* send_to_ramulator
SendToRamulator(d0) ==
    LET d == IF Len(d0.rxSmall) = DevVcSize /\ Len(d0.rxBig) = DevVcSize /\ IfBufIsEmpty(d0)
             THEN [d0 EXCEPT !.fault = @ \cup {"Ramulator side stall"}] ELSE d0
        q1 == RamFirst[d.ramState]
        q2 == IF q1 = "rxSmall" THEN "rxBig" ELSE "rxSmall"
        a == DevCheckRxVc(d, q1)
        b == DevCheckRxVc(d, q2)
        q == IF a.ok THEN q1 ELSE q2
        r == IF a.ok THEN a ELSE b
    IN  IF r.ok THEN [n |-> [r.n EXCEPT !.ramState = RamNext(d.ramState, q)], active |-> TRUE]
        ELSE [n |-> d, active |-> FALSE]

(***************************************************************************)
(* Completion by the DRAM.                                                  *)
(***************************************************************************)
\* Mutant of RamulatorReqNotification: the opcode test is inverted, a read
\* is answered with an NDR and a write with a DRS.
RamNotificationSwapped(d, id) ==
    LET op == d.inRam[id]
        d1 == IF op = "RwD"
              THEN [EnqueueLane(d, "big", d.enqBig, Message(id, "DRS"), DevLaneSize)
                       EXCEPT !.enqBig = NextLane(@, NUM_VC)]
              ELSE IF op = "Req"
              THEN [EnqueueLane(d, "small", d.enqSmall, Message(id, "NDR"), DevLaneSize)
                       EXCEPT !.enqSmall = NextLane(@, NUM_VC)]
              ELSE [d EXCEPT !.fault = @ \cup {"Ramulator callback is for an unknown request"}]
    IN  [d1 EXCEPT !.inRam[id] = "none"]

\* ramulator_req_notification: the completed request must be in
\* messages_in_ramulator; a read becomes a DRS on lane cur_DRS_vc, a write
\* an NDR on lane cur_NDR_vc (the lane is not checked for room), and the
\* lane pointer moves on.
RamulatorReqNotification(d, id) ==
    LET op == d.inRam[id]
        d1 == IF op = "Req"
              THEN [EnqueueLane(d, "big", d.enqBig, Message(id, "DRS"), DevLaneSize)
                       EXCEPT !.enqBig = NextLane(@, NUM_VC)]
              ELSE IF op = "RwD"
              THEN [EnqueueLane(d, "small", d.enqSmall, Message(id, "NDR"), DevLaneSize)
                       EXCEPT !.enqSmall = NextLane(@, NUM_VC)]
              ELSE [d EXCEPT !.fault = @ \cup {"Ramulator callback is for an unknown request"}]
    IN  [d1 EXCEPT !.inRam[id] = "none"]

\* RamDevice::update: the front end fetches and sends (DramSend), then
\* memory->tick may complete a request the controller held (`done', NoMsg
\* for none), which calls ramulator_req_notification.
RamDeviceUpdate(d, sendOk, done) ==
    LET d1 == DramSend(d, sendOk) IN
    IF done = NoMsg THEN d1
    ELSE RamulatorReqNotification([d1 EXCEPT !.mem = @ \ {done}], done)

(***************************************************************************)
(* Skip predicates (SKIP_CYCLE build).                                       *)
(***************************************************************************)
Ready(q) == q # << >> /\ ~Head(q).fresh

\* Mutant of SkipPackerCheck: a flit still waiting to be sent is ignored.
SkipPackerCheckIgnoresWaiting(d) ==
    /\ d.rollover = 0
    /\ \A l \in Lanes : d.small[l] = << >> /\ d.big[l] = << >>

\* skip_packer_check: it looks at tick_created, the time the host created
\* the request, which is always at least a tick in the past.
SkipPackerCheck(d) ==
    /\ d.rollover = 0
    /\ ~d.waiting
    /\ \A l \in Lanes : d.small[l] = << >> /\ d.big[l] = << >>

\* skip_send_to_ram_check
SkipSendToRamCheck(d) ==
    /\ ~IfBufIsFull(d)
    /\ ~Ready(d.rxSmall) /\ ~Ready(d.rxBig)

(***************************************************************************)
(* The steps of CXLDevice::update, in the order it makes them.              *)
(***************************************************************************)
DevPack ==
    /\ dev' = P!FLIT_packer(dev).n
    /\ UNCHANGED busDH

DevUnpack ==
    /\ dev' = U!FLIT_unpacker(dev).n
    /\ UNCHANGED busDH

DevSendToRamulator ==
    /\ dev' = SendToRamulator(dev).n
    /\ UNCHANGED busDH

DevTransmit ==
    LET r == Transmit(dev, busDH) IN
    /\ dev' = r.n
    /\ busDH' = r.bus

\* access_dram()->update(), made when curr_tick is a multiple of
\* delay_ramulator_update (DevRamIdle stands for the other ticks).
DevRamUpdate(sendOk, done) ==
    /\ done \in dev.mem \cup {NoMsg}
    /\ SendPossible(dev, sendOk)
    /\ dev' = RamDeviceUpdate(dev, sendOk, done)
    /\ UNCHANGED busDH

=============================================================================
