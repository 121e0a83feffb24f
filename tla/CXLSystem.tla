----------------------------- MODULE CXLSystem -----------------------------
(***************************************************************************)
(* One host and one CXL memory device joined by a link in each direction  *)
(* (src/CXLSys.cpp, the main loop of src/Main.cpp).  The simulator is     *)
(* single-threaded and advances in ticks; in each tick CXLSystem::update  *)
(* updates the buses, then the device, then the host, and each node's     *)
(* update calls its operations in a fixed order.  `phase' names the       *)
(* operation that comes next, so that every step of the model is one      *)
(* operation of the code and the steps of a tick happen in code order.   *)
(*                                                                         *)
(* Between host and device the code has a bus, the switch and a second    *)
(* bus in each direction; here each direction is a single bus, busHD and  *)
(* busDH, with the latency and rate of one tick.                           *)
(*                                                                         *)
(* The host also has a direct-attached memory, `dam' (DirectAttached):    *)
(* trace lines whose address lies in DAM_addr go there, and the system    *)
(* updates it after the host.  The device's DRAM and the DAM are          *)
(* updated only in the ticks that are multiples of delay_ramulator_update; *)
(* an Idle step stands for each of the other ticks.                        *)
(***************************************************************************)
EXTENDS Naturals, Sequences, FiniteSets, TLC, CXLNode

CONSTANTS NUM_VC, HostLaneSize, HostRspVcSize, DevVcSize, DevLaneSize,
          BufSize, RamInpSize, MemSize,
          HostPackerWaitTime, DevPackerWaitTime, SeqThreshold,
          TraceToDam    \* whether trace lines may lie in DAM_addr: a subset of BOOLEAN

VARIABLES host, dev, busHD, busDH, dam, phase

vars == <<host, dev, busHD, busDH, dam, phase>>

H == INSTANCE CXLHost
D == INSTANCE CXLDevice
DA == INSTANCE DirectAttached
LOCAL SE == INSTANCE SequencesExt

\* The trace lines: an opcode, and whether the address lies in DAM_addr.
TraceLines == [op : {"Req", "RwD"}, dam : TraceToDam]

\* The operations of one tick, in the order CXLSystem::update,
\* CXLDevice::update and CXLHost::update make them.
Order == << "bus", "devPack", "devUnpack", "devRam", "devTransmit", "devDram",
            "hostTrace", "hostPack", "hostTransmit", "hostUnpack", "hostComplete",
            "dam", "tick" >>

After(p) == LET k == CHOOSE k \in DOMAIN Order : Order[k] = p IN Order[k + 1]

Init ==
    /\ host \in {H!HostInit(l) : l \in TraceLines}
    /\ dev = D!DevInit
    /\ dam = DA!DamInit
    /\ busHD = << >>
    /\ busDH = << >>
    /\ phase = "bus"

Running == host.fault = {} /\ dev.fault = {}

Step(p, next) == phase = p /\ phase' = After(p) /\ next

(***************************************************************************)
(* The buses: CXLBus::update and send_to_node move the head flit, once it  *)
(* has been on the bus for the bus latency, into the receiver's           *)
(* rx_buffer, which is enqueued without a check for room.                  *)
(***************************************************************************)
Deliver(bus, n) ==
    IF bus # << >> /\ ~Head(bus).fresh
    THEN [bus |-> Tail(bus), n |-> Enqueue(n, "rx", [Head(bus) EXCEPT !.fresh = TRUE], BufSize)]
    ELSE [bus |-> bus, n |-> n]

BusUpdate ==
    LET toDev == Deliver(busHD, dev)
        toHost == Deliver(busDH, host)
    IN  /\ busHD' = toDev.bus /\ dev' = toDev.n
        /\ busDH' = toHost.bus /\ host' = toHost.n
        /\ UNCHANGED dam

(***************************************************************************)
(* The end of a tick: curr_tick++ makes everything enqueued in this tick  *)
(* old enough, the packers' waiting time grows, and the main loop stops   *)
(* once every request of the trace has completed.                         *)
(***************************************************************************)
AgeNode(n, wait) ==
    [n EXCEPT !.small = [l \in DOMAIN @ |-> Aged(@[l])],
              !.big = [l \in DOMAIN @ |-> Aged(@[l])],
              !.tx = Aged(@), !.rx = Aged(@),
              !.rxSmall = Aged(@), !.rxBig = Aged(@),
              !.waitAge = IF @ > wait THEN @ ELSE @ + 1]

Finished ==
    /\ host.completed >= MaxMsgs
    /\ \A i \in MsgIds : host.sent[i] = "none"
    /\ host.dam = {}

TickEnd ==
    /\ phase = "tick"
    /\ host' = AgeNode(host, HostPackerWaitTime)
    /\ dev' = AgeNode(dev, DevPackerWaitTime)
    /\ busHD' = Aged(busHD)
    /\ busDH' = Aged(busDH)
    /\ UNCHANGED dam
    /\ phase' = IF Finished THEN "done" ELSE "bus"

(***************************************************************************)
(* The steps of a tick.  A fired CXL_ASSERT (a fault) aborts the program,  *)
(* so no step follows it.                                                   *)
(***************************************************************************)
HostStep(p, A) == Running /\ Step(p, A /\ UNCHANGED <<dev, busDH, dam>>)
DevStep(p, A)  == Running /\ Step(p, A /\ UNCHANGED <<host, busHD, dam>>)

Buses          == Running /\ Step("bus", BusUpdate)
DeviceUnpack   == DevStep("devUnpack", D!DevUnpack)
DevicePack     == DevStep("devPack", D!DevPack)
DeviceToRam    == DevStep("devRam", D!DevSendToRamulator)
DeviceTransmit == DevStep("devTransmit", D!DevTransmit)
DeviceDram(sendOk, done) == DevStep("devDram", D!DevRamUpdate(sendOk, done))
DeviceDramIdle == DevStep("devDram", UNCHANGED <<dev, busDH>>)
\* The head of the trace is issued only once its instruction gap has
\* elapsed; until then text_to_trace leaves everything as it is.  When the
\* idle jump applies the gap elapses at once, so there is no wait.
HostTraceWait  ==
    /\ Running
    /\ ~H!IdleJump(host)
    /\ Step("hostTrace", UNCHANGED <<host, dev, busHD, busDH, dam>>)
\* The head goes to the device's lanes or, if its address lies in
\* DAM_addr, to the DAM's inp_buf.
HostTrace(next) ==
    \/ /\ ~host.traceDam
       /\ HostStep("hostTrace", H!HostTextToTrace(next))
    \/ /\ host.traceDam /\ host.traceHead # "none"
       /\ Running
       /\ Step("hostTrace", LET r == H!TextToTraceDam(host, dam, next)
                            IN  host' = r.host /\ dam' = r.dam
                                /\ UNCHANGED <<dev, busHD, busDH>>)
HostPacker     == HostStep("hostPack", H!HostPack)
HostTransmitter == HostStep("hostTransmit", H!HostTransmit)
HostUnpacker   == HostStep("hostUnpack", H!HostUnpack)
HostCompletion == HostStep("hostComplete", H!HostComplete)
\* CXLSystem::update: DirectAttached::update after the hosts.
DamUpdate(sendOk, done) ==
    /\ Running
    /\ done \in dam.mem \cup {NoMsg}
    /\ DA!SendPossible(dam, sendOk)
    /\ Step("dam", LET r == DA!DirectAttachedUpdate(dam, host, sendOk, done)
                   IN  dam' = r.dam /\ host' = r.host
                       /\ UNCHANGED <<dev, busHD, busDH>>)
DamIdle        == Running /\ Step("dam", UNCHANGED <<host, dev, busHD, busDH, dam>>)
Tick           == Running /\ TickEnd
\* After the main loop has left while (true) nothing changes.
Stopped        == phase = "done" /\ UNCHANGED vars

Next ==
    \/ Buses
    \/ DevicePack \/ DeviceUnpack \/ DeviceToRam \/ DeviceTransmit
    \/ \E sendOk \in BOOLEAN, done \in MsgIds \cup {NoMsg} : DeviceDram(sendOk, done)
    \/ DeviceDramIdle
    \/ HostTraceWait
    \/ \E next \in TraceLines : HostTrace(next)
    \/ HostPacker \/ HostTransmitter \/ HostUnpacker \/ HostCompletion
    \/ \E sendOk \in BOOLEAN, done \in MsgIds \cup {NoMsg} : DamUpdate(sendOk, done)
    \/ DamIdle
    \/ Tick
    \/ Stopped

(***************************************************************************)
(* Counting what is in flight.                                              *)
(***************************************************************************)
Req2Rsp == ("Req" :> "DRS") @@ ("RwD" :> "NDR") @@ ("DAM" :> "DAM")

\* flit_to_pack holds messages only while the packer is waiting.
Live(n) == IF n.waiting THEN << n.flit >> ELSE << >>

\* The flits between host and device in each direction.
FlitsHD == Live(host) \o host.tx \o busHD \o dev.rx
FlitsDH == Live(dev) \o dev.tx \o busDH \o host.rx

\* The host flits that carry their credits: the live flit has none yet.
SentHD == host.tx \o busHD \o dev.rx

SlotsIn(fs, t) == SE!FoldSeq(LAMBDA f, acc : acc + SlotCountInFlit(f, t), 0, fs)
CredIn(fs, k)  == SE!FoldSeq(LAMBDA f, acc : acc + f.cred[k], 0, fs)
LanesLen(ls)   == SE!FoldSeq(LAMBDA q, acc : acc + Len(q), 0, ls)
Count(f, v)    == Cardinality({i \in DOMAIN f : f[i] = v})
Pending(n)     == IF n.urollover > 0 THEN 1 ELSE 0

\* The messages the system holds, each with the place that holds it, and
\* the opcode it has there.
SlotOp == ("m2s_req" :> "Req") @@ ("m2s_rwd_hdr" :> "RwD")
          @@ ("s2m_ndr" :> "NDR") @@ ("s2m_drs_hdr" :> "DRS")

Copy(place, a, b, id, op) == [at |-> << place, a, b >>, id |-> id, op |-> op]

QueueCopies(place, l, q) == {Copy(place, l, k, q[k].id, q[k].op) : k \in DOMAIN q}
LaneCopies(place, ls)    == UNION {QueueCopies(place, l, ls[l]) : l \in DOMAIN ls}
FlitCopies(place, fs) ==
    {Copy(place, p[1], p[2], fs[p[1]].slots[p[2]].id, SlotOp[fs[p[1]].slots[p[2]].type]) :
        p \in {p \in (DOMAIN fs) \X Slots : fs[p[1]].slots[p[2]].type \in DOMAIN SlotOp}}
\* A header whose data the unpacker is still consuming (last_rwd_hdr,
\* last_drs_hdr) is not yet in its VC.
PendingCopies(place, n, op) ==
    IF n.urollover > 0 THEN {Copy(place, 0, 0, n.ulastHdr, op)} ELSE {}

\* A request in the DAM is in inp_buf, stalled at the front end, or in the
\* controller.
DamCopies ==
    {Copy("damInp", k, 0, dam.inp[k], "DAM") : k \in DOMAIN dam.inp}
    \cup {Copy("damMem", id, 0, id, "DAM") : id \in dam.mem}
    \cup (IF dam.cur # NoMsg THEN {Copy("damCur", 0, 0, dam.cur, "DAM")} ELSE {})

Held ==
    LaneCopies("hostSmall", host.small) \cup LaneCopies("hostBig", host.big)
    \cup FlitCopies("toDev", FlitsHD) \cup PendingCopies("devHdr", dev, "RwD")
    \cup QueueCopies("devRxSmall", 0, dev.rxSmall) \cup QueueCopies("devRxBig", 0, dev.rxBig)
    \cup {Copy("ram", id, 0, id, dev.inRam[id]) : id \in {i \in MsgIds : dev.inRam[i] # "none"}}
    \cup LaneCopies("devSmall", dev.small) \cup LaneCopies("devBig", dev.big)
    \cup FlitCopies("toHost", FlitsDH) \cup PendingCopies("hostHdr", host, "DRS")
    \cup QueueCopies("hostRxSmall", 0, host.rxSmall) \cup QueueCopies("hostRxBig", 0, host.rxBig)
    \cup DamCopies

\* The requests the host has created and not retired: messages_sent_to_device
\* and reqs_in_dam, with the opcode each is known by.
Outstanding == {id \in MsgIds : host.sent[id] # "none"} \cup host.dam
OpOf(id) == IF id \in host.dam THEN "DAM" ELSE host.sent[id]

(***************************************************************************)
(* Properties.                                                              *)
(***************************************************************************)
TypeOK ==
    /\ phase \in SE!ToSet(Order) \cup {"done"}
    /\ \A n \in {host, dev} :
         /\ n.curVc \in 0..NUM_VC
         /\ n.enqSmall \in 0..NUM_VC - 1 /\ n.enqBig \in 0..NUM_VC - 1
         /\ n.pkr2 \in {"r", "R", "w"}
         /\ n.waiting \in BOOLEAN
         /\ n.rollover \in 0..4 /\ n.urollover \in 0..4
         /\ \A k \in {"req", "rsp", "data"} : n.int[k] \in Nat /\ n.ext[k] \in Nat
         /\ n.flit.slots \in [Slots -> [type : SlotTypes, id : MsgIds \cup {NoMsg}]]
    /\ host.sent \in [MsgIds -> {"none", "Req", "RwD"}]
    /\ dev.inRam \in [MsgIds -> {"none", "Req", "RwD"}]
    /\ dev.mem \subseteq MsgIds /\ dev.cur \in MsgIds \cup {NoMsg}
    /\ host.dam \subseteq MsgIds /\ host.traceDam \in BOOLEAN
    /\ dam.inp \in Seq(MsgIds) /\ dam.cur \in MsgIds \cup {NoMsg} /\ dam.mem \subseteq MsgIds
    /\ Len(busHD) <= BusSize /\ Len(busDH) <= BusSize

\* Every request the host has created and not retired exists exactly once
\* in the system, either as itself (in a host lane, a flit, a device queue
\* or the DRAM; a DAM request in inp_buf, stalled at the DAM's front end
\* or in its controller) or as the response of the matching kind (DRS for
\* Req, NDR for RwD); nothing else exists, and no request is in both
\* messages_sent_to_device and reqs_in_dam.  It fails if a packer, an unpacker, the
\* rollover bookkeeping (last_rwd_hdr / last_drs_hdr), a DRAM callback or
\* the stall-and-retry of a memory front end drops, duplicates or
\* mislabels a message.
MessageConservation ==
    /\ \A c \in Held : c.id \in Outstanding
                        /\ c.op \in {OpOf(c.id), Req2Rsp[OpOf(c.id)]}
    /\ \A id \in host.dam : host.sent[id] = "none"
    /\ \A id \in Outstanding : \E c \in Held : c.id = id
    /\ Cardinality(Held) = Cardinality(Outstanding)

(***************************************************************************)
(* The refinement: CXLSystem implements the abstract MemService.  The     *)
(* next id is the host's msg_id counter, the pending requests are the     *)
(* entries of messages_sent_to_device and reqs_in_dam with the opcode (or  *)
(* DAM) each is known by, and the completed count is num_reqs_completed.   *)
(***************************************************************************)
Service == INSTANCE MemService
    WITH Ids <- MsgIds, Kinds <- {"Req", "RwD", "DAM"},
         next <- host.nextId,
         pending <- {[id |-> id, op |-> OpOf(id)] : id \in Outstanding},
         completed <- host.completed

\* Every step of the simulator is a step of the memory service or leaves
\* it unchanged: text_to_trace issues the request with the next msg_id
\* into exactly one of messages_sent_to_device and reqs_in_dam;
\* check_if_req_completed and direct_attached_req_complete each retire one
\* pending request and count it in num_reqs_completed; no other operation
\* (the packers, buses, unpackers and DRAM callbacks) creates, retires,
\* relabels or counts a request.  The main loop stops on
\* num_reqs_completed >= num_reqs with both maps empty, which is sound only
\* if a completion is never counted twice or without erasing its entry.
ServiceRefinement == Service!Spec

\* Credit accounting of the link.  Each credit of the device's M2S_Req and
\* M2S_RWD buffers is at the device (int_cred), granted in a flit on its
\* way to the host, at the host (ext_creds), or used by a request between
\* the host's packer and the point where the device frees it (a read when
\* it is submitted to the DRAM, a write when its NDR is packed).  The
\* host's S2M buffers are covered by its int_cred and the requests it has
\* packed and not retired, and the device's ext_creds count the
\* responses it may still send.  These are what keep the unchecked
\* enqueues of both unpackers from overflowing.
CreditConservation ==
    /\ dev.int.req + host.ext.req + CredIn(FlitsDH, "req")
         + SlotsIn(FlitsHD, "m2s_req") + Len(dev.rxSmall) = DevVcSize
    /\ dev.int.data + host.ext.data + CredIn(FlitsDH, "data")
         + SlotsIn(FlitsHD, "m2s_rwd_hdr") + Pending(dev) + Len(dev.rxBig)
         + Count(dev.inRam, "RwD") + LanesLen(dev.small) = DevVcSize
    /\ host.int.data + Count(host.sent, "Req") - LanesLen(host.small) = HostRspVcSize
    /\ host.int.rsp + Count(host.sent, "RwD") - LanesLen(host.big) = HostRspVcSize
    /\ dev.ext.data + CredIn(SentHD, "data")
         = SlotsIn(SentHD, "m2s_req") + Len(dev.rxSmall) + Count(dev.inRam, "Req")
           + LanesLen(dev.big)
    /\ dev.ext.rsp + CredIn(SentHD, "rsp")
         = SlotsIn(SentHD, "m2s_rwd_hdr") + Pending(dev) + Len(dev.rxBig)
           + Count(dev.inRam, "RwD") + LanesLen(dev.small)

\* The flits either packer produces obey the rules both unpackers assert:
\* at most two messages without data and one header per flit, and the data
\* of a header in the slots the receiver's rollover counter expects, never
\* before its header.  (The seq_threshold assertion is listed too; it needs
\* five rollover flits in a row, more messages than the instances have.)
FlitStreamWellFormed ==
    \A n \in {host, dev} :
        n.fault \cap {"Packing rule violated on packer side", "Packing rule violated",
                      "Data rollover rule violated", "Data received when not expected",
                      "Received header without getting previous data first",
                      "Device packer sequence threshold violated"} = {}

\* No buffer is ever enqueued when full: the lanes of S2M_DRS and S2M_NDR
\* that the DRAM callback fills round-robin without a check, the unpackers'
\* VCs, and the rx buffers the buses fill.
NoBufferOverflow ==
    \A n \in {host, dev} :
        \A q \in {"small", "big", "rx", "rxSmall", "rxBig"} : ("full " \o q) \notin n.fault

\* SKIP_CYCLE: whenever a skip predicate lets update() skip an operation,
\* calling the operation would have changed nothing (the packer only
\* resets the flit it is not waiting on).  The code's own "Flag Error"
\* asserts cannot see this, since under SKIP_CYCLE a skipped operation is
\* never called.
SkipChecksSound ==
    /\ phase = "hostPack" /\ H!SkipPackerCheck(host) =>
         LET r == H!P!FLIT_packer(host).n
         IN  [r EXCEPT !.flit = host.flit, !.waitAge = host.waitAge] = host
    /\ phase = "devPack" /\ D!SkipPackerCheck(dev) =>
         LET r == D!P!FLIT_packer(dev).n
         IN  [r EXCEPT !.flit = dev.flit, !.waitAge = dev.waitAge] = dev
    /\ phase = "hostTransmit" /\ SkipTransmitCheck(host, busHD) => H!Transmit(host, busHD).n = host
    /\ phase = "devTransmit" /\ SkipTransmitCheck(dev, busDH) => D!Transmit(dev, busDH).n = dev
    /\ phase = "hostUnpack" /\ SkipUnpackerCheck(host) => H!U!FLIT_unpacker(host).n = host
    /\ phase = "devUnpack" /\ SkipUnpackerCheck(dev) => D!U!FLIT_unpacker(dev).n = dev
    /\ phase = "hostComplete" /\ H!SkipReqCompleteCheck(host) => H!CheckIfReqCompleted(host).n = host
    /\ phase = "devRam" /\ D!SkipSendToRamCheck(dev) => D!SendToRamulator(dev).n = dev

\* Every trace runs to the end: all requests complete and the main loop of
\* Main.cpp leaves its while (true).
AllRequestsComplete == <>(phase = "done")

=============================================================================
