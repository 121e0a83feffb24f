----------------------------- MODULE CXLSwitch -----------------------------
(***************************************************************************)
(* The CXL switch (src/cxlsim/src/CXLSwitch.cpp) between one host and     *)
(* NumDevices devices. The host's flit stream (HostStream) and each        *)
(* device's flit stream (DevStream[d]) are inputs: the flits their packers *)
(* emit, in order, one per bus per tick. CXLSwitch::update is one action.  *)
(*                                                                         *)
(* A slot is [t |-> type, dev |-> device]: for a header, the device whose  *)
(* address interval holds the message's address (destination_device is    *)
(* that lookup); for a data slot, the device of the header it belongs to.  *)
(* Every latency check (latency_check_flit) is one tick: a flit enqueued  *)
(* in this tick is `fresh` and moves on in a later tick. check_transmission*)
(* (bus not full, spacing elapsed) is an input of each update.             *)
(***************************************************************************)
EXTENDS Naturals, FiniteSets, Sequences, SequencesExt

CONSTANTS
    NumDevices,     \* devices on the switch, ids 0 .. NumDevices - 1
    HostStream,     \* the flits the host sends, in order
    DevStream,      \* DevStream[d]: the flits device d sends, in order
    SKIP_CYCLE      \* whether the SKIP_CYCLE build is modelled

Devs == 0..(NumDevices - 1)
HostBus == NumDevices   \* the id of the host's bus in `sent`

VARIABLES
    sw,         \* the switch's buffers and registers (see SwitchInit)
    hostNext,   \* index of the next flit of HostStream to send
    devNext,    \* devNext[d]: index of the next flit of DevStream[d]
    toHost,     \* flits put on bus_to_host
    toDev,      \* toDev[d]: flits put on the bus to device d
    updated,    \* CXLSwitch::update has run in this tick
    sent        \* the buses that delivered a flit in this tick

vars == <<sw, hostNext, devNext, toHost, toDev, updated, sent>>

Entry(f) == [f |-> f, fresh |-> TRUE]

(* CXLBuf::enqueue of a flit whose time_of_receipt the switch (or the bus *)
(* delivering it) has just set to curr_tick.                              *)
Enqueue(b, f) == Append(b, Entry(f))

(* CXLBus::add_to_bus: the flit is pushed on the bus; the caller has      *)
(* checked with check_transmission that the bus is not full.              *)
AddToBus(q, f) == Append(q, f)

-----------------------------------------------------------------------------
(* The constructor and connect_upstream/connect_downstream, as CXLSystem  *)
(* wires one host and NumDevices devices to the switch.                    *)
SwitchInit ==
    sw = [upRx |-> <<>>, nocH2D |-> <<>>, dsTx |-> [d \in Devs |-> <<>>],
          dsRx |-> [d \in Devs |-> <<>>], nocD2H |-> <<>>, upTx |-> <<>>,
          prev |-> 0, port |-> 0, roll |-> 0, skip |-> FALSE, flag |-> TRUE]

(* get_first_address: the address of the first non-empty slot, here the  *)
(* device that owns it; destination_device maps it to that device.        *)
FirstAddress(f) ==
    LET i == CHOOSE j \in 1..4 : f[j].t # "empty" /\ \A m \in 1..(j - 1) : f[m].t = "empty"
    IN f[i].dev
DestinationDevice(dev) == dev

(* check_buffer_condition: `flag` records whether the buffer was empty;   *)
(* the result is whether its head has waited its latency.                 *)
LatencyCheckFlit(b) == ~Head(b).fresh
Eligible(b) == b # <<>> /\ LatencyCheckFlit(b)
Checked(s, b) == [s EXCEPT !.flag = @ /\ b = <<>>]

\* Mutant: all_rx_buf_empty forgets the upstream port.
AllRxBufEmptyDownOnly(s) == \A d \in Devs : s.dsRx[d] = <<>>

(* all_rx_buf_empty: no flit waits at any of the switch's input ports.    *)
AllRxBufEmpty(s) == s.upRx = <<>> /\ \A d \in Devs : s.dsRx[d] = <<>>

(* Host to device: upstream_buffer_rx to ARB_NOC_h2d.                     *)
H2DPort(s) ==
    LET s1 == Checked(s, s.upRx) IN
    IF Eligible(s.upRx)
    THEN [s1 EXCEPT !.upRx = Tail(@), !.nocH2D = Enqueue(@, Head(s.upRx).f)]
    ELSE s1

\* Mutant: previous_destination is never updated.
H2DRouteStalePrev(s) ==
    LET s1 == Checked(s, s.nocH2D) IN
    IF Eligible(s.nocH2D)
    THEN LET f == Head(s.nocH2D).f
             dest == IF f[1].t = "data" THEN s.prev ELSE DestinationDevice(FirstAddress(f))
         IN [s1 EXCEPT !.nocH2D = Tail(@), !.dsTx[dest] = Enqueue(@, f)]
    ELSE s1

(* ARB_NOC_h2d to a downstream port: a flit whose slot 0 is data goes    *)
(* where the previous flit went, any other to its first address's device. *)
H2DRoute(s) ==
    LET s1 == Checked(s, s.nocH2D) IN
    IF Eligible(s.nocH2D)
    THEN LET f == Head(s.nocH2D).f
             dest == IF f[1].t = "data" THEN s.prev ELSE DestinationDevice(FirstAddress(f))
         IN [s1 EXCEPT !.prev = dest, !.nocH2D = Tail(@),
                       !.dsTx[dest] = Enqueue(@, f)]
    ELSE s1

(* Each downstream_buffers_tx[d] whose head is due goes onto its bus if   *)
(* check_transmission allows it (busDn[d]).                               *)
H2DTransmit(s, busDn) ==
    [s EXCEPT !.flag = @ /\ \A d \in Devs : s.dsTx[d] = <<>>,
              !.dsTx = [d \in Devs |-> IF Eligible(@[d]) /\ busDn[d] THEN Tail(@[d]) ELSE @[d]]]
Transmitted(s, busDn, out) ==
    [d \in Devs |-> IF Eligible(s.dsTx[d]) /\ busDn[d]
                    THEN AddToBus(out[d], Head(s.dsTx[d]).f) ELSE out[d]]

\* Mutant: update_port without the rollover guard.
UpdatePortAlways(s) ==
    [s EXCEPT !.port = IF @ < NumDevices - 1 THEN @ + 1 ELSE 0]

(* update_port: advance the round robin only when no rollover is owed.    *)
UpdatePort(s) ==
    IF s.roll = 0 THEN [s EXCEPT !.port = IF @ < NumDevices - 1 THEN @ + 1 ELSE 0]
    ELSE s

\* Mutant: a DRS header counted as owing 3 data slots.
UpdateRolloverShort(s, f) ==
    [s EXCEPT !.roll = @ + 3 * Len(SelectSeq(f, LAMBDA x : x.t = "drs"))
                         - Len(SelectSeq(f, LAMBDA x : x.t = "data"))]

\* Mutant: data slots in the DRS header's own flit are not counted.
UpdateRolloverLaterFlits(s, f) ==
    LET hdrs == Len(SelectSeq(f, LAMBDA x : x.t = "drs")) IN
    [s EXCEPT !.roll = @ + 4 * hdrs
                         - (IF hdrs > 0 THEN 0 ELSE Len(SelectSeq(f, LAMBDA x : x.t = "data")))]

(* update_rollover: +4 for each DRS header, -1 for each data slot. As a  *)
(* uint64_t, expected_rollover ends the flit at the sum modulo 2^64 in any *)
(* slot order; a negative value here is a wrap to near 2^64.               *)
UpdateRollover(s, f) ==
    [s EXCEPT !.roll = @ + 4 * Len(SelectSeq(f, LAMBDA x : x.t = "drs"))
                         - Len(SelectSeq(f, LAMBDA x : x.t = "data"))]

(* The loop over num_devices ports: from curr_port, take the first due    *)
(* flit into ARB_NOC_d2h, update the rollover count and the port, and     *)
(* stop; an empty port only advances the port (if no rollover is owed).  *)
RECURSIVE PollPorts(_, _)
PollPorts(s, i) ==
    IF i = NumDevices THEN s
    ELSE LET b == s.dsRx[s.port]
             s1 == Checked(s, b)
         IN IF Eligible(b)
            THEN UpdatePort(UpdateRollover(
                     [s1 EXCEPT !.dsRx[s.port] = Tail(b),
                                !.nocD2H = Enqueue(@, Head(b).f)], Head(b).f))
            ELSE PollPorts(UpdatePort(s1), i + 1)

(* ARB_NOC_d2h to upstream_buffer_tx.                                     *)
D2HNoc(s) ==
    LET s1 == Checked(s, s.nocD2H) IN
    IF Eligible(s.nocD2H)
    THEN [s1 EXCEPT !.nocD2H = Tail(@), !.upTx = Enqueue(@, Head(s.nocD2H).f)]
    ELSE s1

(* upstream_buffer_tx onto bus_to_host if check_transmission allows it.   *)
D2HTransmit(s, busUp) ==
    LET s1 == Checked(s, s.upTx) IN
    IF Eligible(s.upTx) /\ busUp THEN [s1 EXCEPT !.upTx = Tail(@)] ELSE s1

-----------------------------------------------------------------------------
Init ==
    /\ SwitchInit
    /\ hostNext = 1
    /\ devNext = [d \in Devs |-> 1]
    /\ toHost = <<>>
    /\ toDev = [d \in Devs |-> <<>>]
    /\ updated = FALSE
    /\ sent = {}

(* The bus from the host delivers the host's next flit to                *)
(* upstream_buffer_rx (send_to_node), at most one per tick, before the    *)
(* switch updates.                                                        *)
HostDeliver ==
    /\ ~updated
    /\ HostBus \notin sent
    /\ hostNext <= Len(HostStream)
    /\ sw' = [sw EXCEPT !.upRx = Enqueue(@, HostStream[hostNext])]
    /\ hostNext' = hostNext + 1
    /\ sent' = sent \cup {HostBus}
    /\ UNCHANGED <<devNext, toHost, toDev, updated>>

(* The bus from device d delivers d's next flit to downstream_buffers_rx[d]. *)
DevDeliver(d) ==
    /\ ~updated
    /\ d \notin sent
    /\ devNext[d] <= Len(DevStream[d])
    /\ sw' = [sw EXCEPT !.dsRx[d] = Enqueue(@, DevStream[d][devNext[d]])]
    /\ devNext' = [devNext EXCEPT ![d] = @ + 1]
    /\ sent' = sent \cup {d}
    /\ UNCHANGED <<hostNext, toHost, toDev, updated>>

(* CXLSwitch::update, the whole method. busUp and busDn are the results  *)
(* of check_transmission for bus_to_host and each device's bus.           *)
SwitchUpdate(busUp, busDn) ==
    /\ ~updated
    /\ updated' = TRUE
    /\ IF SKIP_CYCLE /\ sw.skip /\ AllRxBufEmpty(sw)
       THEN UNCHANGED <<sw, toHost, toDev>>
       ELSE LET s0 == [sw EXCEPT !.flag = TRUE]
                s2 == H2DRoute(H2DPort(s0))
                s3 == H2DTransmit(s2, busDn)
                s5 == D2HNoc(PollPorts(s3, 0))
                s6 == D2HTransmit(s5, busUp)
            IN /\ sw' = [s6 EXCEPT !.skip = IF SKIP_CYCLE THEN s6.flag ELSE @]
               /\ toDev' = Transmitted(s2, busDn, toDev)
               /\ toHost' = IF Eligible(s5.upTx) /\ busUp
                             THEN AddToBus(toHost, Head(s5.upTx).f) ELSE toHost
    /\ UNCHANGED <<hostNext, devNext, sent>>

(* The tick ends: every flit has now waited a tick.                       *)
Unfresh(b) == [j \in 1..Len(b) |-> [b[j] EXCEPT !.fresh = FALSE]]
Tick ==
    /\ updated
    /\ updated' = FALSE
    /\ sent' = {}
    /\ sw' = [sw EXCEPT !.upRx = Unfresh(@), !.nocH2D = Unfresh(@),
                        !.dsTx = [d \in Devs |-> Unfresh(@[d])],
                        !.dsRx = [d \in Devs |-> Unfresh(@[d])],
                        !.nocD2H = Unfresh(@), !.upTx = Unfresh(@)]
    /\ UNCHANGED <<hostNext, devNext, toHost, toDev>>

Next ==
    \/ HostDeliver
    \/ \E d \in Devs : DevDeliver(d)
    \/ \E busUp \in BOOLEAN, busDn \in [Devs -> BOOLEAN] : SwitchUpdate(busUp, busDn)
    \/ Tick

Spec == Init /\ [][Next]_vars

(* The environment's fairness, written without ENABLED: each bus that     *)
(* still has a flit to deliver eventually delivers it, and infinitely     *)
(* often the switch updates with every bus ready (check_transmission only *)
(* waits for a bounded spacing and for room on the bus). The main loop    *)
(* keeps ticking.                                                          *)
Fairness ==
    /\ []<><<Tick>>_vars
    /\ []<><<SwitchUpdate(TRUE, [d \in Devs |-> TRUE])>>_vars
    /\ []<><<HostDeliver>>_vars \/ <>[](hostNext > Len(HostStream))
    /\ \A d \in Devs : []<><<DevDeliver(d)>>_vars \/ <>[](devNext[d] > Len(DevStream[d]))

LiveSpec == Spec /\ Fairness

-----------------------------------------------------------------------------
(* Properties                                                              *)

Slot == [t : {"empty", "req", "rwd", "ndr", "drs", "data"}, dev : Devs]
Flit == [1..4 -> Slot]
Buf == Seq([f : Flit, fresh : BOOLEAN])
\* The largest rollover count a device can owe: a DRS in each of 4 slots.
MaxRoll == 16

TypeOK ==
    /\ sw.upRx \in Buf /\ sw.nocH2D \in Buf /\ sw.nocD2H \in Buf /\ sw.upTx \in Buf
    /\ sw.dsTx \in [Devs -> Buf] /\ sw.dsRx \in [Devs -> Buf]
    /\ sw.prev \in Devs /\ sw.port \in Devs
    /\ sw.roll \in 0..MaxRoll
    /\ sw.skip \in BOOLEAN /\ sw.flag \in BOOLEAN
    /\ hostNext \in 1..(Len(HostStream) + 1)
    /\ devNext \in [Devs -> Nat]
    /\ toHost \in Seq(Flit) /\ toDev \in [Devs -> Seq(Flit)]
    /\ updated \in BOOLEAN /\ sent \subseteq Devs \cup {HostBus}

\* The slots of a sequence of flits, in wire order.
Slots(fs) == FlattenSeq(fs)

(* What the host's FLIT_unpacker asserts of each flit, given the data   *)
(* `r` still owed to the last DRS header (unpacker_rollover): all slots  *)
(* of one device; slots 1..r data, or all four when r = 4; at most 2 NDR,*)
(* 4 data and 1 DRS.  Slot k of the code is index k + 1 here.             *)
Count(f, t) == Len(SelectSeq(f, LAMBDA x : x.t = t))
OneDevice(f) ==
    \A i, j \in 1..4 : f[i].t # "empty" /\ f[j].t # "empty" => f[i].dev = f[j].dev
RolloverRuleOk(f, r) ==
    IF r = 4 THEN \A i \in 1..4 : f[i].t = "data"
    ELSE \A i \in 2..(r + 1) : f[i].t = "data"
PackingRuleOk(f) == Count(f, "ndr") <= 2 /\ Count(f, "data") <= 4 /\ Count(f, "drs") <= 1

(* The rollover loop takes the first r data slots of the flit for the    *)
(* last DRS header; they must be that header's device's data.             *)
RolloverSlots(f, r) ==
    LET ds == SelectSeq(<<1, 2, 3, 4>>, LAMBDA i : f[i].t = "data")
    IN {ds[k] : k \in 1..(IF r < Len(ds) THEN r ELSE Len(ds))}

(* The slot loop over the other slots: a DRS header needs nothing owed    *)
(* and owes 4; a data slot needs something owed.  `u` is the unpacker's  *)
(* [ok, r, owner].                                                         *)
RECURSIVE DispatchSlots(_, _, _, _)
DispatchSlots(f, skip, i, u) ==
    IF i > 4 THEN u
    ELSE LET x == f[i]
             u1 == CASE i \in skip     -> u
                     [] x.t = "drs"    -> [ok |-> u.ok /\ u.r = 0, r |-> 4, owner |-> x.dev]
                     [] x.t = "data"   -> [u EXCEPT !.ok = @ /\ u.r > 0, !.r = IF @ > 0 THEN @ - 1 ELSE 0]
                     [] OTHER          -> u
         IN DispatchSlots(f, skip, i + 1, u1)

UnpackFlit(u, f) ==
    LET skip == RolloverSlots(f, u.r)
        u1 == [u EXCEPT !.ok = @ /\ OneDevice(f) /\ RolloverRuleOk(f, u.r) /\ PackingRuleOk(f)
                                 /\ \A i \in skip : f[i].dev = u.owner,
                        !.r = @ - Cardinality(skip)]
    IN DispatchSlots(f, skip, 1, u1)

RECURSIVE UnpackStream(_, _)
UnpackStream(fs, u) == IF fs = <<>> THEN u ELSE UnpackStream(Tail(fs), UnpackFlit(u, Head(fs)))

(* The switch merges the devices' flit streams into the one stream to the *)
(* host, which FLIT_unpacker reads as if it came from one packer: every  *)
(* flit it is sent passes its assertions, and the rollover data it gives *)
(* a DRS header is that header's device's.  update_port's rollover guard *)
(* keeps the round robin on a port until the data its DRS headers owe has *)
(* passed, across flits, stalls and the other ports' traffic.             *)
HostUnpacksUpstream ==
    LET u == UnpackStream(toHost, [ok |-> TRUE, r |-> 0, owner |-> 0]) IN u.ok

\* No flit is left in any of the switch's buffers.
Drained(s) ==
    /\ s.upRx = <<>> /\ s.nocH2D = <<>> /\ s.nocD2H = <<>> /\ s.upTx = <<>>
    /\ \A d \in Devs : s.dsTx[d] = <<>> /\ s.dsRx[d] = <<>>

(* When the SKIP_CYCLE build skips CXLSwitch::update (skip_cycle set and  *)
(* all_rx_buf_empty), no flit is anywhere in the switch, so the update    *)
(* would have had nothing to do. skip_cycle was computed by the previous  *)
(* update, whose round robin may not have looked at every port.           *)
SwitchSkipSound ==
    (SKIP_CYCLE /\ sw.skip /\ AllRxBufEmpty(sw)) => Drained(sw)

(* Every flit each device sends reaches the host, and every flit the host *)
(* sends reaches a device: no port is starved and the rollover guard never *)
(* waits forever.                                                          *)
AllDelivered ==
    <>[](/\ hostNext > Len(HostStream) /\ \A d \in Devs : devNext[d] > Len(DevStream[d])
         /\ Drained(sw))

(* Every request, write and data slot the host sends reaches the device   *)
(* whose address interval holds its address: a flit whose data continues  *)
(* a write from the previous flit follows it (previous_destination).      *)
RequestsReachOwner ==
    \A d \in Devs : \A j \in 1..Len(Slots(toDev[d])) :
        Slots(toDev[d])[j].t \in {"req", "rwd", "data"} => Slots(toDev[d])[j].dev = d
====
