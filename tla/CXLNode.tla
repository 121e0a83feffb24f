------------------------------ MODULE CXLNode ------------------------------
(***************************************************************************)
(* What host and device share (CXLNode, CXLBuf, CXLBus::add_to_bus): the   *)
(* bounded buffers, transmission of the head of tx_buffer onto the bus,   *)
(* and the skip predicates of transmit and the unpacker, which are the    *)
(* same in CXLHost and CXLDevice.                                          *)
(***************************************************************************)
EXTENDS Naturals, Sequences, CXLFlit

CONSTANT BusSize            \* size of a CXLBus, in flits

\* CXLBuf::enqueue, which asserts that the buffer is not full; q names a
\* queue field of the node record n.
Enqueue(n, q, m, cap) ==
    IF Len(n[q]) >= cap THEN [n EXCEPT !.fault = @ \cup {"full " \o q}]
    ELSE [n EXCEPT ![q] = Append(@, m)]

\* The same for lane `lane' of an array of NUM_VC buffers.
EnqueueLane(n, q, lane, m, cap) ==
    IF Len(n[q][lane]) >= cap THEN [n EXCEPT !.fault = @ \cup {"full " \o q}]
    ELSE [n EXCEPT ![q][lane] = Append(@, m)]

\* Mutant of NextLane: the wrap-around is tested one lane too late.
NextLaneLate(v, numVc) == IF v = numVc THEN 0 ELSE v + 1

\* The round-robin advance of cur_Req_vc, cur_RWD_vc, cur_NDR_vc, cur_DRS_vc.
NextLane(v, numVc) == IF v = numVc - 1 THEN 0 ELSE v + 1

\* transmit (identical in CXLHost and CXLDevice): the head of tx_buffer,
\* once it has waited delay_tx_buf_to_bus, goes onto the bus unless the bus
\* is full.  The bus dequeues at most one flit per tick, which is also the
\* rate at which transmit is called, so cxl_bus_ticks_per_dequeue is one.
Transmit(n, bus) ==
    IF n.tx = << >> \/ Len(bus) = BusSize \/ Head(n.tx).fresh
    THEN [n |-> n, bus |-> bus, active |-> FALSE]
    ELSE [n |-> [n EXCEPT !.tx = Tail(@)],
          bus |-> Append(bus, [Head(n.tx) EXCEPT !.fresh = TRUE]),
          active |-> TRUE]

\* skip_transmit_check
SkipTransmitCheck(n, bus) == n.tx = << >> \/ Len(bus) = BusSize \/ Head(n.tx).fresh

\* skip_unpacker_check
SkipUnpackerCheck(n) == n.rx = << >> \/ Head(n.rx).fresh

=============================================================================
