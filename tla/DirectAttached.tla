--------------------------- MODULE DirectAttached ---------------------------
(***************************************************************************)
(* The direct-attached memory (ramulator/src/DirectAttached.cpp): the      *)
(* host's local DRAM.  The host puts the requests whose address lies in   *)
(* DAM_addr into its inp_buf (CXLHost::text_to_trace); CXLSystem::update  *)
(* calls DirectAttached::update every delay_ramulator_update ticks, after *)
(* the hosts; a completed request calls direct_attached_req_complete,     *)
(* which retires it at the host.                                           *)
(*                                                                         *)
(* The memory is the record `dam' with the fields of CXLInterface.  The   *)
(* controller, as for the device's DRAM, accepts a request while it has   *)
(* room and completes the requests it holds in any order.                  *)
(***************************************************************************)
EXTENDS Naturals, Sequences, FiniteSets, CXLInterface

\* DirectAttached::DirectAttached with ramulator_init and
\* initialize_state: no stall, an empty inp_buf and an idle controller.
DamInit == [inp |-> << >>, cur |-> NoMsg, mem |-> {}]

\* Mutant of DirectAttachedReqComplete: reqs_in_dam keeps the entry.
DirectAttachedReqCompleteKeeps(h, id) == [h EXCEPT !.completed = @ + 1]

\* direct_attached_req_complete: num_reqs_completed (and num_dam_reqs) go
\* up and the request is erased from the host's reqs_in_dam; the average
\* latency per table is statistics only.
DirectAttachedReqComplete(h, id) ==
    [h EXCEPT !.completed = @ + 1, !.dam = @ \ {id}]

\* DirectAttached::update: the front end fetches and sends (DramSend),
\* then memory->tick() may complete a request the controller held (`done',
\* NoMsg for none).  The result is the memory and the host after the
\* callback.
DirectAttachedUpdate(dm, h, sendOk, done) ==
    LET dm1 == DramSend(dm, sendOk) IN
    IF done = NoMsg THEN [dam |-> dm1, host |-> h]
    ELSE [dam |-> [dm1 EXCEPT !.mem = @ \ {done}],
          host |-> DirectAttachedReqComplete(h, done)]

=============================================================================
