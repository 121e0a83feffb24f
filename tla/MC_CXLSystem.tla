--------------------------- MODULE MC_CXLSystem ---------------------------
(***************************************************************************)
(* Model-checking instance of CXLSystem: the constants are given in the   *)
(* .cfg files; this module adds the specification with its fairness.       *)
(***************************************************************************)
EXTENDS CXLSystem

Spec == Init /\ [][Next]_vars

(***************************************************************************)
(* Fairness.  Main.cpp calls cxl.update() in every iteration of its loop  *)
(* and every operation of a tick is a deterministic function of the       *)
(* state, so the loop keeps taking steps until it stops.  Since every step *)
(* of a tick is enabled in its phase, this is weak fairness of Next; it is *)
(* written without ENABLED, which TLC would otherwise evaluate on the     *)
(* whole packer for every state.  The                                      *)
(* only choices are the trace's instruction gaps and the DRAM's timing.   *)
(* A gap is a finite number of ticks, so the head of the trace is issued  *)
(* if its step is offered again and again (strong fairness of HostTrace). *)
(* Ramulator takes the head of its input buffer whenever its controller   *)
(* queue has room and serves every request it holds within a bounded     *)
(* time (strong fairness of the accept and of the completion of each id), *)
(* and so do the device's DRAM and the DAM; both are updated in every     *)
(* delay_ramulator_update-th tick, so their update steps recur.           *)
(***************************************************************************)
Fairness ==
    /\ ([]<><<Next>>_vars \/ <>[](phase = "done"))
    /\ SF_vars(\E next \in TraceLines : HostTrace(next))
    /\ SF_vars(DeviceDram(TRUE, NoMsg))
    /\ \A id \in MsgIds : SF_vars(\E sendOk \in BOOLEAN : DeviceDram(sendOk, id))
    /\ SF_vars(DamUpdate(TRUE, NoMsg))
    /\ \A id \in MsgIds : SF_vars(\E sendOk \in BOOLEAN : DamUpdate(sendOk, id))

LiveSpec == Spec /\ Fairness

=============================================================================
