----------------------------- MODULE MemService -----------------------------
(***************************************************************************)
(* What the simulated memory system promises its trace: the abstract       *)
(* service that CXLSystem implements.  Requests are issued one at a time   *)
(* with consecutive ids, each with the kind of memory it goes to and the   *)
(* opcode it has there; an issued request stays pending, with that kind,   *)
(* until it completes, in any order, exactly once; the count of completed  *)
(* requests goes up by one with each completion and at no other time.      *)
(* Nothing is said about links, credits, flits or timing.                  *)
(***************************************************************************)
EXTENDS Naturals

CONSTANTS Ids,     \* the ids a run can give its requests: 1..n
          Kinds    \* what a pending request is known by

VARIABLES next,       \* the id of the next request to issue
          pending,    \* the issued requests not yet completed, [id, op] records
          completed   \* how many requests have completed

vars == <<next, pending, completed>>

Init ==
    /\ next = 1
    /\ pending = {}
    /\ completed = 0

\* A new request, with the next id, becomes pending.
Issue(op) ==
    /\ next \in Ids
    /\ pending' = pending \cup {[id |-> next, op |-> op]}
    /\ next' = next + 1
    /\ UNCHANGED completed

\* A pending request completes and is counted.
Complete(r) ==
    /\ r \in pending
    /\ pending' = pending \ {r}
    /\ completed' = completed + 1
    /\ UNCHANGED next

Next == (\E op \in Kinds : Issue(op)) \/ (\E r \in pending : Complete(r))

Spec == Init /\ [][Next]_vars

=============================================================================
