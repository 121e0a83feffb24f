---------------------------- MODULE CXLInterface ----------------------------
(***************************************************************************)
(* The interface between a requester and a Ramulator memory               *)
(* (ramulator/src/CXLInterface.cpp) and the front end that RamDevice and   *)
(* DirectAttached share in their update(): CXL_if_buf, the queue of        *)
(* requests waiting for the memory, and the fetch-then-send step that     *)
(* takes its head and offers it to the controller.                         *)
(*                                                                         *)
(* Both memories are records with the fields                               *)
(*   inp   inp_buf, as request ids                                         *)
(*   cur   the request update() fetched and memory->send refused: the     *)
(*         members addr, type, req_id while state.stall is set; NoMsg     *)
(*         when the memory is not stalled                                   *)
(*   mem   the requests the controller holds and has not completed         *)
(* The requester never enqueues an END request, so state.status is never  *)
(* END and update() always runs its body; status EMPTY and VALID only     *)
(* matter within one call and are not kept.                                *)
(***************************************************************************)
EXTENDS Naturals, Sequences, FiniteSets, CXLFlit

CONSTANTS RamInpSize,   \* CXL_if_buf size_ (32)
          MemSize       \* requests the controller's queues hold at once

\* CXL_if_buf: isEmpty, isFull (size_ is RamInpSize), buf_add, and the
\* VALID branch of get_dramtrace_request, which pops the head.
IfBufIsEmpty(r) == r.inp = << >>
IfBufIsFull(r) == Len(r.inp) >= RamInpSize
IfBufAdd(r, id) == [r EXCEPT !.inp = Append(@, id)]
GetDramtraceRequest(r) == [r EXCEPT !.inp = Tail(@)]

\* Mutant of DramSend: a refused request is not kept for the retry.
DramSendForgets(r, sendOk) ==
    LET req == IF r.cur # NoMsg THEN r.cur
               ELSE IF IfBufIsEmpty(r) THEN NoMsg ELSE Head(r.inp)
        r1  == IF r.cur = NoMsg /\ ~IfBufIsEmpty(r) THEN GetDramtraceRequest(r) ELSE r
    IN  IF req = NoMsg THEN r1
        ELSE IF sendOk THEN [r1 EXCEPT !.cur = NoMsg, !.mem = @ \cup {req}]
        ELSE [r1 EXCEPT !.cur = NoMsg]

\* The body of update() before memory->tick(): unless stalled, the head of
\* inp_buf is fetched (status EMPTY if there is none); a fetched or stalled
\* request is offered to memory->send, whose result sendOk says whether
\* the controller took it (it refuses when its queue is full, and then
\* update() stalls and offers the same request again next time).
DramSend(r, sendOk) ==
    LET req == IF r.cur # NoMsg THEN r.cur
               ELSE IF IfBufIsEmpty(r) THEN NoMsg ELSE Head(r.inp)
        r1  == IF r.cur = NoMsg /\ ~IfBufIsEmpty(r) THEN GetDramtraceRequest(r) ELSE r
    IN  IF req = NoMsg THEN r1
        ELSE IF sendOk THEN [r1 EXCEPT !.cur = NoMsg, !.mem = @ \cup {req}]
        ELSE [r1 EXCEPT !.cur = req]

\* memory->send can only succeed while the controller has room.
SendPossible(r, sendOk) == sendOk => Cardinality(r.mem) < MemSize

=============================================================================
