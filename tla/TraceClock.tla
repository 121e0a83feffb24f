----------------------------- MODULE TraceClock -----------------------------
(***************************************************************************)
(* The simulated clock of the main loop (src/Main.cpp) and the timing of  *)
(* CXLHost::text_to_trace.  Each trace line carries the instructions the  *)
(* CPU executed before the access; a line moves from text_to_trace_buf to *)
(* the memory system once curr_tick - last_text_to_trace_buf_dequeue has  *)
(* reached that gap times ticks_per_ins.  When the system is idle,        *)
(* text_to_trace jumps curr_tick to the tick at which the head may go.    *)
(*                                                                         *)
(* The memory system behind the host is the abstract MemService that      *)
(* CXLSystem refines (checked by the safety run): a request is issued and *)
(* later completes.  no_active_transaction holds exactly when no request  *)
(* is pending, because every message the host's lanes and response VCs  *)
(* hold belongs to a pending request (MessageConservation).               *)
(***************************************************************************)
EXTENDS Naturals, Sequences

CONSTANTS Traces,        \* the trace files: each the third column of its lines, in order
          MaxLines,      \* the most lines a trace has
          TicksPerIns,   \* params.ticks_per_ins
          BufCap,        \* capacity of text_to_trace_buf
          MinLatency,    \* the fewest ticks from the issue of a request to its completion
          MaxTick        \* the ticks explored (the memory may take any time longer)

VARIABLES gaps,        \* the trace this run reads
          curr_tick,
          last,        \* last_text_to_trace_buf_dequeue
          buf,         \* text_to_trace_buf: the gaps of the buffered lines
          pos,         \* the next line of the trace file
          finished,    \* is_trace_finished
          stage,       \* "mem": the memory may complete requests; "host": text_to_trace is due
          issued_at,   \* the tick each request was issued at
          next, pending, completed   \* the memory service's state

vars == <<gaps, curr_tick, last, buf, pos, finished, stage, issued_at, next, pending, completed>>

Svc == INSTANCE MemService WITH Ids <- 1..MaxLines, Kinds <- {"Req"}

Init ==
    /\ gaps \in Traces
    /\ curr_tick = 0
    /\ last = 0
    /\ buf = << >>
    /\ pos = 1
    /\ finished = FALSE
    /\ stage = "mem"
    /\ issued_at = [i \in 1..MaxLines |-> 0]
    /\ Svc!Init

\* Before the host's turn in a tick, the memory system may complete any
\* request that has been in it for MinLatency ticks.
MemComplete ==
    /\ stage = "mem"
    /\ \E r \in pending : curr_tick >= issued_at[r.id] + MinLatency /\ Svc!Complete(r)
    /\ UNCHANGED <<gaps, curr_tick, last, buf, pos, finished, stage, issued_at>>

MemDone ==
    /\ stage = "mem"
    /\ stage' = "host"
    /\ UNCHANGED <<gaps, curr_tick, last, buf, pos, finished, issued_at, next, pending, completed>>

\* The same with the gap taken in ticks rather than instructions.
IdleJumpTickNoScale == IF pending = {} /\ buf # << >> THEN last + Head(buf)
                       ELSE curr_tick

\* The tick the idle jump moves to: curr_tick += gap * ticks_per_ins -
\* (curr_tick - last_text_to_trace_buf_dequeue).
IdleJumpTick == IF pending = {} /\ buf # << >> THEN last + Head(buf) * TicksPerIns
                ELSE curr_tick

\* The head of text_to_trace_buf goes once its gap has elapsed; the
\* dequeue tick is recorded before the target buffer is checked.  A full
\* DAM input buffer keeps the line and text_to_trace goes on to read; a
\* full M2S lane keeps it and returns at once.  Both are full only while
\* requests are pending.
Outcomes == IF pending = {} THEN {"sent"} ELSE {"sent", "damFull", "laneFull"}

\* The end of text_to_trace: no line is read while the buffer is full; at
\* the end of the file it returns false and update sets is_trace_finished.
ReadLine(b) ==
    IF Len(b) = BufCap THEN buf' = b /\ UNCHANGED <<pos, finished>>
    ELSE IF pos > Len(gaps) THEN buf' = b /\ finished' = TRUE /\ UNCHANGED pos
    ELSE buf' = Append(b, gaps[pos]) /\ pos' = pos + 1 /\ UNCHANGED finished

\* CXLHost::update runs text_to_trace while the trace is not finished or
\* lines are buffered: the idle jump, the issue of the head, the read.
TextToTrace ==
    /\ stage = "host"
    /\ ~finished \/ buf # << >>
    /\ LET t == IdleJumpTick IN
       /\ curr_tick' = t
       /\ IF buf # << >> /\ t - last >= Head(buf) * TicksPerIns
          THEN /\ last' = t
               /\ \E o \in Outcomes :
                  CASE o = "sent"     -> /\ Svc!Issue("Req")
                                          /\ issued_at' = [issued_at EXCEPT ![next] = t]
                                          /\ ReadLine(Tail(buf))
                    [] o = "damFull"  -> UNCHANGED <<issued_at, next, pending, completed>> /\ ReadLine(buf)
                    [] o = "laneFull" -> UNCHANGED <<issued_at, next, pending, completed, buf, pos, finished>>
          ELSE UNCHANGED <<last, issued_at, next, pending, completed>> /\ ReadLine(buf)
    /\ stage' = "tick"
    /\ UNCHANGED gaps

\* With nothing left for text_to_trace, the host's turn changes nothing.
HostIdle ==
    /\ stage = "host"
    /\ finished /\ buf = << >>
    /\ stage' = "tick"
    /\ UNCHANGED <<gaps, curr_tick, last, buf, pos, finished, issued_at, next, pending, completed>>

\* The main loop: curr_tick++ after cxl.update(), and the loop ends once no
\* request is outstanding and num_reqs (the lines of the trace) completed.
Tick ==
    /\ stage = "tick"
    /\ curr_tick < MaxTick
    /\ curr_tick' = curr_tick + 1
    /\ stage' = IF pending = {} /\ completed >= Len(gaps) THEN "done" ELSE "mem"
    /\ UNCHANGED <<gaps, last, buf, pos, finished, issued_at, next, pending, completed>>

Next == MemComplete \/ MemDone \/ TextToTrace \/ HostIdle \/ Tick

Spec == Init /\ [][Next]_vars

\* The idle jump is commented "advance curr tick", and main reports
\* curr_tick as the time the simulation finished.  The jump moves the clock
\* to the tick the head of text_to_trace_buf became due, so it goes back
\* whenever that head is overdue while the system is idle.  Each line is
\* read in the call that issues or is refused its predecessor, and every
\* call that finds the head due stamps last_text_to_trace_buf_dequeue, so
\* the head is never overdue by more than the tick it waited in the buffer:
\* the clock goes back only for a line with gap 0, and by one tick.
RewindOneTick ==
    [][curr_tick' < curr_tick => curr_tick' = curr_tick - 1 /\ Head(buf) = 0]_vars

=============================================================================
