------------------------------ MODULE PinTools ------------------------------
(***************************************************************************)
(* The two Pin tools of src/pin that write a region-of-interest (ROI)      *)
(* memory trace, observing one run of a single-threaded application:       *)
(*                                                                         *)
(*   roitrace  (ManualExamples/roitrace.cpp): every memory access made     *)
(*             while are_we_in_ROI, as "R,addr" / "W,addr";                 *)
(*   dcache    (Memory/dcache_psql.cpp): an L1 cache simulation that logs  *)
(*             every miss of the tracked kinds (-tl loads, -ts stores) and *)
(*             counts hits and misses per instruction in `profile`.        *)
(*                                                                         *)
(* Both insert StartROI / StopROI after (IPOINT_AFTER) every routine whose *)
(* name contains __parsec_roi_begin / __parsec_roi_end, and Before at the  *)
(* entry of every routine. Analysis calls of an instruction run before it  *)
(* (IPOINT_BEFORE), one per operand read and one per operand write, and    *)
(* only if its predicate holds (INS_InsertPredicatedCall).                 *)
(*                                                                         *)
(* A routine name is a sequence of tokens, so that strcmp (equality) and   *)
(* std::string::find (infix) are modelled by what they do. The cache model *)
(* (cache.H, CACHE_ROUND_ROBIN) is not in the repository: whether an      *)
(* access hits is a nondeterministic choice. The application is modelled  *)
(* by its observable steps: calls, returns and memory instructions.        *)
(***************************************************************************)
EXTENDS Naturals, Sequences, SequencesExt

CONSTANTS
    RoutineNames,   \* routine names, each a sequence of tokens
    Instrs,         \* instruction ids (INS_Address, profile.Map)
    Shape,          \* Shape[i]: the memory operands of instruction i
    Predicated,     \* the predicated instructions (cmov, rep)
    Addrs,          \* effective addresses
    MaxDepth,       \* bound on the application's call depth
    MaxSteps        \* bound on the application's steps

VARIABLES
    stack,      \* the application's call stack of routine names
    steps,      \* application steps taken (bounded by MaxSteps)
    running,    \* FALSE once the application has exited (Fini ran)
    tl, ts,     \* KnobTrackLoads, KnobTrackStores (-tl, -ts)
    rIn,        \* roitrace: are_we_in_ROI
    rtrace,     \* roitrace: the records written to roitrace.csv
    dIn,        \* dcache: isROI
    dtrace,     \* dcache: the records written to roitrace_<pid>.csv
    profile,    \* dcache: profile[instId] = [miss |-> n, hit |-> n]
    opened,     \* history: the ROI as the application's returns define it
    hist        \* history: every access the application performed

vars == <<stack, steps, running, tl, ts, rIn, rtrace, dIn, dtrace, profile,
          opened, hist>>

ROI_BEGIN == <<"__parsec_roi_begin">>
ROI_END == <<"__parsec_roi_end">>
\* The nine names dcache's Before compares with strcmp.
DcacheNamed == {<<"__parsec_roi_begin">>, <<"__parsec_roi_end">>,
                <<"__parsec_buf_read_begin">>, <<"__parsec_buf_read_end">>,
                <<"__parsec_readbufcommon_0">>, <<"__parsec_readbufcommon_1">>,
                <<"__parsec_readbufcommon_2">>, <<"__parsec_readbufcommon_3">>,
                <<"__parsec_readbufcommon_4">>}

\* std::string::find(pat) != npos, on token sequences.
Finds(name, pat) ==
    \E i \in 0..(Len(name) - Len(pat)) : SubSeq(name, i + 1, i + Len(pat)) = pat

Record == [k : {"R", "W"}, a : Addrs] \cup [k : {"startROI", "endROI"}]
            \cup [k : {"RTN"}, n : RoutineNames]

-----------------------------------------------------------------------------
(* The accesses an execution of an instruction performs, in order: each   *)
(* operand is read, then written. An incl on memory reads and writes it.   *)
Performed(ops) ==
    FlattenSeq([j \in 1..Len(ops) |->
        [m \in 1..((IF ops[j].rd THEN 1 ELSE 0) + (IF ops[j].wr THEN 1 ELSE 0)) |->
            [k |-> IF ops[j].rd /\ m = 1 THEN "R" ELSE "W",
             a |-> ops[j].a, size |-> ops[j].size]]])

(* dcache Instruction's loop over the memory operands: an analysis call    *)
(* for the read, then one for the write, so an operand both read and      *)
(* written is processed twice.                                             *)
AccessesOf(ops) ==
    FlattenSeq([j \in 1..Len(ops) |->
        (IF ops[j].rd THEN <<[k |-> "R", a |-> ops[j].a, size |-> ops[j].size]>>
                      ELSE <<>>)
        \o (IF ops[j].wr THEN <<[k |-> "W", a |-> ops[j].a, size |-> ops[j].size]>>
                         ELSE <<>>)])

(* roitrace RecordMemRead / RecordMemWrite: the record, if in the ROI.      *)
RecordMem(k, a, in) ==
    IF in THEN <<[k |-> k, a |-> a]>> ELSE <<>>

\* Mutant: an operand both read and written gets only its read record.
RoitraceInstructionElseIf(ops, in) ==
    FlattenSeq([j \in 1..Len(ops) |->
        IF ops[j].rd THEN RecordMem("R", ops[j].a, in)
        ELSE IF ops[j].wr THEN RecordMem("W", ops[j].a, in) ELSE <<>>])

(* roitrace Instruction: per memory operand, RecordMemRead if it is read   *)
(* and RecordMemWrite if it is written.                                    *)
RoitraceInstruction(ops, in) ==
    FlattenSeq([j \in 1..Len(ops) |->
        (IF ops[j].rd THEN RecordMem("R", ops[j].a, in) ELSE <<>>)
        \o (IF ops[j].wr THEN RecordMem("W", ops[j].a, in) ELSE <<>>)])

(* dcache: the counted analysis routines. Each accesses dl1, bumps        *)
(* profile[instId][hit or miss] and, on a miss, logs a record whose kind is *)
(* the letter its fprintf writes.                                           *)
\* Mutant: the miss test inverted.
LoadMultiLogsHits(acc, hit) == IF hit THEN <<[k |-> "R", a |-> acc.a]>> ELSE <<>>
LoadMulti(acc, hit) == IF hit THEN <<>> ELSE <<[k |-> "R", a |-> acc.a]>>
StoreMulti(acc, hit) == IF hit THEN <<>> ELSE <<[k |-> "W", a |-> acc.a]>>
LoadSingle(acc, hit) == IF hit THEN <<>> ELSE <<[k |-> "R", a |-> acc.a]>>
StoreSingle(acc, hit) == IF hit THEN <<>> ELSE <<[k |-> "R", a |-> acc.a]>>

(* The *Fast variants only access dl1, whose state is not modelled.        *)
Fast(acc) == <<>>

(* dcache Instruction: the analysis routine chosen for an access, by the   *)
(* knobs and by size <= 4 ("single").                                       *)
Tracked(acc, tlv, tsv) == IF acc.k = "R" THEN tlv ELSE tsv

DcacheCall(acc, hit, tlv, tsv) ==
    LET single == acc.size <= 4 IN
    CASE ~Tracked(acc, tlv, tsv) -> Fast(acc)
      [] acc.k = "R" /\ single   -> LoadSingle(acc, hit)
      [] acc.k = "R"             -> LoadMulti(acc, hit)
      [] single                  -> StoreSingle(acc, hit)
      [] OTHER                   -> StoreMulti(acc, hit)

(* Before, inserted at the entry of every routine (IPOINT_BEFORE).         *)
RoitraceBefore(n, in) == IF in THEN <<[k |-> "RTN", n |-> n]>> ELSE <<>>
DcacheBefore(n) == IF n \in DcacheNamed THEN <<[k |-> "RTN", n |-> n]>> ELSE <<>>

(* StartROI / StopROI: set the tool's flag and write the marker.           *)
StartROI == [in |-> TRUE, rec |-> <<[k |-> "startROI"]>>]
\* Mutant: a marker the trace format does not have.
StopROIMisnamed == [in |-> FALSE, rec |-> <<[k |-> "stopROI"]>>]
StopROI == [in |-> FALSE, rec |-> <<[k |-> "endROI"]>>]

(* Routine: the call inserted after (IPOINT_AFTER) routine n, given the    *)
(* tool's flag: StartROI if the name contains ROI_BEGIN, else StopROI if it *)
(* contains ROI_END, else none. Both tools instrument routines alike.       *)
Routine(n, in) ==
    CASE Finds(n, ROI_BEGIN) -> StartROI
      [] Finds(n, ROI_END)   -> StopROI
      [] OTHER               -> [in |-> in, rec |-> <<>>]

\* The application's own ROI markers, and whether it is inside one.
IsRoiBegin(n) == Contains(n, "__parsec_roi_begin")
IsRoiEnd(n) == Contains(n, "__parsec_roi_end")
InRoiEnd(stk) == \E j \in 1..Len(stk) : IsRoiEnd(stk[j])

-----------------------------------------------------------------------------
RoitraceMain ==
    /\ rIn = FALSE
    /\ rtrace = <<>>

DcacheMain ==
    /\ tl \in BOOLEAN
    /\ ts \in BOOLEAN
    /\ dIn = FALSE
    /\ dtrace = <<>>
    /\ profile = [i \in Instrs |-> [miss |-> 0, hit |-> 0]]

Init ==
    /\ stack = <<>>
    /\ steps = 0
    /\ running = TRUE
    /\ opened = FALSE
    /\ hist = <<>>
    /\ RoitraceMain
    /\ DcacheMain

(* The application calls routine n: Before runs in both tools.             *)
Call(n) ==
    /\ running
    /\ steps < MaxSteps
    /\ Len(stack) < MaxDepth
    /\ stack' = Append(stack, n)
    /\ steps' = steps + 1
    /\ rtrace' = rtrace \o RoitraceBefore(n, rIn)
    /\ dtrace' = dtrace \o DcacheBefore(n)
    /\ UNCHANGED <<running, tl, ts, rIn, dIn, profile, opened, hist>>

(* The application returns from the routine on top of the stack: the      *)
(* IPOINT_AFTER calls run in both tools.                                   *)
Return ==
    /\ running
    /\ steps < MaxSteps
    /\ stack # <<>>
    /\ LET n == Last(stack)
           r == Routine(n, rIn)
           d == Routine(n, dIn)
       IN /\ rIn' = r.in
          /\ rtrace' = rtrace \o r.rec
          /\ dIn' = d.in
          /\ dtrace' = dtrace \o d.rec
          /\ opened' = IF IsRoiBegin(n) THEN TRUE
                       ELSE IF IsRoiEnd(n) THEN FALSE ELSE opened
    /\ stack' = Front(stack)
    /\ steps' = steps + 1
    /\ UNCHANGED <<running, tl, ts, profile, hist>>

(* The application executes instruction i; `taken` is its predicate (a   *)
(* non-predicated instruction always executes), `hits` whether each of its *)
(* accesses hits dl1.                                                      *)
Exec(i, taken) ==
    /\ running
    /\ steps < MaxSteps
    /\ taken \/ i \notin Predicated
    /\ LET ops == IF taken THEN Shape[i] ELSE <<>>
           done == Performed(ops)
           accs == AccessesOf(ops)
           n == Len(accs)
       IN \E hits \in [1..n -> BOOLEAN] :
          LET tracked(j) == Tracked(accs[j], tl, ts)
              count(h) == Cardinality({j \in 1..n : tracked(j) /\ hits[j] = h})
          IN /\ rtrace' = rtrace \o RoitraceInstruction(ops, rIn)
             /\ dtrace' = dtrace \o
                    FlattenSeq([j \in 1..n |-> DcacheCall(accs[j], hits[j], tl, ts)])
             /\ profile' = [profile EXCEPT ![i] = [miss |-> @.miss + count(FALSE),
                                                   hit |-> @.hit + count(TRUE)]]
             /\ hist' = hist \o [j \in 1..Len(done) |->
                            [k |-> done[j].k, a |-> done[j].a, hit |-> hits[j],
                             tracked |-> IF done[j].k = "R" THEN tl ELSE ts,
                             roi |-> opened,
                             inEnd |-> InRoiEnd(stack)]]
    /\ steps' = steps + 1
    /\ UNCHANGED <<stack, running, tl, ts, rIn, dIn, opened>>

(* The application exits: Fini runs (roitrace closes its trace, dcache     *)
(* writes its statistics file). Nothing is traced afterwards.             *)
Fini ==
    /\ running
    /\ running' = FALSE
    /\ UNCHANGED <<stack, steps, tl, ts, rIn, rtrace, dIn, dtrace, profile,
                   opened, hist>>

Next ==
    \/ \E n \in RoutineNames : Call(n)
    \/ Return
    \/ \E i \in Instrs, taken \in BOOLEAN : Exec(i, taken)
    \/ Fini

Spec == Init /\ [][Next]_vars
-----------------------------------------------------------------------------
(* Properties                                                              *)

\* The access records of a trace, and the [k, a] view of history entries.
AccessRecs(t) == SelectSeq(t, LAMBDA x : x.k \in {"R", "W"})
KA(h) == [j \in 1..Len(h) |-> [k |-> h[j].k, a |-> h[j].a]]
AddrsOf(t) == [j \in 1..Len(t) |-> t[j].a]

TypeOK ==
    /\ stack \in Seq(RoutineNames) /\ Len(stack) <= MaxDepth
    /\ steps \in 0..MaxSteps
    /\ {running, tl, ts, rIn, dIn, opened} \subseteq BOOLEAN
    /\ rtrace \in Seq(Record)
    /\ dtrace \in Seq(Record)
    /\ profile \in [Instrs -> [miss : Nat, hit : Nat]]
    /\ hist \in Seq([k : {"R", "W"}, a : Addrs, hit : BOOLEAN, tracked : BOOLEAN,
                     roi : BOOLEAN, inEnd : BOOLEAN])

(* roitrace records exactly the accesses the application performs after   *)
(* a __parsec_roi_begin has returned and before the next __parsec_roi_end *)
(* has returned, in program order, reads before writes of one operand,    *)
(* and none of a predicated instruction that does not execute. It is      *)
(* about StartROI/StopROI at IPOINT_AFTER and RecordMemRead/Write.         *)
RoiTraceExact ==
    AccessRecs(rtrace) = KA(SelectSeq(hist, LAMBDA x : x.roi))

(* dcache's trace lists the address of every miss of a tracked access     *)
(* (loads under -tl, stores under -ts), in order, and nothing else; its   *)
(* miss and hit counters add up to the misses logged and the tracked      *)
(* accesses. It is about Instruction's dispatch and Load*/Store*.         *)
MissTraceAddrs ==
    LET tr == SelectSeq(hist, LAMBDA x : x.tracked)
    IN /\ AddrsOf(AccessRecs(dtrace)) = AddrsOf(SelectSeq(tr, LAMBDA x : ~x.hit))
       /\ MapThenSumSet(LAMBDA i : profile[i].miss, Instrs) = Len(AccessRecs(dtrace))
       /\ MapThenSumSet(LAMBDA i : profile[i].miss + profile[i].hit, Instrs) = Len(tr)

(* roitrace stops tracing before __parsec_roi_end executes, as the        *)
(* comment at the StopROI insertion says: no access made inside that      *)
(* routine's body is recorded.                                             *)
RoiEndBodyNotTraced ==
    AccessRecs(rtrace) = KA(SelectSeq(hist, LAMBDA x : x.roi /\ ~x.inEnd))
====
