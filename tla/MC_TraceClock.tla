---------------------------- MODULE MC_TraceClock ----------------------------
(* Every trace of one to three lines with gaps of 0, 1 or 2 instructions,  *)
(* the simulator's ticks_per_ins, and a text_to_trace_buf of 2 lines so     *)
(* that a trace fills it.                                                  *)
EXTENDS TraceClock

MCMaxLines == 3
MCTraces == UNION {[1..n -> {0, 1, 2}] : n \in 1..MCMaxLines}
MCTicksPerIns == 10
MCBufCap == 2
\* Enough ticks for every line of a trace to be issued and outlast its
\* successor's gap.
MCMinLatency == 6
MCMaxTick == 60

=============================================================================
