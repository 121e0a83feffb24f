---------------------------- MODULE MC_IsolateMT ----------------------------
(***************************************************************************)
(* isolate_mt with two trace files.  The ranges file has a segment of     *)
(* table 5, column 3 (the one temp_counter counts) with block [2, 6], and *)
(* a segment of table 2, column 17 with the nested block [4, 4].  The     *)
(* traces hit the nested block, the outer block from both threads, and    *)
(* addresses 1 and 7 that lie in no block.                                 *)
(***************************************************************************)
EXTENDS IsolateMT

S(tb, ch, cl) == [kind |-> "S", table |-> tb, chunk |-> ch, col |-> cl]
B(a, b)       == [kind |-> "B", start |-> a, end |-> b]
A(a)          == [kind |-> "A", addr |-> a]
Seg           == [kind |-> "Segment"]

MCRangeLines == << S(5, 0, 3), B(2, 6), S(2, 1, 17), B(4, 4) >>
MCSrcFiles   == << << Seg, A(4), A(3), A(1) >>, << A(5), A(7) >> >>

=============================================================================
