---------------------------- MODULE MC_PinTools ----------------------------
(* An application with the ROI markers of test/test_roi.cpp, under the C   *)
(* name and under the mangled C++ name that test_roi.cpp compiles to, and *)
(* one marker of test/cache.c; three instructions: a 4-byte load, an      *)
(* 8-byte read-modify-write (incl on memory), and a predicated 4-byte     *)
(* store (cmov).                                                           *)
EXTENDS PinTools

MCRoutineNames ==
    {<<"__parsec_roi_begin">>, <<"_Z18", "__parsec_roi_end", "PKcPiS1_">>,
     <<"__parsec_readbufcommon_0">>}

MCShape ==
    [i \in {"ld", "rmw", "cmov"} |->
        CASE i = "ld"  -> <<[rd |-> TRUE, wr |-> FALSE, size |-> 4, a |-> "x"]>>
          [] i = "rmw" -> <<[rd |-> TRUE, wr |-> TRUE, size |-> 8, a |-> "y"]>>
          [] OTHER     -> <<[rd |-> FALSE, wr |-> TRUE, size |-> 4, a |-> "x"]>>]
====
