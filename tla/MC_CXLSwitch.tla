---------------------------- MODULE MC_CXLSwitch ----------------------------
(* Two devices, with flits as the packers lay them out: each flit holds  *)
(* one device's messages; data owed by a header of an earlier flit fills *)
(* slots 1..r of the next flit (slot 0 takes a new header) or, when 4 are *)
(* owed, all of an all-data flit (CXLDevice.cpp 805-855, CXLHost.cpp      *)
(* 1140-1193).                                                             *)
(* Host: two reads for device 0; a read and a write in slot 3 for device *)
(* 1, whose four data slots follow as an all-data flit.                   *)
(* Device 0: a DRS in slot 0 with one data slot rolling over behind an    *)
(* NDR.  Device 1: an NDR and a DRS in slot 1 with two data slots rolling *)
(* over behind a second DRS, whose three data slots roll over in turn.    *)
EXTENDS CXLSwitch

S(t, d) == [t |-> t, dev |-> d]
E == [t |-> "empty", dev |-> 0]

MCHostStream ==
    << <<S("req", 0), S("req", 0), E, E>>,
       <<S("req", 1), E, E, S("rwd", 1)>>,
       <<S("data", 1), S("data", 1), S("data", 1), S("data", 1)>> >>

MCDevStream ==
    [d \in {0, 1} |->
        IF d = 0
        THEN << <<S("drs", 0), S("data", 0), S("data", 0), S("data", 0)>>,
                <<S("ndr", 0), S("data", 0), E, E>> >>
        ELSE << <<S("ndr", 1), S("drs", 1), S("data", 1), S("data", 1)>>,
                <<S("drs", 1), S("data", 1), S("data", 1), S("data", 1)>>,
                <<E, S("data", 1), S("data", 1), S("data", 1)>> >>]
====
