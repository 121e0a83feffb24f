------------------------------ MODULE IsolateMT ------------------------------
(***************************************************************************)
(* hyrise/myscripts/isolate_mt.cpp: turns the Pin traces of a Hyrise run  *)
(* into cxlsim traces whose addresses carry the table and column of the  *)
(* segment they fall in.  main parses the ranges file into address blocks *)
(* and their segment encodings (parse_addr_blocks), then starts one thread *)
(* per trace file (process_file) and joins them.  Each thread reads its    *)
(* file line by line, looks the address up among the blocks (get_blk_idx),*)
(* picks the smallest enclosing block, tags the address with that block's *)
(* segment and writes the line to its own output file.  The threads share *)
(* the blocks (read only) and the global temp_counter, which they         *)
(* increment without synchronisation.                                       *)
(*                                                                         *)
(* An address is a natural below 2^48 (a user-space address of the traced *)
(* process); the tag only sets bits 48..63, so an output address is the   *)
(* record [lo |-> bits 0..47, hi |-> bits 48..63].                          *)
(***************************************************************************)
EXTENDS Naturals, Sequences, FiniteSets, Bitwise, SequencesExt

CONSTANTS RangeLines,   \* the ranges file: S lines and block lines
          SrcFiles      \* SrcFiles[i]: the lines of the i-th roitrace file

VARIABLES pc,            \* per thread: "line", "inc" (inside temp_counter++), "done"
          pos,           \* per thread: the next line of its file
          tmp,           \* per thread: the value temp_counter++ loaded
          out,           \* per thread: the lines written to iso_part_<i>
          temp_counter,
          joined         \* main has joined every thread

vars == <<pc, pos, tmp, out, temp_counter, joined>>

Threads == DOMAIN SrcFiles

(***************************************************************************)
(* parse_addr_blocks: an S line (table, chunk, column) becomes the current *)
(* segment encoding, stored into uint8_t table and column ids; every other *)
(* line is a block [start, end] of the current segment.  get_seg_details  *)
(* undoes the encoding (a chunk id fits its 48 bits).  A ranges file      *)
(* starts with an S line, so the initial `cur' is never used.              *)
(***************************************************************************)
Encode(l) == [table |-> l.table % 256, col |-> l.col % 256]

ParseAddrBlocks(lines) ==
    LET step(acc, l) ==
            IF l.kind = "S" THEN [acc EXCEPT !.cur = Encode(l)]
            ELSE [acc EXCEPT !.blks = Append(@, [first |-> l.start, second |-> l.end]),
                             !.seg = Append(@, acc.cur)]
    IN  FoldLeft(step, [cur |-> [table |-> 0, col |-> 0], blks |-> << >>, seg |-> << >>], lines)

Parsed == ParseAddrBlocks(RangeLines)
addr_blocks == Parsed.blks
mapping_index == Parsed.seg

(***************************************************************************)
(* The lookup of one address.                                               *)
(***************************************************************************)
\* get_blk_idx: the indices of the blocks that contain addr, in order (the
\* min and max bounds are not passed by process_file).
GetBlkIdx(addr) ==
    SelectSeq([i \in DOMAIN addr_blocks |-> i],
              LAMBDA i : addr_blocks[i].first <= addr /\ addr <= addr_blocks[i].second)

BlkSize(i) == addr_blocks[i].second - addr_blocks[i].first

\* The loop of process_file over blk_idx: the first block of smallest size.
SmallestBlk(bi) ==
    FoldLeft(LAMBDA sel, i : IF BlkSize(i) < BlkSize(sel) THEN i ELSE sel, bi[1], bi)

\* selected_idx.  With no enclosing block it is never assigned, yet the
\* test blk_idx.size() >= 0 always holds and the value is used: reading an
\* uninitialised variable, which in the compiled code yields whatever
\* index the variable last held.
SelectedIdx(addr) ==
    LET bi == GetBlkIdx(addr) IN
    IF Len(bi) >= 1 THEN {SmallestBlk(bi)} ELSE DOMAIN addr_blocks

\* addr | 0xa00000000000000 | table_id << 52 | column_id << 48.
Tag(addr, s) == [lo |-> addr, hi |-> 2560 | (s.table * 16) | s.col]

Untagged(addr) == [lo |-> addr, hi |-> 0]

(***************************************************************************)
(* The threads.                                                             *)
(***************************************************************************)
Init ==
    /\ pc = [t \in Threads |-> "line"]
    /\ pos = [t \in Threads |-> 1]
    /\ tmp = [t \in Threads |-> 0]
    /\ out = [t \in Threads |-> << >>]
    /\ temp_counter = 0
    /\ joined = FALSE

\* One iteration of process_file's loop up to temp_counter++: a Segment
\* line is skipped; otherwise the line is looked up and, unless its
\* segment is table 5, column 3, tagged and written.  For that segment the
\* increment starts by loading temp_counter.
ProcessLine(t) ==
    /\ pc[t] = "line"
    /\ pos[t] <= Len(SrcFiles[t])
    /\ LET l == SrcFiles[t][pos[t]] IN
       IF l.kind = "Segment"
       THEN /\ pos' = [pos EXCEPT ![t] = @ + 1]
            /\ UNCHANGED <<pc, tmp, out>>
       ELSE \E sel \in SelectedIdx(l.addr) :
              LET s == mapping_index[sel] IN
              IF s.table = 5 /\ s.col = 3
              THEN /\ pc' = [pc EXCEPT ![t] = "inc"]
                   /\ tmp' = [tmp EXCEPT ![t] = temp_counter]
                   /\ out' = [out EXCEPT ![t] = Append(@, Tag(l.addr, s))]
                   /\ UNCHANGED pos
              ELSE /\ out' = [out EXCEPT ![t] = Append(@, Tag(l.addr, s))]
                   /\ pos' = [pos EXCEPT ![t] = @ + 1]
                   /\ UNCHANGED <<pc, tmp>>
    /\ UNCHANGED <<temp_counter, joined>>

\* The store of temp_counter++, then on to the next line.  (The output
\* line, which does not depend on the counter, is already appended.)
IncStore(t) ==
    /\ pc[t] = "inc"
    /\ temp_counter' = tmp[t] + 1
    /\ pc' = [pc EXCEPT ![t] = "line"]
    /\ pos' = [pos EXCEPT ![t] = @ + 1]
    /\ UNCHANGED <<tmp, out, joined>>

\* getline fails at the end of the file and process_file returns.
ThreadEnd(t) ==
    /\ pc[t] = "line"
    /\ pos[t] > Len(SrcFiles[t])
    /\ pc' = [pc EXCEPT ![t] = "done"]
    /\ UNCHANGED <<pos, tmp, out, temp_counter, joined>>

\* main joins every thread and prints temp_counter.
Join ==
    /\ ~joined
    /\ \A t \in Threads : pc[t] = "done"
    /\ joined' = TRUE
    /\ UNCHANGED <<pc, pos, tmp, out, temp_counter>>

Next ==
    \/ \E t \in Threads : ProcessLine(t) \/ IncStore(t) \/ ThreadEnd(t)
    \/ Join

Spec == Init /\ [][Next]_vars

(***************************************************************************)
(* Properties.                                                              *)
(***************************************************************************)
\* The addresses of a trace file's access lines, in the order they are
\* written out.
AccessAddrs(f) == [k \in 1..Len(SelectSeq(f, LAMBDA l : l.kind # "Segment")) |->
                       SelectSeq(f, LAMBDA l : l.kind # "Segment")[k].addr]

\* An address that lies in no block of the ranges file is written out as
\* it was read.  process_file assigns selected_idx only for one or more
\* enclosing blocks, and isolate_hash.cpp, the other version of this tool,
\* leaves such an address untagged; a stack or heap access outside every
\* segment must not be attributed to a table.
UnmatchedAddressesUnchanged ==
    \A t \in Threads : \A k \in DOMAIN out[t] :
        LET a == AccessAddrs(SrcFiles[t])[k] IN
        GetBlkIdx(a) = << >> => out[t][k] = Untagged(a)

=============================================================================
