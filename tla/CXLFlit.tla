------------------------------ MODULE CXLFlit ------------------------------
(***************************************************************************)
(* Messages, slots and 68-byte flits of the CXL.mem link layer             *)
(* (include/message.h, include/flit.h, src/Misc.cpp).                      *)
(*                                                                         *)
(* A message keeps only what the link layer tells apart: its id (msg_id), *)
(* its opcode and whether it entered its current queue in this tick.  The *)
(* `fresh' flag stands for every latency check of the form                *)
(*     curr_tick - <time the item entered the queue> >= delay_...         *)
(* with every such delay abstracted to one tick: an item is eligible from *)
(* the tick after the one in which it was enqueued.  Addresses, timing    *)
(* statistics and logging are left out.                                   *)
(***************************************************************************)
EXTENDS Naturals, Sequences, FiniteSets

CONSTANT MaxMsgs        \* number of lines of the trace, i.e. of messages

MsgIds == 1..MaxMsgs
NoMsg  == 0              \* id carried by an empty slot

Opcodes    == {"Req", "RwD", "NDR", "DRS"}
SlotTypes  == {"m2s_req", "m2s_rwd_hdr", "s2m_ndr", "s2m_drs_hdr", "data", "empty"}
Slots      == 0..3

Messages == [id : MsgIds, op : Opcodes, fresh : BOOLEAN]

\* A credit triple {req_credit, rsp_credit, data_credit} (struct credits).
NoCredits == [req |-> 0, rsp |-> 0, data |-> 0]

\* message(opcode, addr) followed by the enqueue that stamps its time.
Message(id, op) == [id |-> id, op |-> op, fresh |-> TRUE]

\* flit::flit(): four empty slots, no credits.
NewFlit == [slots |-> [i \in Slots |-> [type |-> "empty", id |-> NoMsg]],
            cred  |-> NoCredits,
            fresh |-> TRUE]

SetSlot(f, i, t, id) == [f EXCEPT !.slots[i] = [type |-> t, id |-> id]]

\* flit::slot_count_in_flit
SlotCountInFlit(f, t) == Cardinality({i \in Slots : f.slots[i].type = t})

\* flit::is_flit_empty
IsFlitEmpty(f) == \A i \in Slots : f.slots[i].type = "empty"

\* flit::is_flit_full
IsFlitFull(f) == \A i \in Slots : f.slots[i].type # "empty"

\* flit::are_all_slots_after_this_empty: the loop runs `i < 3', so slot 3
\* is never looked at.
AreAllSlotsAfterThisEmpty(f, pos) ==
    \A i \in (pos + 1)..2 : f.slots[i].type = "empty"

\* The rollover pattern both unpackers require of a flit that arrives while
\* `rollover' data chunks of an earlier header are still owed: slots 1..r
\* are data, and all four slots are data when r = 4.
RolloverPatternOk(f, r) ==
    \A i \in Slots : (i \in 1..r \/ (r = 4 /\ i = 0)) => f.slots[i].type = "data"

\* The per-flit limits of the packing rules (at most two requests or
\* no-data responses, one header with data, four data chunks).
PackingRuleOk(f, small, big) ==
    /\ SlotCountInFlit(f, small) <= 2
    /\ SlotCountInFlit(f, big) <= 1
    /\ SlotCountInFlit(f, "data") <= 4

\* Clearing the freshness of every item of a queue at the end of a tick.
Aged(q) == [k \in DOMAIN q |-> [q[k] EXCEPT !.fresh = FALSE]]

=============================================================================
