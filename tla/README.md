# TLA+ models of the CXL.mem simulator, the Hyrise console, the Pin ROI tools and the trace isolation tool

This directory holds TLA+ models of four parts of the repository, the TLC
configurations that check them, and `PROJECT.json`. `PROJECT.json` maps
every modelled definition to the source lines it translates. It also lists
the runs, the mutants, the findings and the hazards.

The four parts:

- **`src/cxlsim`**, the cycle-accurate CXL.mem simulator. It has two
  models:
  - the host–device link (`CXLSystem` and the modules under it);
  - the switch with several devices (`CXLSwitch`).
- **`src/hyrise/src/bin/console`**, the Hyrise SQL console
  (`HyriseConsole`).
- **`src/pin`**, the Pin tools that trace the region of interest (ROI) of
  an application, `roitrace` and `dcache_psql` (`PinTools`).
- **`src/hyrise/myscripts/isolate_mt.cpp`**, the multithreaded tool that
  turns Pin traces into cxlsim traces tagged with table and column
  (`IsolateMT`).

The parts share no state; they form a pipeline of separate programs. Pin
observes a run of an application, and Hyrise was meant to mark its ROI for
Pin (see the findings). `isolate_mt` turns the Pin trace into a cxlsim
trace, whose tagged addresses decide between cxlsim's DAM and device.
Each part is therefore its own model.

## The CXL simulator

The simulator is single-threaded. `main` (src/Main.cpp) calls
`CXLSystem::update()` and increments `curr_tick` until every request of the
trace has completed. Each tick, `CXLSystem::update` (src/CXLSys.cpp)
updates these in a fixed order:

1. the buses;
2. the switch;
3. the devices, with each device's DRAM (Ramulator) updated inside that
   device's update every `delay_ramulator_update` ticks;
4. the hosts;
5. the direct-attached memories.

The parts and how they interact:

| Part | Code | Role |
|---|---|---|
| Host | CXLHost.cpp | `text_to_trace` turns trace lines into M2S reads (Req) and writes (RwD) on NUM_VC lanes each. `FLIT_packer` packs them into 4-slot flits. `transmit` puts flits on the bus. `FLIT_unpacker` unpacks S2M responses into `S2M_NDR`/`S2M_DRS`. `check_if_req_completed` retires them. |
| Device | CXLDevice.cpp | `FLIT_unpacker` fills `M2S_Req`/`M2S_RWD`. `send_to_ramulator` submits to the DRAM's `inp_buf`. `ramulator_req_notification` turns completions into DRS/NDR on the S2M lanes. `FLIT_packer` and `transmit` send them back. |
| DRAM | ramulator/src/RamDevice.cpp | Takes the head of `inp_buf` unless stalled, and calls back when a request completes. |
| Direct-attached memory (DAM) | ramulator/src/DirectAttached.cpp | The host's local DRAM. `text_to_trace` puts a line whose address lies in `DAM_addr` into the DAM's `inp_buf` and `reqs_in_dam`. `DirectAttached::update` has the same front end as the DRAM's; its callback `direct_attached_req_complete` counts the completion and erases the request from `reqs_in_dam`. |
| Bus / switch | CXLBus.cpp, CXLSwitch.cpp | Bounded FIFOs with latency between the nodes. |
| Credits | both nodes | The device grants request and data credits for its M2S buffers. The host decrements them when it packs. The device returns them on submission (reads) or when the NDR is packed (writes). The host's own S2M buffers are covered by its internal credits. |
| Cycle skipping | `skip_*_check` | Under `SKIP_CYCLE`, update() does not call an operation whose predicate says it has no work. |

A header with data (RwD, DRS) owes four data slots. Any that do not fit in
its flit roll over into the next flits. Packer and unpacker each keep a
rollover counter, and both assert the slot pattern.

## Modules

| Module | Models | State and actions |
|---|---|---|
| `CXLFlit` | message.h, flit.h, Misc.cpp | Messages (id, opcode, `fresh`), flits, credit triples, and the flit helpers (`SlotCountInFlit`, `IsFlitFull`, `AreAllSlotsAfterThisEmpty`, ...). |
| `CXLNode` | CXLBuf.h, transmit, shared skip checks | `Enqueue` (a full buffer is a fault, like the `CXL_ASSERT` in `CXLBuf::enqueue`), `Transmit`, `NextLane`. |
| `CXLPacker` | `FLIT_packer`, `get_msg_from_vcs`, `check_vcs_for_packing` | Written once. CONSTANTS give each side's message classes, credit conditions and credit updates. `FLIT_packer(n)` is the whole method on a node record: full flush, timeout flush, the all-data flit, the rollover prefix, the slot loop (`FillSlots`, RECURSIVE) and the closing assertions. |
| `CXLUnpacker` | `FLIT_unpacker` | Written once. It covers the rx stall assertion, the rollover-pattern and packing-rule assertions, the rollover loop (`ConsumeRollover`), slot dispatch (`Dispatch`) and the credit update. |
| `CXLInterface` | CXLInterface.cpp, the front end of RamDevice.cpp and DirectAttached.cpp | `CXL_if_buf` (`IfBufIsFull`, `IfBufAdd`, `GetDramtraceRequest`) and `DramSend`: fetch the head of `inp_buf` unless stalled, offer it to the memory, keep a refused request in `cur` and offer it again. |
| `DirectAttached` | DirectAttached.cpp | `DamInit`, `DirectAttachedUpdate` (front end, then a completion) and `DirectAttachedReqComplete`. |
| `CXLHost` | CXLHost.cpp | Record `host`. It holds the host's initial state, its credit conditions, `TextToTrace`, `TextToTraceDam`, `CheckRxVc`, `CheckIfReqCompleted`, its skip predicates, and one action per call in `CXLHost::update`. |
| `CXLDevice` | CXLDevice.cpp, RamDevice.cpp | Record `dev`. It holds the device's initial state, its credits and grants, `SendToRamulator`, `RamulatorReqNotification`, `RamDeviceUpdate`, its skip predicates, and one action per call in `CXLDevice::update`. |
| `CXLSystem` | CXLSys.cpp, Main.cpp, CXLBus.cpp | Composes one host, its DAM (`dam`) and one device with a bus per direction (`busHD`, `busDH`). It defines the properties. |
| `MemService` | none (abstract) | What the memory system promises the trace: `Issue(op)` with the next id and `Complete(r)` of any pending request. `CXLSystem` refines it. |
| `MC_CXLSystem` | none | `Spec`, the fairness, and `LiveSpec`. |
| `TraceClock` | CXLHost.cpp `text_to_trace` timing, `CXLHost::update`, Main.cpp loop | `curr_tick`, `last_text_to_trace_buf_dequeue`, the buffered gaps and the trace position, with the memory system abstracted to `MemService` (see below). |
| `MC_TraceClock` | none | Every trace of 1 to 3 lines with gaps 0 to 2. |
| `CXLSwitch` | CXLSwitch.cpp, CXLSys.cpp wiring, `CXLBus::send_to_node`/`add_to_bus`, `CXLBuf::latency_check_flit` | Record `sw` with the switch's buffers, `previous_destination`, `curr_port`, `expected_rollover`, `skip_cycle`. `SwitchUpdate` is the whole `CXLSwitch::update`; `HostDeliver`/`DevDeliver(d)` are the buses into it; `Tick` ends the tick. |
| `MC_CXLSwitch` | none | Two devices, the host's and the devices' flit streams. |

How steps correspond to the code. `phase` names the operation due next, in
the order of `Order`:

bus → devPack → devUnpack → devRam → devTransmit → devDram → hostTrace →
hostPack → hostTransmit → hostUnpack → hostComplete → dam → tick

- Every step of the model is one whole operation of the code.
- `Next` has one named action per operation, for example `DevicePack`,
  `HostUnpacker`, `DeviceDram` and `DamUpdate`.
- The device's DRAM and the DAM are updated only when
  `curr_tick % delay_ramulator_update == 0`. `DeviceDramIdle` and `DamIdle`
  stand for the other ticks.
- `Tick` ends the tick. It clears the `fresh` flags, ages the packers'
  waiting time and applies the termination test of `main`.
- A fired `CXL_ASSERT` is recorded in the node's `fault` set. `Running`
  then stops all steps, as `abort()` does.
- So in the runs that check deadlock, any assertion the code can fire shows
  up as a deadlock.

Only the non-`SKIP_CYCLE` build's control flow is modelled: every operation
is called every tick. `SkipChecksSound` shows this is the same behaviour as
the `SKIP_CYCLE` build: whenever a predicate says skip, the operation changes
nothing.

## Abstractions

- **Data.** A message is its id (`msg_id`), its opcode and a `fresh` flag.
  Addresses, timestamps, flit ids and logging are left out. The only
  address decode that matters with one device always picks that device.
- **Time.** Every latency check of the form
  `curr_tick - t >= delay_x` is abstracted to one tick. An item enqueued in
  this tick is `fresh` and becomes eligible in the next tick. Each bus
  moves at most one flit per tick with a latency of one tick.
  - The packer's waiting time is counted in ticks and capped just above
    `packer_wait_time`.
  - The trace's instruction gap is a nondeterministic wait: in any tick the
    host may or may not issue the head of the trace (`HostTraceWait`).
  - The idle time jump in `text_to_trace` (`IdleJump` in `CXLHost`) makes
    the gap elapse at once: when `no_active_transaction()` holds and a line
    is buffered, `HostTraceWait` is disabled and the head is issued.
- **DRAM and DAM.** `RamDevice::update` and `DirectAttached::update` share
  their front end (`DramSend` in `CXLInterface`). Unless stalled, it pops
  the head of `inp_buf` and offers it to `memory->send`. A refused request
  is kept in `cur` (the members `addr`, `type`, `req_id` while
  `state.stall` is set) and offered again on the next update. Ramulator's
  `Memory` is not in the repository, so two choices stand for it:
  - `sendOk`: whether `memory->send` accepts. It can only accept while the
    controller holds fewer than `MemSize` requests.
  - `done`: which request it holds, if any, completes in this
    `memory->tick()`, in any order.
- **Idle jump and the DAM.** The idle jump in `text_to_trace` replays the
  skipped DRAM and DAM updates. It is taken only when
  `no_active_transaction()` holds, which tests the host's lanes and VCs
  and both maps of outstanding requests. `MessageConservation` makes that
  test enough: every message anywhere belongs to a request in one of the
  maps, and no packer sends a flit without a message, so with both maps
  empty nothing is in flight and the replay changes nothing the model
  tracks.
- **Switch.** In `CXLSystem`, with one device, the two buses and the switch
  of each direction are merged into one bus: the switch only forwards
  flits. The switch itself is modelled in `CXLSwitch` (below).
- **DRAM input buffer.** `CXL_if_buf` (ramulator/src/CXLInterface.cpp) is
  the sequence `inp`; `IfBufIsFull`, `IfBufAdd` and `GetDramtraceRequest`
  are its `isFull`, `buf_add` and the VALID branch of
  `get_dramtrace_request`.
- **Trace.** The trace is `MaxMsgs` lines. The opcode of each line, and
  whether its address lies in `DAM_addr` (`TraceToDam`), is chosen when the
  line before it is issued. Addresses are otherwise not modelled.

## Properties and runs

Three runs on `MC_CXLSystem`, and `trace_clock` below. Each property's comment in
`CXLSystem.tla` says which code it is about.

| Run | Cfg | Properties | Result |
|---|---|---|---|
| safety | `MC_CXLSystem.cfg` | `TypeOK`, `MessageConservation`, `ServiceRefinement`, `CreditConservation`, `FlitStreamWellFormed`, `SkipChecksSound` | pass, about 459K states, about 1.5 min |
| buffers | `MC_CXLSystem_buf.cfg` | `NoBufferOverflow` | pass, about 1.89M states, about 80 s |
| liveness | `MC_CXLSystem_live.cfg` | `AllRequestsComplete` under `LiveSpec` | pass, about 27K states, about 25 s |

What each property checks:

- **`MessageConservation`.** Every request the host has issued and not
  retired exists exactly once. That copy is either the request itself or
  the response of the matching kind. It can be in a host lane, the packer's
  flit, a tx or rx buffer, a bus, a device queue, the pending rollover
  header, `inp_buf`, the DRAM, or a response lane. A DAM request is in
  the DAM's `inp_buf`, stalled at its front end, or in its controller, and
  never also in `messages_sent_to_device`. Nothing else exists.
  Breaking it takes a packer, unpacker, rollover, DRAM callback or
  stall-and-retry that loses, duplicates or mislabels a message, possibly
  across several flits.
- **`ServiceRefinement`.** `CXLSystem` implements the abstract
  `MemService` (`MemService.tla`). That specification has three variables:
  the next id, the set of pending requests, each with its kind (`Req`,
  `RwD` or `DAM`), and the completed count. A request is issued with the
  next id and becomes pending. It completes exactly once, in any order,
  and each completion adds one to the count. The refinement mapping,
  `Service == INSTANCE MemService WITH ...` in `CXLSystem.tla`, takes:
  - `next` from the host's `msg_id` counter;
  - `pending` from `messages_sent_to_device` and `reqs_in_dam`, with the
    opcode each is known by;
  - `completed` from `num_reqs_completed`.
  The property `Service!Spec` requires every step of the simulator to be
  a step of the service or a stutter. Packers, buses, unpackers and DRAM
  callbacks must not create, retire, relabel or count a request, and a
  completion must be counted once and erase its entry. `main` stops on
  the counter together with both maps, so that stop is sound only if
  this property holds.
- **`CreditConservation`.** Six identities of the credit protocol. For
  each credit type, the credits at the owner, in flits in flight, at the
  peer and held by requests in transit add up to the buffer capacity they
  protect. These identities are the reason the code's unchecked enqueues
  (unpackers, the DRAM callback) are safe.
- **`FlitStreamWellFormed`.** No packer or unpacker assertion on slot
  counts, the rollover pattern, unexpected data, a header before the
  previous header's data, or `seq_threshold` ever fires.
- **`SkipChecksSound`.** For every skip predicate of both nodes, when it
  says skip, running the operation leaves the node unchanged. This is the
  property spec §4.7 / §8.4 asks for.
- **`NoBufferOverflow`.** No `CXLBuf::enqueue` ever hits a full buffer:
  the host lanes, the S2M response lanes, the rx buffers and the unpackers'
  queues. It has its own run because a host lane can only fill with four
  requests, and the other invariants would make that run too slow.
- **`AllRequestsComplete`.** The main loop eventually ends with every
  request retired.

Each property has a mutant in `PROJECT.json`: a plausible bug in a mapped
definition that TLC shows breaks it.

Finding: the `SKIP_CYCLE` "Flag Error" assertions in `CXLHost::update` and
`CXLDevice::update` are vacuous. When an operation is skipped it is not
called, so its flag stays false. Spec §4.7 says the operation is still
invoked and checked. `SkipChecksSound` checks the intended property
directly, and it holds.

### The simulated clock (`TraceClock`, run `trace_clock`)

`CXLSystem` abstracts time away, so the timing of `text_to_trace` has its
own module. Its state is:

- `curr_tick`;
- `last` (`last_text_to_trace_buf_dequeue`);
- `buf` (the gaps of the lines in `text_to_trace_buf`);
- `pos` in the trace, and `is_trace_finished`;
- the abstract `MemService` as the memory system, with each request's
  issue tick.

A tick is three steps:

- `MemComplete`: the devices and the DAM complete requests. A request
  completes only after at least `MinLatency` = 6 ticks, one update period
  of the ramulator.
- `TextToTrace`: the host. This is the whole of `text_to_trace`, in the
  code's order:
  - the idle jump (`IdleJumpTick`);
  - the due test, which stamps `last`;
  - the send, or a refusal by a full DAM buffer or a full lane (`Outcomes`);
  - the read of one line (`ReadLine`).
- `Tick`: main's `curr_tick++` and the end test.

"Idle" is "no request pending". `MessageConservation` in the safety run
justifies this: every message in the host's lanes and VCs belongs to a
pending request. The instance:

- `BufCap` = 2, so that a trace fills the buffer;
- `ticks_per_ins` = 10, as in Main.cpp;
- `MaxTick` = 60, enough for every trace to finish.

`CHECK_DEADLOCK` is off: the main loop ends, and the tick bound cuts the
runs where the memory takes longer.

- **`RewindOneTick` (pass, about 1.9M states, about 15 s).** The comment
  on the idle jump says it advances `curr_tick`. In fact it sets
  `curr_tick` to `last + gap*ticks_per_ins`. That is in the past when the
  head of the buffer is overdue. The property says the clock goes back
  only when the head's gap is 0, and then by exactly one tick:
  - lines are read in the call that issues their predecessor;
  - every due test stamps `last`;
  - so a head is never overdue by more than one tick.
  Two ways reach the rewind: a first line with gap 0, and a refused issue
  followed by the system going idle. Both are a code bug (see the findings).

## Bounds

All three runs use the same constants, except that the buffers run has `MaxMsgs` 4, `HostPackerWaitTime` 1 and no DAM lines, and the liveness run has `MaxMsgs` 2, to stay within a few minutes:

| Constant | Value | Why |
|---|---|---|
| `NUM_VC` | 2 | So the round-robin over lanes and the lane pointers wrap. |
| `HostLaneSize`, `DevLaneSize` | 1 | `vc_size / NUM_VC` at the smallest size where a lane can be full. |
| `DevVcSize` | 2 | The device's M2S buffers, and so the number of device credits. |
| `HostRspVcSize` | 3 | The host's S2M buffers. See below. |
| `BufSize`, `BusSize` | 1 | So tx backpressure and full buses occur. |
| `RamInpSize` | 1 | The DRAM's `inp_buf`. |
| `MemSize` | 2 | The requests a controller holds, so completions can come out of order. |
| `MaxMsgs` | 3; 4 in the buffers run, 2 in the liveness run | Trace length. |
| `TraceToDam` | `{FALSE, TRUE}`; `{FALSE}` in the buffers run | Whether a line may go to the DAM. The buffers run is about the device path's lanes and rx buffers, which DAM lines do not enter. |
| `SeqThreshold` | 5 | As in the code. |

`HostRspVcSize` is larger than `DevVcSize`. In the default build both come
from `-D` sizes (1024). With equal sizes, the host's credits would also
bound what the device can hold, and the device's credit protocol would not
be tested alone.

What these bounds reach:

- all interleavings of three (or four) reads and writes in any order;
- rollover of a header placed in slots 0 to 3;
- two requests in one flit;
- full tx buffers and buses;
- exhausted request credits with a request waiting;
- DRAM and DAM stalls with the refused request retried;
- out-of-order completions;
- a DAM line blocked at the head of the trace by a full DAM `inp_buf`,
  with device lines behind it.

Not reached: the all-data flit (rollover case 4) and `seq_threshold`.
A header rolls 4 data slots over only from slot 3. The packing rules allow
at most two messages without data and one header per flit. So the three
slots before it hold another header's rollover data behind one more
message, and four messages must be packed into consecutive flits. The
safety run has 3 messages. TLC finds that the buffers run, with 4, does
not reach it either. `seq_threshold` (5 flits in a row that owe rollover)
needs more still. `FlitStreamWellFormed` therefore checks the rollover
rules for cases 0 to 3. `CXLSwitch`'s instance feeds the switch an
all-data flit directly.

## Fairness

`main` calls `cxl.update()` on every iteration, and every operation is a
deterministic step. So the system keeps taking steps until `phase = "done"`.
The spec states this as weak fairness of `Next`, written without
`ENABLED`. The only nondeterminism is the environment:

- **The trace gap.** It is finite, so the head of the trace is eventually
  issued if its step is offered infinitely often (SF of `HostTrace`).
- **The DRAM and the DAM.** Each is updated every
  `delay_ramulator_update`-th tick. Each eventually accepts the request it
  offers when it has room, and eventually completes each request it holds
  (SF of `DeviceDram` and of `DamUpdate`, for accept and for each id).

Without the per-id completion fairness, `AllRequestsComplete` is violated
by a DRAM that never answers. So the property is not vacuous.

## The CXL switch (`CXLSwitch`)

`CXLSystem` (the constructor) wires one host and `num_device` devices to
one switch. Each `CXLSwitch::update` does these stages, in this order:

1. It moves the head of `upstream_buffer_rx` to `ARB_NOC_h2d` (`H2DPort`).
2. It routes the head of the NoC to a downstream port (`H2DRoute`). A flit
   whose slot 0 is data goes to `previous_destination`. Any other flit goes
   to `destination_device(get_first_address())`.
3. Each downstream tx buffer puts its head on its bus, if
   `check_transmission` allows it (`H2DTransmit`).
4. It polls the devices round-robin from `curr_port` (`PollPorts`,
   RECURSIVE). It takes the first due flit into `ARB_NOC_d2h`, adds +4 to
   `expected_rollover` per DRS header and -1 per data slot
   (`UpdateRollover`), and advances `curr_port` only while no data is owed
   (`UpdatePort`).
5. It moves the NoC to `upstream_buffer_tx` (`D2HNoc`), and that onto the
   bus to the host (`D2HTransmit`).
6. Under `SKIP_CYCLE`, `skip_cycle` becomes the conjunction of the
   emptiness flags that `check_buffer_condition` collected. The next update
   returns at once if `skip_cycle` is set and `all_rx_buf_empty()` holds.

The stages are composed in one action, `SwitchUpdate(busUp, busDn)`, as the
method runs them. `busUp` and `busDn[d]` are the results of
`check_transmission`, chosen freely, because bus occupancy and dequeue
spacing are not modelled.

Time is abstracted as in `CXLSystem`. A flit enqueued in this tick is
`fresh`. `latency_check_flit` passes once a tick has ended. The buses into
the switch deliver at most one flit per tick, before the update, as the
host-side buses do in `CXLSystem::update`. Flits from a device bus wait a
tick either way.

The instance has two devices. Its flits are laid out as the packers lay
them out. Each flit holds one device's messages
(`device_under_consideration`, CXLHost.cpp:928). Data owed by a header of
an earlier flit fills slots 1..r of the next flit, with slot 0 free for a
new header. When 4 are owed, they fill an all-data flit (CXLDevice.cpp
805-855, CXLHost.cpp 1140-1193).

The host's flits:

- two requests for device 0;
- a request and an RwD header in slot 3 for device 1;
- that write's four data slots as an all-data flit. Its slot 0 is data, so
  the switch routes it by `previous_destination`.

The devices' flits:

- device 0: a DRS header in slot 0 with three data slots, then an NDR
  with the last data slot in slot 1;
- device 1: an NDR and a DRS in slot 1 with two data slots, then a second
  DRS in slot 0 with the first DRS's last two data slots in slots 1 and 2
  and its own first data slot in slot 3, then a flit with that DRS's last
  three data slots.

So the round-robin meets a rollover on each port while the other port has
flits waiting.

Properties (run `switch`, about 33K states, about 20 s, deadlock checked):

- **`HostUnpacksUpstream`.** The host's `FLIT_unpacker` reads the stream
  the switch merges as if one packer had sent it. Every flit passes its
  assertions (CXLHost.cpp 260-310):
  - one device per flit;
  - slots 1..r are data when r data slots are owed, and all four when 4
    are owed;
  - at most 2 NDR, 4 data slots and 1 DRS per flit;
  - no DRS header while data is owed, and no data slot when none is owed.
  The rollover loop also gives each DRS header data of its own device. The
  `expected_rollover` guard in `update_port` keeps this true across flit
  boundaries.
- **`RequestsReachOwner`.** Every host flit reaches the device that owns
  its first address. A leading data slot reaches the device of its RwD
  header. This covers `previous_destination`.
- **`SwitchSkipSound`.** When an update would skip, no flit is waiting in
  any buffer of the switch.
- **`AllDelivered`.** Every flit of every stream eventually leaves the
  switch, and the switch drains.
- **`TypeOK`.** This includes `expected_rollover` in 0..16. A wrap of the
  `uint64_t` below zero would break it.

Fairness for `AllDelivered` is the environment's. The main loop keeps
ticking. A bus with a flit to deliver delivers it. The switch infinitely
often updates with every bus ready, because `check_transmission` only waits
for a bounded spacing and for room, and the devices and the host keep
draining their buses. It is written as `[]<><<A>>_vars` (or the stream
is exhausted) rather than with `ENABLED`, which keeps the run fast.

## The Hyrise console (`HyriseConsole`)

The console is single-threaded, with one asynchronous event: SIGINT, whose
handler `siglongjmp`s back into `main`. The model has the following parts:

- **`main`.** The startup script argument, the point where `sigsetjmp` is
  set, and the REPL loop.
- **Reading lines.** `Console::read` (`ReplRead`).
- **Evaluating a line.** `_eval`, `_eval_command` and `_eval_sql`.
  `_eval_sql` runs the pipeline one statement at a time: `PipelineStep`,
  `PipelineFail` and `PipelineFinish`.
- **Scripts.** `_exec_script`, with scripts that run scripts, each a stack
  frame: `ScriptLine` and `ScriptEnd`. The number of open files is bounded.
- **Signals and exit.** `handle_signal`, `_reset`, `_rollback`,
  `_print_transaction_info`, and `_exit` with `~Console`.
- **Configuration commands.** `setting`, `load_plugin`, `unload_plugin`,
  `wait`, `cores`, `pintool`, `iotop`, `iostat`, `vtune`, `coreutil` and
  `python` (`ConfigCmd`). Each is modelled by the code it returns to
  `_eval`, or by the end of the process when an exception escapes it.
  Nothing between a command and `main` catches one. Concretely:
  - `wait x` or `cores x` makes `boost::lexical_cast` throw;
  - the plugin manager, which is not in the repository, may fail an
    assertion.
  What these commands configure is left out: the scheduler, the plugins,
  the core count, and tracing flags that nothing in this repository reads.

The console keeps its own transaction context between statements. The
model compares it with the engine's set of open transactions. The SQL
parser and the engine are Hyrise library code, not in this repository.
They are a small statement vocabulary: begin, commit, select, a failing
statement, and a statement split over two lines.

The instance:

- three scripts: `a` runs `b`, then `c`, which opens a transaction and
  quits;
- a script `d` that runs itself;
- a missing file `x`;
- up to 4 typed lines, 2 SIGINTs, 2 open files and 3 transaction ids;
- typed configuration lines that succeed (`setting scheduler on`), fail
  with a usage Error (`pintool`), end the process (`wait x`), or may do
  either (`load_plugin p`).

Fairness: weak fairness of the script loop and the pipeline steps. Both run
without waiting for the user. The user may stop typing, so `ReplRead` is
not fair.

Runs:

- **`console` (pass).**
  - `NoLineAfterQuit`: after a `Quit`, or after a failed startup script, no
    further line is taken, at any depth of nesting.
  - `ScriptsFinish`: every script that starts returns.
  - `TypeOK`.
- **Violation runs.** Three runs check one property each, and each finds a
  bug:
  - `console_sigint`: `InterruptNeverKills`. A Ctrl+C during the startup
    script jumps through an unset `jmp_env`.
  - `console_txn`: `ConsoleTracksTransaction`. After a Ctrl+C inside a
    pipeline, or after `reset`, the console's context is not the engine's
    open transaction.
  - `console_notice`: `CommitNoticeTrue`. "All previous statements have
    been committed" is printed while a `BEGIN` of the same pipeline left a
    transaction open.
- **Read off the model, with no run of their own.** Three more defects:
  - an inner `script` clears `_verbose` when it returns (console.cpp:2123),
    so the outer script's remaining lines are no longer echoed. The echo is
    output only; the model keeps `_verbose`, not what is printed.
  - `input.back()` on an empty line inside a multiline statement
    (console.cpp:1295) is undefined behaviour, and the console run reaches
    the abort.
  - `wait x` or `cores x` (console.cpp:2255, 2276) ends the console
    through an uncaught `bad_lexical_cast`, while a missing argument only
    prints the usage. The console run reaches this end too.

## The Pin ROI tools (`PinTools`)

Both tools watch one single-threaded application.

- **`roitrace`.**
  - Routine instrumentation calls `Routine` for every routine. It inserts
    `StartROI` or `StopROI` at IPOINT_AFTER of a routine whose name
    contains `__parsec_roi_begin` or `__parsec_roi_end`.
  - Instruction instrumentation logs each memory operand's read and write
    while tracing is on.
- **`dcache_psql`.**
  - It has the same ROI markers.
  - It has knobs `-ts` (track stores) and `-tl` (track loads).
  - It dispatches each access to `LoadSingle`/`LoadMulti`/`StoreSingle`/
    `StoreMulti` by size. Each of these counts the access in the profile
    and logs misses.

How the model represents this:

- The application is a sequence of calls, returns and memory instructions
  (`Call`, `Return`, `Exec`). `stack` holds the active routines.
- The cache (`cache.H`) is not in the repository, so a hit is a
  nondeterministic choice per access.
- The instance names its routines after `test/test_roi.cpp`:
  - `__parsec_roi_begin`;
  - a mangled name containing `__parsec_roi_end`;
  - an unrelated routine.
- The instructions are:
  - a 4-byte load;
  - an 8-byte read-modify-write;
  - a predicated 4-byte store.
- A run has up to 5 steps and a call depth of 2, under all four knob
  settings.

Runs:

- **`pin` (pass, about 1.09M states, about 1 min).**
  - `RoiTraceExact`: roitrace's trace is exactly the accesses made between
    the return of a ROI begin and the return of a ROI end.
  - `MissTraceAddrs`: dcache logs the address of every tracked miss, and
    its profile counts every tracked access.
  - `TypeOK`.
- **`pin_roiend` (violation).** `RoiEndBodyNotTraced`: the accesses of
  `__parsec_roi_end` itself are traced, against the comment at
  roitrace.cpp:166.

## Trace isolation (`IsolateMT`)

`isolate_mt` reads a ranges file of segments (`S,table,chunk,column`)
and their address blocks, then starts one thread per Pin trace file. Each
thread (`process_file`) reads its file line by line, finds the blocks that
contain the address (`get_blk_idx`), selects the smallest (the first of
equal size), ORs `0xa << 56 | table << 52 | column << 48` into the
address and writes the line to `iso_part_<i>`. The threads share the
blocks, read only, and the global `temp_counter`, which counts lines of
table 5, column 3 without synchronisation.

The model:

- `ParseAddrBlocks` folds the ranges file into `addr_blocks` and
  `mapping_index`; table and column are kept modulo 256, as the `uint8_t`
  fields do.
- `GetBlkIdx`, `SmallestBlk` and `SelectedIdx` are the lookup. When no
  block contains the address, `selected_idx` is never assigned, and the
  code still uses it. That read of an uninitialised variable is a choice
  among the indices it can hold.
- An output address is `[lo, hi]`: bits 0–47 are the input address, and
  bits 48–63 are the tag computed with `Bitwise`'s `|`, so the
  overlapping fields behave as in the code.
- Each thread is `ProcessLine`, `IncStore` (the store of the racy
  `temp_counter++`, whose load `ProcessLine` makes) and `ThreadEnd`. `Join`
  is main's join loop.

The instance has two segments, an outer block [2, 6] of table 5 column 3
and a nested block [4, 4] of table 2 column 17. It has two trace files
with addresses in the nested block, in the outer block from both threads,
and outside every block.

Run `isolate_unmatched` (violation) checks `UnmatchedAddressesUnchanged`:
an address that lies in no block is written unchanged, as the branches
that assign `selected_idx` and `isolate_hash` both intend. TLC shows
address 7 written tagged with table 5, column 3, because the guard
`blk_idx.size() >= 0` (isolate_mt.cpp:98) is always true. In the same
instance, column 17 sets the low table bit of the tag, and two threads
that count table 5 column 3 can lose an increment. These are listed as
hazards; no property states them.

## All runs

| Run | Module / cfg | Expect | Properties |
|---|---|---|---|
| safety | MC_CXLSystem / MC_CXLSystem.cfg | pass | TypeOK, MessageConservation, ServiceRefinement, CreditConservation, FlitStreamWellFormed, SkipChecksSound |
| buffers | MC_CXLSystem / MC_CXLSystem_buf.cfg | pass | NoBufferOverflow |
| liveness | MC_CXLSystem / MC_CXLSystem_live.cfg | pass | AllRequestsComplete |
| trace_clock | MC_TraceClock / MC_TraceClock.cfg | pass | RewindOneTick |
| switch | MC_CXLSwitch / MC_CXLSwitch.cfg | pass | TypeOK, HostUnpacksUpstream, RequestsReachOwner, SwitchSkipSound, AllDelivered |
| console | MC_HyriseConsole / MC_HyriseConsole.cfg | pass | TypeOK, NoLineAfterQuit, ScriptsFinish |
| console_sigint | MC_HyriseConsole_sigint.cfg | violation | InterruptNeverKills |
| console_txn | MC_HyriseConsole_txn.cfg | violation | ConsoleTracksTransaction |
| console_notice | MC_HyriseConsole_notice.cfg | violation | CommitNoticeTrue |
| pin | MC_PinTools / MC_PinTools.cfg | pass | TypeOK, RoiTraceExact, MissTraceAddrs |
| isolate_unmatched | MC_IsolateMT / MC_IsolateMT.cfg | violation | UnmatchedAddressesUnchanged |
| pin_roiend | MC_PinTools_roiend.cfg | violation | RoiEndBodyNotTraced |

Every property of a passing run has a mutant in `PROJECT.json`: a plausible
bug in a mapped definition that TLC shows breaks it. The findings in
`PROJECT.json` describe each violation. Further code bugs have no run:

- the idle jump of `text_to_trace` (CXLHost.cpp:460) moves `curr_tick`
  back one tick when the head line has gap 0 and is overdue; `trace_clock`
  bounds the rewind to one tick;
- the idle jump of `text_to_trace` (CXLHost.cpp:465) calls `DAM->update()`
  without the null check that line 480 makes, so a system built with
  `has_DAM` false would crash; `main` always builds a DAM;
- `StoreSingle` in dcache_psql.cpp:322 logs a store miss as `R`, where
  `StoreMulti` logs `W` (visible in the one format string);
- the Pin trace header names four fields above two-field records;
- Hyrise's ROI markers can never match the Pin tools' patterns.

## Not modelled

- **Bus bandwidth.** The bus's minimum dequeue spacing and stagnant-flit
  assertion, and latencies of more than one tick. In the switch these are
  the free `check_transmission` results.
- **Switch buffer capacity.** The switch buffers hold 4096 flits and are
  enqueued without a check. The model's buffers are unbounded, and no
  stream TLC can explore comes near the limit.
- **`disconnect_downstream`.** Nothing calls it.
- **A system without a DAM.** `has_DAM` is always 1 in `main`; the model
  always composes the DAM.
- **Ramulator internals.** Abstracted as above.
- **Output.** Trace parsing, logging, dumps and latency statistics
  (utils.cpp, the printing in Main.cpp).
- **Console commands that only print, load or index data.** `help`,
  `pwd`, `pid`, `generate_*`, `load`, `export`, `print`, `visualize`,
  `details`, `list_index`, `create_chunk_index`, and the profiling
  commands `mem_blks`, `acctr`, `seg` and `coalesce`. The Hyrise engine behind the console is library code outside
  this repository.
- **`isolate_hash` and the other scripts in `hyrise/myscripts`.**
  `isolate_hash` is the single-threaded version of `isolate_mt`, with a
  map lookup by block start. It is a deterministic function of its two
  input files, with no threads, no signals and no state that outlives the
  run. A unit test over a crafted block file reaches each case, including
  nested blocks and the zero entry that `addr_table[0x7f61c3a6f630]` in
  `main` inserts when the key is absent. `counter_trace_bridge_job`,
  `ops_per_byte` and `string_replace` are sequential file filters.
- **`probe_jmp_or_call`.** Whether a probe can be placed depends on Pin's
  code relocation, which is not in the repository.
- **Pin's cache.** `cache.H` is not in the repository. Multithreaded
  applications are not modelled either.
