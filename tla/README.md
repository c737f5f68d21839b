# A verification development for Patches

Patches is a live-coded modular synthesiser. A patch file is parsed and expanded
into a graph of modules; a planner on the control thread turns the graph into an
`ExecutionPlan`; the plan crosses a lock-free ring to the audio thread, which
swaps it in between two callbacks without allocating, blocking or losing the
state of the modules that stay. Saving the file again repeats this while sound
is playing. This directory models that reload path in TLA+, and with it what goes
on around it while patches change: meters, MIDI input, host controls and the
tracker. TLC checks the models on small instances; the main invariants are proved
with TLAPS.

1. [Inventory](#1-inventory)
2. [Plan](#2-plan)
3. [Modules, and how they correspond to the code](#3-modules-and-how-they-correspond-to-the-code)
4. [Runs, bounds and fairness](#4-runs-bounds-and-fairness)
5. [Where code and documents disagree](#5-where-code-and-documents-disagree)
6. [Theorems](#6-theorems)
7. [What is only model-checked, and what is not modelled](#7-what-is-only-model-checked-and-what-is-not-modelled)

## 1. Inventory

The state of each part, what changes it, and what would make it wrong. The same
list, with the status of each part, is `components` in `PROJECT.json`; the lines
where the hard behaviours bite are its `hazards`.

### The reload path

| Part | State | Operations | What makes it correct |
|---|---|---|---|
| **Planner: classification, module slots, delta** (`patches-planner/src/planner.rs`, `builder/mod.rs`, `state/alloc.rs`) | `PlannerState`: node → instance, `ModuleAllocState` (instance → pool slot, freelist, high-water mark), the instance counter | `classify_nodes`, `diff`, `build_draft`, `assemble`, the commit in `build_full` | a node of unchanged type, shape and structural parameters keeps its instance; slots are never leaked or shared; the delta fits the pool it will meet; a failed build changes nothing |
| **Planner: cable slots** (`state/alloc.rs`) | port → cable slot, cycle freelist, cycle high-water mark | `allocate_buffers` | feedback cables keep their slot; no signal leaks into a recycled cable; no slot leaks |
| **Planner: execution order and cable fusion** (`state/scc.rs`, `state/mod.rs`) | none between builds | `tarjan_scc`, `Topology::build`, `PortClassification`, two validators | a cable is fused exactly when it closes no loop, and its producer then runs earlier in the same tick |
| **HostRuntime** (`patches-host/src/runtime.rs`) | plan ring producer, next generation, planner, cleanup thread handle | `compile_only`, `push`, `push_blocking`, `Drop` | plans are adopted in the order they were stamped; `Drop` returns |
| **Host patch loading** (`patches-host`) | none | parse, expand, bind | sequential; its outcome is the planner's input |
| **PatchProcessor: adoption** (`patches-engine/src/processor.rs`, `execution_state.rs`, `pool.rs`) | module pool, pointer arrays, previous plan, host-control routing and lanes | `adopt_plan_with_meta` | every slot a plan lists is populated; no pointer outlives its module; nothing is freed on the audio thread |
| **PatchProcessor: tick and cable pool** (`processor.rs`, `patches-core` cables) | two halves of the cable pool, the write index | `tick`, the tick fence | a delayed reader sees its own producer one tick late |
| **Halt state** (`patches-engine/src/halt.rs`) | sticky flag, first-panic info | `record`, `clear`, `snapshot` | only a rebuild clears it, and every rebuild does |
| **Cleanup ring and thread** (`patches-engine/src/kernel.rs`) | ring of displaced values | push or count the overflow; drain, check, sleep | everything evicted is dropped off the audio thread; the thread ends |
| **Audio callback and stream** (`patches-cpal/src`) | processor, plan ring consumer | `receive_plan`, the callback fence, `stop` | one plan per callback, a panic does not reach the driver |

### Around it

| Part | State and operations | What makes it correct |
|---|---|---|
| **Tap ring** (`patches-io-ring/src/tap_ring.rs`) | blocks of samples, each stamped with the generation of its first sample; push or drop, drain | a block is read once and whole |
| **Observer and subscribers** (`patches-observation/src`) | processors per slot, value and trigger cells, the generation in force; apply the latest manifest, process a block, take a trigger | a meter is fed by its own tap and keeps its state when the tap changes slots; no trigger is lost between two polls; the meters come back after a reload |
| **MIDI input** (`patches-engine/src/midi/`, `midi_scratch.rs`) | an event queue with a look-ahead slot, rows per sample, a carry-over; stamp, push, drain a window, spill, carry over, take a row | every message is sounded or counted, in order, not early, within a bound |
| **Audio clock** (`midi/clock.rs`) | a sample count and a wall time under a sequence lock | an anchor is read as it was published |
| **Plugin controller and host-control registry** (`patches-plugin-common/src`) | source, saved values, manifest names; live controls and tombstones with parameter ids | an id never means another control; a control that comes back finds its automation |
| **Host-control scratch** (`patches-engine/src/host_control_scratch.rs`) | kind and last target of each lane | a lane holds what was set for its control |
| **CLAP plugin, terminal player** (`patches-clap/src`, `patches-player/src`) | when plans are compiled, pushed and adopted, values recorded and restored, engines torn down | the table the audio thread routes by agrees with its patch |
| **Sequencer modules** (`patches-modules/src/sequencer`) | song row, step, counters of a tick; slides and rolls per channel | players are on the song's step, also after a reload; rolls and slides come to their end |
| **Tracker data** (`patches-core/src/tracker.rs`, `patches-interpreter/src/tracker.rs`) | the effect of every cell, from a walk over its row | each slide has a target |
| **CPU monitor, decimator, DSP kernels** | statistics and numerics | no protocol |
| **DSL, descriptor binding, core graph** | sequential compiler | golden tests |
| **FFI plugin ABI, language server, editor extension, tools** | I/O, and separate programs that do not touch the engine | |

### How they interact

    patch file ──load──▶ Planner ──ExecutionPlan──▶ [plan ring] ──▶ PatchProcessor ──tick──▶ sound
      control thread       │                       capacity 1         audio callback │
                           │ manifest                                               │ displaced values
                           ▼                                                        ▼
                       Observer ◀── tap blocks ── [tap ring]             [cleanup ring] ──▶ cleanup thread
                                                                         shared: HaltState ──▶ host

Nothing flows back from the audio thread to the planner: the planner *predicts*
the pool. Its prediction is right only if every plan it commits to is adopted, in
order, and each adoption does what the plan says. That is the behaviour that
matters most and is hardest to test: a wrong delta shows only some reloads later,
as a panic on the audio thread, a voice that loses its phase, or a foreign signal
in a feedback loop.

Three threads take part in a reload (control, audio callback, cleanup) and share two
bounded rings and one flag. What goes wrong between them: a plan dropped on a full ring, a
panic half-way through an adoption, a cleanup ring that fills, a join on a thread
that cannot end.

What runs beside a reload meets it at other places. The manifest reaches the
observer by a ring of its own, before or after the plan it belongs to is running,
and tap slots change their meaning in between. Host-control ids are given out on
the main thread, one descriptor after the other, while the audio thread still
routes by the table of the last plan and the host sets parameters through both.
Tracker data are replaced under a sequencer in the middle of a song. MIDI threads
stamp events with a clock the audio thread publishes after each callback.

## 2. Plan

Done, in this order:

1. `HotReload`: what a reload promises, with no slot, ring or thread in sight.
2. `PlanHandoff`: planner, plan ring and one-step adoption; implements `HotReload`.
3. `PlanAdoption`: adoption step by step, with cleanup ring, halt, panics,
   best-effort push and shutdown; without faults it implements `PlanHandoff`.
4. `BufferAlloc`: cable slots across builds that fail, plans in flight and ticks.
5. `CableFusion`: the condensation of the module graph, which cable is fused or
   delayed, and what each read of a tick sees.
6. `ReloadProofs`: the theorems about the reload path;
   `BufferAllocProofs` and `CableFusionProofs`, those about cables.
7. `TapObserver`: tap blocks, manifests and meters across reloads, with
   `TapObserverProofs`.
8. `MidiIngest`, with the clock read in one step, and `MidiIngestProofs`; `AtomicClock`,
   what that presumes, and `AudioClock`, the sequence lock that is to provide it, with
   `AudioClockProofs`.
9. `HostControls`: registry, routing, lanes and saved values over loads,
   activations, events and flushes, with `HostControlProofs`.
10. `StepEffects`, `PatternPlayer`, `SongSequencer`: from the cells of a row to the
    bus of the sequencer and the lanes of the players, across reloads, with
    `SongSequencerProofs`.

What would come next, were it continued: `RollsComplete` and `SlidesLand`, whose
invariants relate the samples left of a tick in the sequencer to the parts of a
sample that each roll and slide has still to go.

## 3. Modules, and how they correspond to the code

`map` in `PROJECT.json` names the lines each definition stands for.

### `HotReload` (abstract)

A graph maps node names to modules `[id, kind, settings]`. `Reload` builds any new
graph in which a node of unchanged kind keeps its instance and every other node
gets one never issued; the graph's modules join a queue. `Adopt` makes the head of
the queue the running set. `FailedBuild` may only use up instance ids.

### `PlanHandoff`

| TLA+ | Code |
|---|---|
| `nodes` | `PlannerState.nodes` |
| `alloc` | `PlannerState.module_alloc`: `pool_map`, `freelist`, `next_hwm` |
| `next_id` | the counter behind `InstanceId::next` |
| `generation` | `HostRuntime::next_tap_generation` |
| `outgoing` | the plan between `compile_only` and a successful push |
| `plan_ring` | the `rtrb` ring, capacity `PlanRing` |
| `pool`, `active`, `adopted` | `ModulePool`, the slots `PtrArray::rebuild` resolved, the processor's generation |
| `Compile` | `classify_nodes`, `diff`, `build_draft`, `assemble` and the commit in `build_full` |
| `CompileFails` | any error after the first instance was minted |
| `Push` | `push_blocking`, the iteration that finds room |
| `Adopt` | `receive_plan` and `adopt_plan_with_meta`, one plan per callback |

A plan is a record of its delta (`tombstones`, `new_modules`, `updates`,
`active_indices`), its generation, and `target`, the pool the planner intends. The
audio thread never reads `target`; it exists so that refinement mappings can say
what a plan in flight is *for*. A module's type, shape and structural parameters
are one value (`Kinds`), its realtime parameters and port bindings another
(`Settings`). The two hash tables whose iteration order decides which slot a new
instance gets are nondeterministic: `Compile` picks the order of the dead ids and
the turn of the new ones.

### `PlanAdoption`

EXTENDS `PlanHandoff`: `Build` and `PushOk` are its control-thread actions, and
adoption is split as the code runs it.

| TLA+ | Code |
|---|---|
| `pc`, `plan`, `todo` | where `adopt_plan_with_meta` stands, the plan, the slots its loop has left |
| `outbox`, `handed` | values displaced and not yet offered to the cleanup ring, and offered so far |
| `previous_plan` | the plan kept until the next replaces it |
| `cleanup_ring` | values in the cleanup ring, counted, not named |
| `halted`, `lost` | the shared `HaltState`; the processor was left with `ReadyState::empty()` |
| `stream`, `cleanup`, `runtime` | the audio stream, the cleanup thread, `HostRuntime` |
| `Pop` … `Return` | `make_stale`, the tombstone loop, installs, the update loops, `rebuild`, the displaced plan, host-control and monitor metadata, the end of the call |
| `HandOff` | `push_cleanup_or_count` |
| `ModulePanics`, `AdoptionPanics`, `TickPanics` | a panic in code of any module of the new plan during adoption, an index or `rebuild` panic, a panic caught by the tick fence; `Unwind` is the callback fence |
| `CleanupPop`/`Empty`/`Again`/`Exit` | the loop of `spawn_cleanup_thread` |
| `StopStream`, `DropRuntime`, `JoinReturns` | the orderly shutdown: the stream is stopped before the runtime is dropped |
| `PushDropped` | `push` on a full ring (`BestEffort`) |

### `BufferAlloc`

One output port per node, ports being keyed by (node, output position). The cycle
region keeps its slots between plans; the scratch region is laid out anew.

| TLA+ | Code |
|---|---|
| `output_buf`, `freelist`, `hwm` | `BufferAllocState` |
| `draft`, `todo`, `gone`, `stage` | the locals of `allocate_buffers`, its loop over ports in execution order, its loop over the previous map |
| `KeepPort`, `ReuseSlot`, `GrowCycle`, `PlaceScratch` | the four arms for one port |
| `CycleExhausted`, `ScratchExhausted` | `BufferPoolExhausted` |
| `Reconcile` | freeing and zeroing the slots of ports that are gone |
| `Commit`, `Abandon` | the rest of the build succeeds or fails |
| `Adopt` | zeroing `to_zero`, both halves of a cycle slot |
| `Tick` | a tick in which all, none (halted) or some (a panic) of the modules write; the halves swap either way |

Whether a port has a delayed reader is an input (`patch[p].cycle`); `CableFusion`
models where it comes from. A cable value is the name of the port that wrote it,
or `Silence`: that is all the properties tell apart.

### `CableFusion`

Nodes are numbers in the order of their names. `cables` is the patch, chosen by
`Init` and never changed: the module follows one build and the ticks after it.

| TLA+ | Code |
|---|---|
| `index`, `lowlink`, `stack`, `work`, `left`, `scc_id` | the locals of `tarjan_scc`; `left` is what a frame's successor cursor has left |
| `VisitRoot`, `Follow`, `Retreat` | the root loop, the two arms for the next successor, the arm for a node all of whose successors are explored |
| `Condense` | the renumbering (`RunsBefore`, `Rank`) and `compute_order_with_fusion`; the partition is dropped |
| `Classify` | `classify_producer_ports`, a slot in the right region, the two validators; `rejected` is their error |
| `BeginTick`, `Process`, `EndTick` | `ReadyState::tick`: the periodic modules when the counter is zero, each active module in order; the swap of the halves |
| `Read` | `CablePool::read_raw` |

`node_ids` and the edge list come out of hash maps, so the search may start at any
node and follow the cables of a node in any order. (The comment at
`state/mod.rs:266` promises alphabetical order for a patch without cables; each
node is then a component of its own, and the order is that of the hash map.) A
port has a slot of its own; which number it gets is `BufferAlloc`'s matter. The
value of a port is the number of the tick that wrote it.

`CablesOnTime` compares every read with a reference that knows neither components
nor slots: this tick's value, or the last one's when a path of cables leads from
the reader back to the writer (`Reaches`, defined by closed sets of nodes). A
periodic update runs before the modules of its tick: it sees the last tick's value,
or the one before on a cable outside the loop of a port that also feeds one
(`PeriodicLag`).

### `TapObserver`

| TLA+ | Code |
|---|---|
| `manifest`, `control` | the tap lists of the reloads so far; where `push` or `push_blocking` stands |
| `plan_ring`, `replans`, `tap_ring` | the three rings, by generation; blocks with their stamp |
| `plan_gen`, `block`, `stamp` | `tap_manifest_generation`, the block being filled, `tap_block_generation` |
| `observer`, `batch`, `done` | the loop of `spawn_observer`: replans, one chunk, its blocks, the release of the chunk |
| `slots`, `meter`, `led` | processors by slot, scalar cells, trigger cells |
| `Reload`, `PlanAccepted`, `PlanDropped`, `Publish` | `next_generation`, the push that finds room, the one that does not, `publish_manifest` (after the push, whatever became of it) |
| `Adopt`, `Tick` | taking over the generation, one sample of the tap block |
| `ApplyReplans`, `ProcessBlock` | `drain_latest` and `apply_manifest`; `process_block` |
| `TakeTrigger` | `take_trigger` from the UI |

A sample is the plan that produced it and the tap whose trigger fires in it; what a
processor has computed is the set of taps it was fed from. That tells apart what
the properties need: whose signal, through whose slot.

### `MidiIngest`

| TLA+ | Code |
|---|---|
| `now`, `Time` | the wall clock; a callback is late by at most `Jitter` |
| `port`, `Receive`, `ReadClock`, `Push` | the thread of an input port in `handle_midi_message`, between its read of the clock and its push under the mutex |
| `queue`, `peeked` | the event ring and the look-ahead slot |
| `rows`, `pending`, `dropped` | `MidiScratch` |
| `until_next`, `sample_counter`, `remaining` | `samples_until_next_midi`, `sample_counter`, what is left of the callback's buffer |
| `Chunk` | one turn of `fill_buffer`'s loop: at a boundary `prepare_midi_block`, the drain and the writes, then the ticks, each with its `take_row` |
| `EndCallback` | `clock.publish` |

A row that was taken counts as empty, since no later `take_row` reads it.

### `AudioClock` and `AtomicClock`

The two payload fields of the clock are plain memory, so the module has a variable
for each and a set of the stores and loads that are still to take effect. `Ordered`
says whether they take effect in the order of the code. Where it is `FALSE` only
what the orderings ask for holds: a Release store waits for what comes before it,
an Acquire load is waited for by what comes after it, and nothing else is ordered.
A payload is the number of its publication, and `NotTorn` says that the two halves of an
anchor carry the same number. `AtomicClock` publishes and reads an anchor in one
step; a reader may look again before it returns.

### `HostControls`

| TLA+ | Code |
|---|---|
| `live`, `tombstones`, `next_id`, `epoch` | `StandardHostControlRegistry` |
| `source`, `saved`, `known` | the controller's `dsl_source`, `host_controls`, `host_control_manifest` |
| `main`, `origin`, `work`, `rest` | where the main thread stands in a compile, and for whom |
| `plan_ring`, `layout`, `routing`, `lane_kind`, `target` | the plan on its way; the adopted one's controls, `host_control_param_to_channel`, lane kinds, `last_target` |
| `RemoveNames`, `ApplyDescriptor` | `apply`: removed names, then one descriptor after the other, in four arms (`StaysLive`, `ChangesKind`, `Reborn`, `Added`) |
| `LoadPath`, `StateLoad`, `Activate`, `Deactivate` | the controller's actions and the plugin's callbacks |
| `Push` | `push_blocking` and what the controller absorbs after it |
| `Record`: `StartSeeding` … `EndRecording` | `plugin_on_main_thread` once its queue is empty: defaults and then saved values, one `record_value` a step |
| `Process`, `Flush` | `plugin_process` with adoption and events, `params_flush` |

`LoadPath` restores no values and there is no `LoadPreset`, because sidecars and presets
belong to the terminal player: `ClapEnv` implements neither (`controller.rs:188-200` and
231-234), and in a DAW the host keeps the values.

Names are numbers in alphabetical order, because slots are alphabetical positions.
A value is 0 for 0.0 and otherwise the control it was meant for.

### `StepEffects`, `PatternPlayer`, `SongSequencer`

`StepEffects` is `resolve_step_effects`: a walk over a row's cells with what is
open, the cell that opened it and the effects so far. `PatternPlayer` is
`PatternPlayerCore`: `PlayerTick` is `tick`, `Applied` is `apply_step`, and per lane
the gate, the trigger, the control voltage (a cell's value or `Moving`), the slide
and the roll. Times are counted in samples and a sub-event's position in
fractions of its roll, so no rounding is needed. `SongSequencer` composes them:

| TLA+ | Code |
|---|---|
| `seq`, `synced`, `hosted` | `SequencerCore`, `use_host_transport`, `AudioEnvironment::hosted` |
| `players` | the core of the pattern player on each channel |
| `prog`, `held` | the parameters applied, and the tracker data the modules hold |
| `transport`, `left` | what `write_transport_state` wrote for this block, and the samples left of it |
| `Sample` | `MasterSequencer::process` (`FreeTick` or `HostTick`), then every `PatternPlayer::process` |
| `NextBlock` | a new block: the host plays on, stops or jumps |
| `Reload` | an adoption: `apply_params` if the parameters changed, `receive_tracker_data` if the patch has any |

## 4. Runs, bounds and fairness

| Run | Bounds | States | Shows |
|---|---|---|---|
| `PlanHandoff` | 2 nodes, 2 kinds, 2 settings, 2 pool slots, ring of 1, 3 instances, 3 reloads | 53 thousand | every plan fits the pool it meets; the planner's mirror is right when nothing is in flight; slots and instances are never shared; the whole implements `HotReload`; a pushed plan is adopted |
| `PlanAdoption` | 2 nodes, 1 kind, 2 settings, 2 slots, cleanup ring of 2, 1 panic, 3 reloads, best-effort push | 368 thousand | no dangling pointer at any step, after a lost plan or a panic; the halt is sticky and a reload clears it; the join leaves nothing behind; the real bound on what one swap evicts |
| `PlanAdoptionLive` | the same with 2 reloads, no panic, `push_blocking` | 44 thousand | step-by-step adoption implements the one-step adoption of `PlanHandoff`; evicted values are dropped, shutdown returns |
| `BufferAlloc` | 3 ports, 2 cycle slots, 1 free scratch slot, 3 builds | 463 thousand | no cable slot leaks or is shared; no foreign value behind a delayed reader; feedback is continuous; exhaustion only when the region is really full |
| `CableFusion` | 4 modules, one of them with 2 outputs, all patches of at most 4 cables, 3 ticks, updates every 2 | 1.4 million | Tarjan's loop finds the components whatever the hash order; the validators never fire; every read is on time |
| `TapObserver` | 3 taps over 2 slots, 3 tap lists, 2 reloads, blocks of 2, tap ring of 2, replan ring of 1, 1 fire, both ways to push | 569 thousand | a processor is fed by its own tap, straddling blocks excepted; cells are neither stale nor lost; state follows the tap; the meters come back |
| `MidiIngest` | 2 ports, 3 messages, callbacks of 1 sample, sub-blocks of 2, row, carry-over and look-ahead of 1, queue of 2, lateness 1, 6 units of time | 894 thousand | every message is sounded or counted; order is kept; none is early; none waits longer than a callback and the longest of a sub-block, a callback with the look-ahead, and a slow start with it |
| `AudioClock` | 2 readers, 2 publications, stores and loads in order | 68 thousand | the sequence lock implements `AtomicClock`; reads return |
| `HostControls` | 3 names, 2 kinds, 4 patches and a broken one, 2 tombstones, 4 loads | 412 thousand | ids are never rebound; the registry keeps to its table and forgets no more than it must; the audio thread's routing is its plan's and catches up; what is read back is one's own |
| `SongSequencer` | 2 song channels, 2 lanes, blocks of 2, bars of 6, a timeline of 14 samples, 9 programs, 6 edits, 4 transport inputs | 385 thousand | players follow the song that is loaded; counters are exact; rolls and slides end as written; a song comes round |
| `TornAnchor` | 1 reader, 2 publications, unordered | | refuted, section 5 |
| `HeardIsOwn` | as `HostControls`, nothing saved, 2 loads | | refuted, section 5 |

The bounds are chosen so that each scarce thing runs out. Two pool slots for two
nodes mean that every replacement must reuse a slot freed by the same plan; the
freelist fills, drains and meets the high-water mark. Three instances over two
nodes let one be replaced while the other survives, and `CompileFails` can spend
what a build needs. A ring of one with a build in hand puts two plans in flight,
the most a host can have, since `compile_and_push` is one call. Three reloads
suffice for the longest dependency: a plan commits, a second is built on it, a third
reuses what the second freed. A cleanup ring of two is smaller than what one swap
displaces, so it overflows, and larger than one value, so that it also partly
fills. In `BufferAlloc` three ports over two cycle slots and one scratch slot reach
both kinds of exhaustion, the flip of a port from one region to the other and the
reuse of its slot by a second port within the same sweep. In `CableFusion` four
modules and four cables make a loop inside a loop, a cross edge into a closed
component, a path whose lowlink must climb three frames, and a port, or two ports
of one module, with both fused and delayed readers; the third tick is the first in
which a value two ticks old differs from silence.

In `TapObserver` one tap is alone, then second, then past the last slot; a block of two
can straddle an adoption; rings of one and two overflow. In `MidiIngest` two
messages for one sample spill, three overflow the carry-over, two ports with one
clock between them can put a later event at the head of the queue, and callbacks
half as long as a sub-block end inside it. A second instance, callbacks of 2, sub-blocks
of 3 and 8 units of time, was checked by hand with the same outcome (2.4 million states).
In `AudioClock` a reader can fall between the stores of one publication and
find the next one begun; the theorems have no bound. In `HostControls` five (name, kind)
pairs over two tombstones make it forget, and two patches share a control whose slot
they disagree on. In `SongSequencer` the first six programs differ in what a
reload may change (song, patterns, loop, swing, sync, autostart, no tracker data
at all), with rolls of two and of three; the seventh has a generated row of three cells
for each of 128 channels, every pair of eight kinds of cell before each of two last ones,
and so every way to open, continue and close slides and rolls within three steps. The
eighth keeps its patterns and has no song, the ninth then a shorter song that runs free:
the leftover row of section 5. A bar of 6 samples holds a pattern of two or of three
steps; the host jumps to the start and into the middle of a step. The build accepts all
nine: the patterns of a column agree and a song has the channels of the sequencer.

`MaxInstances`, `MaxReloads`, `MaxPlans`, `MaxPanics`, `MaxFires`, `MaxEvents`, `MaxTime`,
`MaxPublish`, `MaxLoads` and `Timeline` bound what the code lets grow. They are
constants of the specifications, and the theorems hold for every value of them.

Symmetry (nodes, kinds and settings; ports of modules; MIDI ports) is used in the runs
without liveness properties. No definition distinguishes those values. `CHOOSE`
(in those runs) occurs on the one node that owns a slot, or the one port that writes a cycle
slot, unique where it is evaluated (`SlotsPartitioned`, `CyclePartitioned`).

Deadlock is checked in the runs of `AudioClock` only: elsewhere a host may stop reloading for
good, and the runs stop at their bounds.

**Fairness.** `WF(Push)`: `push_blocking` retries in a loop until there is room.
`WF(Adopt)` and `WF(Adoption)`: the driver calls the audio callback as long as the
stream plays, and each call runs to its end. `WF(CleanupThread)`: a thread that
loops with a sleep of a few milliseconds. `WF(JoinReturns)`: a join returns when the
thread has ended. Nothing forces a reload, a panic, `StopStream` or `DropRuntime`,
so `DropReturns` is about a shutdown that has started and `PushedIsAdopted` about a
stream nobody stops (`PlanHandoff` has no shutdown). In `TapObserver` `WF(PlanAccepted \/
PlanDropped)` and `WF(Publish)` are a push that goes on until it returns, `WF(Adopt)`
and `WF(Tick)` the callbacks, `WF(Observe)` the loop of the observer thread; no
reload, fire or UI poll is forced. In `AudioClock` a publication or a read that was begun goes
on; since publications are finitely many, `ReadReturns` says what holds once the
writer rests, and nothing of a reader that is overtaken for ever. In `HostControls` the main
thread finishes what it began, and an active plugin is processed. In
`SongSequencer` the samples left of a block go on changing (`WF` of the step that
`TimePasses` describes): callbacks follow one another, and no reload or transport input is forced.

**Mutants.** For every property of a passing run `mutants` names a definition and a
wrong form of it, the way a plausible slip would write it: a survivor matched by
name only, slots acquired from the wrong end, instances numbered by how many there are, one half of a cycle
slot zeroed, a slot freed twice, a plan dropped when the ring is full, a window that
includes its end, a tombstone revived as another kind, a retry that loads the wrong
sequence again. The wrong
forms stand in the modules next to the right ones, marked `Mutant`; nothing in
`Next` uses them, and each breaks the property it is listed with.

## 5. Where code and documents disagree

Two runs check one statement of the repository each and find it violated; `findings`
quotes the lines.

- `TornAnchor`: `clock.rs` says readers never observe torn data. The Release store of the
  odd sequence does not keep the two plain stores after it from being seen first, and
  the Acquire load of the second sequence does not keep the two plain loads
  before it from happening later. On a machine that uses that freedom, such as the
  aarch64 one the macOS build is for, a reader returns half of one publication and
  half of another. With stores and loads in order the claim is proved
  (`ClockNotTorn`); a fence on each side would provide that order.
- `HeardIsOwn`: ADR 0057 says that a name already known keeps its current value. The
  registry keeps it by name, but the audio thread keeps the last target of a lane by
  slot, and slots are alphabetical positions: after a reload that adds or
  removes an earlier name, a control is heard with its neighbour's value.

What follows was met while reading the code for the models. It is not refuted by a
run; where a model has the behaviour, its properties are stated so that they hold.

*Reload path.*
- `HostRuntime::push` forgets a plan when the ring is full, after the planner has
  moved on. A later plan then activates a slot nothing was installed in and
  `rebuild` panics (`execution_state.rs:54` says every listed slot is populated). Both
  hosts use `push_blocking`, for which `NextPlanFits` is proved; `compile_and_push` and
  tests use `push`.
- A panic inside adoption leaves `ReadyState::empty()`, a pool of capacity zero with a
  `HaltState` of its own. Later reloads panic again or clear the wrong flag; ADR 0051
  makes reloading the way to recover.
- Replacing the host-control routing table (`processor.rs:435`), and returning from an
  adoption that changed parameters, free memory on the audio thread without the
  overflow counter telling.
- When the player returns early after starting the stream (`main.rs:527`), its locals
  are dropped runtime first, and the join waits for a producer that the stream
  still owns.
- One swap can evict more than `module_pool_capacity` values, which ADR 0010 gives
  as the most: two per slot and three more is the bound (`SwapFill`).
- `module.rs:420` says a periodic update reads the previous sample's values. On a fused
  cable of a port that also feeds a loop it reads the half written two ticks ago
  (`PeriodicLag`).
- A node whose module type changes keeps its cycle slot, and its delayed readers first
  see what the old module wrote; ADR 0004 says new cables start from zero.

*Taps.*
- `observer.rs:40-46` promises no misinterpretation across a reload; a block that was
  being filled at the adoption carries the old generation's stamp and the new one's
  samples (the exception in `OwnHistory`).
- A full replan ring drops the manifest being published, the latest, so that the
  meters of the patch that plays stay dark until the next reload (the exception in
  `MetersReturn`); `push` publishes the manifest of a plan it dropped.
- The cell of a slot whose tap was replaced by another keeps the old value until the first
  block of the new generation, and its trigger for as long as nobody takes it.

*MIDI.*
- Until the first publication the clock's anchor is sample zero at the time the clock
  was made. If the stream starts later, an event of that time is stamped too far ahead
  and holds up the queue behind it (`StartDelay`; ADR 0016:62-65).
- Events of one port are in order, but the events of two ports share one queue: one
  that is stamped for later holds up the other port's. When the wall clock of two callbacks
  jitters, a later message may be stamped earlier; `OrderKept` excepts it.

*Host controls.*
- `running-daw.md:81-83` says that reopening a project restores the controls. State load
  and activation compile a plan but do not record the saved values; only a load from
  the action queue does. State load with a patch running checks the saved values
  against the names of the old manifest.
- After each compile, a control that the user set to 0.0 is given its declared default
  again (`plugin.rs:749-752`), and the saved values are recorded over newer ones
  (762-773). None of this reaches the lanes.
- `extensions.rs:154-157` says every touch of a parameter is recorded; the events of
  `process()` are not.
- The registry's comment promises a removed control its id "for the rest of the
  session"; a tombstone is overwritten by one of another kind, and evicted when the
  table is full (`OneIdPerControl` says exactly when).
- `record_value` walks the map of live entries that the main thread is changing.
- A lane's bit for pending smoothing survives the change of its kind.

*Tracker.*
- A rest after an open slide neither closes it nor reports an error: it keeps the
  target 0.0 (`tracker.rs:435-441`), and the module's documentation has it an error.
- A tie after a slide that ended in its own cell stops the slide one sample short.
- A pattern without steps, which the grammar accepts, is indexed modulo zero. A roll of
  more than 16 sub-events allocates on the audio thread (`pattern_player/mod.rs:9-12`).
- A tick one sample after another is no rising edge for the players: the first step after a
  `start` or an autostart reload in that sample is lost, and so is a stop
  sentinel (the exception in `PlayersFollowSong`).
- A host that starts its transport while the sequencer has no song sets it playing on the
  row it was left at. If the song that then arrives is shorter and runs free, the first tick
  is on a row the song does not have: the old bank indices go out for one tick, into the
  new patterns (the exception in `PlayersFollowSong`).
- Stop, pause and a host that stops send no sentinel, though ADR 0029 has one: the players
  keep their gates. A host that seeks back after the end of the song hears nothing until
  it is restarted.
- With `sync = free` a hosted sequencer never autostarts, because the decision precedes
  the reading of the mode (`params.rs:40-50`); any change of a parameter restarts a song
  with autostart.
- The ramp of a slide over several ticks has the length of its first tick times their
  number, so with swing it ends early or late (`SlidesLand` is about even ticks). A pattern
  longer than that of the first channel is cut off.
- A reload to a patch without tracker data leaves the old data in the modules.

## 6. Theorems

Proved by TLAPS for every value of the constants, from the assumptions the modules
state. Those on the reload path: the set of node names is finite, the pool capacity is
a natural number, the plan ring has room for one plan, the bounds are natural numbers;
nothing is assumed of `Kinds` and `Settings`. `PlanAdoption` adds the capacity of the
cleanup ring and the number of panics. Those on cables: ports and outputs are finite
in number, the reserved slots fit the scratch region, a patch has a module and the
update interval a sample. Those on the clock assume `MaxPublish` a natural number and,
each in its statement, `Ordered`; those on host controls what `HostControls` assumes,
that a patch has at most as many controls as the tombstone table has room. Those on taps:
no patch lists a tap twice, and rings, blocks and the backplane are not empty. Those on
MIDI: callbacks, sub-blocks, rows and queues are not empty, and a callback starts at most
one callback late. Those on the song: no pattern, order, tick or block is empty, a loop
point is a row, the pattern lengths divide a bar, and there is a channel and a lane;
the cells of the patterns are any sequence.

| Theorem | Says |
|---|---|
| `TypeCorrect` | `Spec => []TypeOK` |
| `SlotsArePartitioned` | every slot below the high-water mark is mapped by one instance or on the freelist once |
| `InstancesAreDistinct` | no two nodes share an instance and no id is minted twice |
| `ChainInvariant` | the plans in flight chain the pool to the planner's mirror |
| `PlansFit` | the next plan fits the pool it meets |
| `RebuildsResolve` | `PtrArray::rebuild` finds every slot populated |
| `MirrorIsPool` | with nothing in flight, the planner's mirror is the pool |
| `AdoptsInOrder` | plans are adopted in the order they were stamped, none skipped |
| `ReloadImplemented` | `Spec => ImplementsReload`: `PlanHandoff` implements `HotReload` |
| `AdoptionInvariant` | the inductive invariant of adoption step by step, with drops, panics and shutdown |
| `AdoptionIsSafe` | no dangling pointer at any step, and one swap evicts at most twice the pool and three |
| `JoinDrains` | when the runtime's drop returns, the cleanup ring is empty |
| `HaltIsSticky`, `ReloadsClearHalt` | the halt is cleared only by the rebuild of a plan, and a complete adoption clears it |
| `AdoptionImplementsHandoff` | with retried pushes and no panic, `PlanAdoption` implements `PlanHandoff` |
| `AllocInvariant` | the inductive invariant of cable allocation over builds, plans and ticks |
| `CycleRegionSound` | no cycle slot is leaked, shared or left sounding |
| `NothingForeign`, `FeedbackSurvives` | no port hears another's sound through a recycled slot; a feedback cable keeps slot and values over a swap |
| `RefusedOnlyIfFull` | a build runs out of cycle slots only if old and new delayed ports outnumber them |
| `FusionInvariant` | the inductive invariant of Tarjan's loop, the plan and the ticks |
| `ComponentsAlwaysRight` | the loop finds the strongly connected components |
| `NeverEverRejected` | no plan is refused by the planner's own validators |
| `CablesAlwaysOnTime` | every read of a tick is of the tick it should be |
| `ClockInvariant`, `ClockNotTorn` | in order, a read never pairs two publications |
| `ClockIsAtomic` | `Ordered` gives `Spec => ImplementsAtomic`: the sequence lock implements `AtomicClock` |
| `ControlInvariant`, `ControlIdsNeverRebound` | an id stands for one control of one kind, for the whole session |
| `ControlRecordsOwn` | what the host reads back for a control was meant for it |
| `ControlRouted` | the audio thread's table is that of its plan, id by id, and covers its controls |
| `ControlRegistrySound` | the registry keeps its types and its table, and forgets no more than it has to |
| `TapInvariant` | the inductive invariant of the tap path, with plans, manifests and blocks dropped |
| `HistoriesOwn` | a processor was fed from its own tap, but for blocks that straddle a swap |
| `CellsAlwaysKept` | no cell is stale and no trigger fire is lost |
| `HistoriesKept` | a tap in the next manifest keeps its meters' state in whatever slot |
| `MidiInvariant` | the inductive invariant of clock, stamps and event queue |
| `WaitsAreBounded` | no message waits in the queue longer than `LatencyBounded` says |
| `FilingInvariant` | a message is in one place of the path, and the scratch is not ahead of its time |
| `NothingIsLost` | every message is on its way, waiting, seen or counted, within the capacities |
| `NoneIsEarly` | no module sees a message before the sample it is stamped for |
| `OrderInvariant` | a port's messages are in order in the scratch, behind it in the queue, and behind that in its thread |
| `OrderIsKept` | no module sees a message while an earlier one of its port, stamped no later, is to come |
| `SongInvariant`, `PlayersAreAccounted` | the counts that let a player skip a sample are exact, and a stopped player is silent |
| `FollowInvariant` | bank indices not marked out of date are those of the row in the song now loaded |
| `PlayersAlwaysFollow` | every tick puts every player on the step the song asks for, or stops it |

**The planner's invariant** (`ReloadProofs`). `SlotsPartitioned` is inductive
only with `InstancesDistinct` (otherwise a new instance might already own a slot) and
with `TypeOK`; `StampsLeft` says that a plan being held has a generation left for it,
which keeps the counters in their types. The heart is the lemma about `diff`:
`AcquiredSlots` says that the slots handed out are distinct and are exactly the end of
the freelist followed by the slots above the high-water mark, for any freelist, any
order of the dead and any order of the new; `FreeSlots` that what remains is what the
mapped instances do not use; `DiffOk` puts them together.

**The chain invariant** (`ReloadProofs`). None of `NextPlanFits`, `RebuildResolves`
and `MirrorMatchesPool` is inductive: whether the plan at the head fits says nothing
of the one behind it. `RingChained` says that each plan in flight, and after them the
one being pushed, is a *good delta* from its predecessor's target, beginning at the
pool: it tombstones occupied slots, installs into slots that are then empty, updates
what stays, activates its target's domain, and applied to its predecessor's target
gives its own. `Mirrored` says that the last target is the planner's mirror. With
`generation = adopted + Len(plan_ring)` and `active = DOMAIN pool` this is inductive.
`Compile` adds a link, by `CompiledDelta` and the lemmas under it; `Push` moves a
link; `Adopt` removes the first link and makes its target the pool.

**The refinement** (`ReloadProofs`). A plan on its way stands for the modules of its
`target`, so the abstract queue is the plans in the ring and the one in hand
(`QueueAppend`, `QueueTail`). A compilation is a `Reload` with the classified graph:
the ids issued are exactly those below `next_id`, and the modules of the mirror are
those of the graph because no two nodes share a slot. A push is a stutter. An adoption
makes the head of the queue the running set, which is the chain invariant: the plan
applied to the pool gives its target, and all of it is active.

**Adoption step by step** (`ReloadProofs`). `AdoptionInv` is indexed by `pc`.
Its heart is `SwapBudget`: what an adoption has handed over, what it still holds and
what the rest of its plan can displace never exceed twice the pool, to which the last
three steps add the displaced plan and the two displaced metadata. That each plan
displaces no more than the pool twice is a fact about compilation (`PlansFrugal`), and
it survives a plan being lost or abandoned in a panic, when nothing relates the plan
at hand to the pool. So does the safety of the pointers: none is resolved from the
first tombstone to the rebuild. `HaltInv` says that between the rebuild and the return
the engine runs unless the pool was lost; `ShutdownInv` orders the end of the stream,
of the thread and of the runtime.

The refinement needs more, and holds only where the host retries its pushes and no
module panics, which its statement assumes: a dropped plan makes the planner's
prediction wrong, and a panic takes the pool away. Both are things `PlanHandoff`
cannot do. A plan being adopted counts as adopted: the abstract pool is its target
from the moment it is popped (`TargetPool`). `ReliableInv` is the chain invariant over
that pool, and `Ahead`: what is left of the plan is a good delta for the pool as it
is, so each tombstone, each install and each update shortens it (`TombstoneAhead`,
`InstallAhead`, `UpdateAhead`) and the end of it is the target. The chain is stated
for any pool, set of active slots and stamp, and its lemmas apply
to the real one and to the target alike.

**Cable slots** (`BufferAllocProofs`). `CyclePartitioned` holds between builds, and
says nothing of a build half done. `DraftInv` does: below the high-water mark a slot
is free, used by the new layout or still held by the old, and by both only for one and
the same port (`DraftAccounts`); what was given back is on the zero list and what is
held is not (`DraftZeroes`); the sweep has freed no slot of a port it has not come to,
and a port already reconciled is gone or its slot is in use (`DraftProgress`).
`PlanOver` is what a finished build says of its layout over the one before it: a cycle
slot is carried over untouched or zeroed, and one given up is zeroed. `ChainInv` says
this of the plan in the ring over the running one, and of the build about to be pushed
over the one in the ring, since a build may begin before its predecessor is adopted;
`PoolInv` says that a slot is silent or holds the sound of the port that owns it in
the *running* plan. That a refusal means a full region is an injection from the slots
to the delayed ports of old and new.

**The condensation** (`CableFusionProofs`). The argument is Tarjan's, on the iterative
loop as the code has it. Nodes on the stack are numbered in their order there, the
work path is a path of cables through it, and each node of the stack reaches, and is
reached from, the node of the path at or below it (`Connected`). `Lowlinks` says that
a lowlink names a node that is reached, and bounds from below the number of every
stack node that the cables followed so far, out of that node's segment, lead to; it is
what must be climbed to the parent when a child is done. `ClosedRight` says that no
cable leads out of the components closed so far: so when a node's lowlink is its own
number, what lies above it on the stack is closed together and is its component. The
order then is total (`RankFacts`: counting what runs before a node is a bijection to
positions), the fused cables are those that close no loop (`FusedRight`), and with
both `TickInv` dates every half of every slot: a port that has been written this tick
holds this tick's value.

**The clock** (`AudioClockProofs`). That the two halves agree is a fact about the
moment of the comparison, and not inductive: an attempt holds data it has not yet
vouched for. `ClockInv` (`WriterOK` and `ReaderOK`) says what each half of an attempt
may be, given what the writer has still to store: the payload is that of the sequence
when the sequence is even, data loaded under a sequence that still stands are of its
publication, and a sequence never goes back. When the second load finds the first
one's sequence, nothing was stored in between. The refinement maps the abstract anchor
to half the sequence; an even store is `Publish`, the first load is `Look`, the
comparison that agrees is `Return`, and all else stutters.

**Host controls** (`HostControlProofs`). `minted` records each id with the name and
kind it was given out for. The invariant has three parts. `RegistryInv`: ids issued
are below `next_id`, and every live entry and every tombstone is backed by such a
record and holds no other control's value. `DiffInv`, on how far an apply has come:
the names already applied are live with their new kind and slot. `RoutedInv`: every
entry of the table in force, and of one on the ring, is backed by a record of a
control of its plan's patch and leads to that control's slot, and no control of the
patch lacks one. The arms of `apply_descriptor` each keep the first two; a table is
right because it is built only when no name is left. Values are recorded one by one after
that; `RecordingInv` says that the names still to come are live, so that each value lands
under its own id.

That the registry forgets no more than it has to (`RegistrySound`) is about its whole
history. `MemoryInv` says where the history still is: until more controls, a name and
a kind each, were declared than the table has room for, the id of each is held by the
live entry or the tombstone of its name, unless the name was also declared as another
kind. Eviction sets in only when live entries to be buried and tombstones together
exceed the table; all of them are different controls (a name that is both live and
buried is so under two kinds), and so that many were declared (`Overflows`). What
eviction leaves is counted in `KeptFits`: the tombstones are totally ordered by age,
and those that stay have the ranks of the young.

**Taps** (`TapObserverProofs`). `OwnHistory` is not inductive: it says nothing of the
blocks still on the ring, nor of which tap a slot has. `AudioInv` dates the blocks: the
stamp of each is the generation of its first sample, since adoption resets neither a block
begun nor its stamp. `Wired` says that the slots are those of the manifest in force. A
block that passes the filter of `process_block` has the generation in force, and its lanes
then hold what its slots' taps wrote (`LaneFacts`); or it was begun before the first plan,
and then all it holds for any slot straddles; or it comes before the first manifest, and no
slot has a processor. For that last case the cells need `Quiet`: a block may have been seen
of a generation the observer has no manifest of yet, and nothing was heard in it. `LoopInv`
keeps the replans on their way newer than the manifest in force, so a manifest never
returns. `HistoriesKept` follows from `RewiredFacts`, what `apply_manifest` makes of the
slots, and from `OneSlot`: a patch lists a tap once, so the processor found by name is the
tap's only one.

**MIDI** (`MidiIngestProofs`). `TimeInv` keeps three counts in step: samples ticked,
callbacks begun and the wall clock; from it, an anchor is ahead of the sample that plays
by at most a callback, or by the delay of the stream's start if that is longer. `StampInv`
carries this to the messages: a stamp is ahead of its push by that and the look-ahead.
`WaitInv` says why a message still waits: either no drain has come since (`Fresh`, it was
pushed no earlier than the callback that drained last began), or the head of the queue is
for a window not yet reached; and who waits behind the head was pushed after it. So a wait is
bounded by the drain to come or by the stamp of the head, and two cases of arithmetic make it
`LatencyBounded`. The attempt to prove a simpler bound, two callbacks with look-ahead and
lateness, failed for a good reason, and TLC then gave the counterexamples: a sub-block
longer than a callback is drained less often than every callback, and a stream that
starts late leaves the first anchor too far ahead. The bound now names both; lateness is
not in it.

`FiledInv` is about the messages themselves: the threads, the queue with its look-ahead
slot, the scratch, `seen` and `queue_dropped` are `Apart`, and what they hold is `1..received`;
inside the scratch a message is once (`Alone`). A turn of the loop writes what was carried
over and then what was drained, both folds of `Write`, so what it makes of the scratch cannot
be read off its definition. `FilesExists` and `FilesByStep` unroll such a fold into a chain of
scratches, one write apart, by way of `CountUp`: a set of naturals that holds 0 and, with each
number, the next has no least number missing. `WriteFiles` and `WritePunctual` are the step of
the chain: a write puts its message into the first row with room, the carry-over or the drop
count, disturbs no other, and no row gets a message before its sample. The ticks then take
rows whole (`CutFacts`, `TakenFacts`; `FlattenSeq` is unrolled the same way). `NothingLost`
and `NeverEarly` follow.

`OrderInv` is about two messages of a port of which the earlier one is stamped no later
(`Leads`): if both are in rows, the earlier is in an earlier row or before it in the same
(`Sooner`), and it is not in the carry-over while the other is in a row (`Ordered`); what is
queued was received after what is in the scratch, and what a thread handles after both. That
is not enough to write one more message: it could find room in a row before one that had
to spill. While a sub-block is filled, therefore, `Snug` says that every row between a
message's offset and its place is full, all rows from the offset on for one carried over. A
full row stays full until the sub-block ends, so `Snug` starts anew with the cleared rows and is
no part of `OrderInv`. `WriteOrders` is the step of the chain: a message that is received after all
of its port in the scratch (`Latest`) leaves it `Ordered` and `Snug`. Because the carry-over
is written first, at offset 0, and then the queue, everything written is `Latest` in turn.
`FlattenEntries` also says in which order the ticks hand the rows over (`InTurn`), and
`NoneOvertakes` puts the two together.

**The song** (`SongSequencerProofs`). `SongInv` says of each player what
`PlayersAccounted` says, and that its lanes have their shape. A tick that rises counts
afresh. Between ticks a player subtracts what ended in this sample, which is exact because
a sample ends slides and rolls and begins none (`SlideStep`, `RollStep`): what goes on
is a subset of what was counted, and `CountedDown` is about its cardinality. A trigger that
is up was raised in the same step by a sub-event that was due, which is what
`clear_needed` records. None of it looks into the pattern: `ApplyStep` holds of any effect
and `SteppedLanes` of any bank index, those of a song no longer loaded included.

`PlayersFollowSong` is about a step, and needs what the code carries between steps in
`banks` and `bank_indices_dirty`. `FollowInv` says that the indices are those of the row
when they are not `dirty` and the song has the row (`Clean`), and that each player's
`prev_trigger` is the tick that was on the bus. `Tracks` is the argument: an operation of
the core may leave the indices behind only where it marks them or leaves row and mark
alone, and this composes along `tick_free` and `tick_host` (`TracksTwice`) up to
`fill_bank_indices`, which makes them right again (`FilledClean`). A reload marks them
whenever it brings data or parameters; where it brings neither, the song is the old one.
That a tick finds its row in the song at all is `RowLengths`, `RowsOfBarRange` and
`AdvancedCounts`. For a first tick the proof would not go through, and the state it was
left with is one the code reaches: hence the exception.

`ReloadProofs` holds the lemmas on slots, the planner's invariant, the chain, the
refinement to `HotReload`, and adoption step by step, which uses them all. Each of
the other modules is about one component.

## 7. What is only model-checked, and what is not modelled

TLC only: liveness (`PushedIsAdopted`, `EvictedAreDropped`, `DropReturns`,
`MetersReturn`, `ReadReturns`, `RoutingCatchesUp`, `SongComesRound`), since fairness
is about ENABLED, which the prover does not handle; and `RollsComplete` and `SlidesLand` of
`SongSequencer`, which depend on the tick times of the sequencer and the effects of all
the cells of a row together. `StepEffects` defines its walk as a recursive function over
the cells of a row; what it computes for every row is an induction over data and is not
proved.

Left out of the modelled parts: sample values, the transport and audio-input rows of a tick;
the connectivity and port layout of a module beyond "its settings changed";
`InstanceId` and generation wrap-around, which no session reaches; the
halt's text and its snapshot, which nothing decides by. Displaced values are counted, not named: what
matters of them is where they are freed. Of taps, spectrum and scope buffers and the drop
counters; of MIDI, the opening of ports, the parsing of bytes, and ticks that are halted and
take no row; of host controls, ramps and smoothing, module paths, sidecars and presets (section 3) and the
GUI; of the tracker, the second control voltage, values along a ramp, ticks of a fraction of
a sample or of none, and the modules of the sequencer family that hold no song.

Not modelled at all: the table in section 1 and `components`. DSP, rendering and
tooling have no protocol to check; they are most of the repository. Parsing, expansion,
descriptor binding and the language server are sequential transformations from input to
output, well served by the golden tests beside them. The terminal player's recorder and file
watcher, the CPU monitor and the loading of plugins are I/O.
