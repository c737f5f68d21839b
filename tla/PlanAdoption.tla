---------------------------- MODULE PlanAdoption ----------------------------
(***************************************************************************)
(* Plan adoption step by step: PatchProcessor::adopt_plan_with_meta, the   *)
(* cleanup ring and its thread, the halt state, and shutdown.              *)
(*                                                                         *)
(* The planner is PlanHandoff's; a host may also push best-effort, which   *)
(* drops the plan when the ring is full.  The audio callback pops a plan   *)
(* and works through it; whatever it displaces goes, one value at a time,  *)
(* into the cleanup ring, which a background thread drains at its own      *)
(* pace.  If the ring is full the value is dropped on the audio thread and *)
(* counted.  Module code may panic while a plan is adopted or while it     *)
(* ticks; the callback fence records a sticky halt.                        *)
(***************************************************************************)
EXTENDS PlanHandoff

CONSTANTS
  BestEffort,  \* TRUE: HostRuntime::push, FALSE: push_blocking
  CleanupRing, \* capacity of the cleanup ring
  MaxPanics    \* bound: panics of module code

ASSUME AdoptionAssumption ==
  /\ BestEffort \in BOOLEAN
  /\ CleanupRing \in Nat \ {0} /\ MaxPanics \in Nat

VARIABLES
  lost,          \* an adoption panicked: the processor kept an empty pool
  pc,            \* where adoption stands; "idle" between callbacks
  plan,          \* the plan being adopted, <<>> when idle
  todo,          \* slots the current loop has not reached
  outbox,        \* number of displaced values not yet offered to the cleanup ring
  handed,        \* number of values this adoption has offered to it
  previous_plan, \* a plan is kept until the next one replaces it
  cleanup_ring,  \* number of values in the cleanup ring
  halted,        \* the HaltState shared with the control thread
  panics,        \* panics so far
  stream,        \* the audio stream, which owns processor and cleanup_tx
  cleanup,       \* the cleanup thread: "drain", "check" or "exited"
  runtime        \* HostRuntime: "live", "joining" or "dropped"

adoptionVars == <<lost, pc, plan, todo, outbox, handed, previous_plan>>
faultVars    == <<halted, panics>>
hostVars     == <<stream, cleanup, runtime>>
controlVars  == <<plannerVars, generation, outgoing>>
allVars      == <<vars, adoptionVars, cleanup_ring, faultVars, hostVars>>

current == plan[1]

-----------------------------------------------------------------------------
AInit ==
  /\ Init
  /\ lost = FALSE
  /\ pc = "idle" /\ plan = <<>> /\ todo = {} /\ outbox = 0 /\ handed = 0
  /\ previous_plan = FALSE
  /\ cleanup_ring = 0
  /\ halted = FALSE /\ panics = 0
  /\ stream = "playing" /\ cleanup = "drain" /\ runtime = "live"

\* The control thread, until it shuts down.
Build ==
  /\ runtime = "live" /\ stream = "playing"
  /\ Compile \/ CompileFails
  /\ UNCHANGED <<adoptionVars, cleanup_ring, faultVars, hostVars>>

PushOk == Push /\ UNCHANGED <<adoptionVars, cleanup_ring, faultVars, hostVars>>

\* push on a full ring: the plan is dropped, the planner keeps its new state.
PushDropped ==
  /\ BestEffort
  /\ outgoing # <<>> /\ Len(plan_ring) >= PlanRing
  /\ generation' = generation + 1
  /\ outgoing' = <<>>
  /\ UNCHANGED <<plannerVars, plan_ring, audioVars,
                 adoptionVars, cleanup_ring, faultVars, hostVars>>

-----------------------------------------------------------------------------
(* The audio callback.                                                      *)

\* Mutant: the pointers survive into the stale state.
StalePointersKept == active

\* make_stale: the pointers are cleared before the pool may change.
StalePointers == {}

\* Mutant: the loop over slots breaks after the first.
RemainingNone(s) == {}

\* The slots a loop over `todo` has left after s.
Remaining(s) == todo \ {s}

\* The cleanup ring after one more value was offered: full, it stays as it is.
Offered == IF cleanup_ring < CleanupRing THEN cleanup_ring + 1 ELSE cleanup_ring

\* Mutant: the rebuild leaves the halt state alone.
HaltAfterRebuildKept == halted

\* rebuild resets the halt state its ReadyState owns, which is the shared one
\* until an adoption panics.
HaltAfterRebuild == IF lost THEN halted ELSE FALSE

\* receive_plan, and the state moved out of the processor with its pointers
\* cleared (make_stale).
Pop ==
  /\ stream = "playing" /\ pc = "idle" /\ plan_ring # <<>>
  /\ plan' = <<Head(plan_ring)>>
  /\ plan_ring' = Tail(plan_ring)
  /\ todo' = Head(plan_ring).tombstones
  /\ active' = StalePointers
  /\ pc' = "tombstone"
  /\ UNCHANGED <<controlVars, pool, adopted, lost, outbox, handed, previous_plan,
                 cleanup_ring, faultVars, hostVars>>

\* Offer one displaced value to the cleanup ring; if the ring is full, count it
\* in cleanup_overflow_count and drop it here.
HandOff ==
  /\ outbox > 0
  /\ cleanup_ring' = Offered
  /\ outbox' = outbox - 1
  /\ handed' = handed + 1
  /\ UNCHANGED <<vars, lost, pc, plan, todo, previous_plan,
                 faultVars, hostVars>>

\* The pool that indexing by slot finds: none once the processor lost it.
InBounds(slots) == slots = {} \/ ~lost

\* A live slot yields its module and its parameter state.
TombstoneSlot ==
  /\ pc = "tombstone" /\ outbox = 0 /\ InBounds(todo)
  /\ \E s \in todo :
       /\ todo' = Remaining(s)
       /\ pool' = Tombstone(pool, {s})
       /\ outbox' = IF s \in DOMAIN pool THEN 2 ELSE 0
  /\ UNCHANGED <<controlVars, plan_ring, active, adopted, lost, pc, plan, handed,
                 previous_plan, cleanup_ring, faultVars, hostVars>>

InstallModules ==
  /\ pc = "tombstone" /\ outbox = 0 /\ todo = {}
  /\ InBounds(DOMAIN current.new_modules)
  /\ pool' = Install(pool, current.new_modules)
  /\ todo' = DOMAIN current.updates
  /\ pc' = "update"
  /\ UNCHANGED <<controlVars, plan_ring, active, adopted, lost, plan, outbox, handed,
                 previous_plan, cleanup_ring, faultVars, hostVars>>

\* New parameters displace the module's parameter frame; new ports nothing.
UpdateModule ==
  /\ pc = "update" /\ outbox = 0 /\ InBounds(todo)
  /\ \E s \in todo :
       /\ todo' = Remaining(s)
       /\ pool' = Update(pool, Restrict(current.updates, {s}))
       /\ outbox' \in IF s \in DOMAIN pool THEN {0, 1} ELSE {0}
  /\ UNCHANGED <<controlVars, plan_ring, active, adopted, lost, pc, plan, handed,
                 previous_plan, cleanup_ring, faultVars, hostVars>>

\* rebuild resolves every pointer, resets the halt state its ReadyState owns,
\* and the new generation and plan are stored.
Rebuild ==
  /\ pc = "update" /\ outbox = 0 /\ todo = {}
  /\ current.active_indices \subseteq DOMAIN pool
  /\ active' = current.active_indices
  /\ halted' = HaltAfterRebuild
  /\ adopted' = current.generation
  /\ outbox' = IF previous_plan THEN 1 ELSE 0
  /\ previous_plan' = TRUE
  /\ pc' = "host_control"
  /\ UNCHANGED <<controlVars, plan_ring, pool, lost, plan, todo, handed,
                 cleanup_ring, panics, hostVars>>

\* The patch declares no host controls: the routing table is cleared in place.
NoHostControl ==
  /\ pc = "host_control" /\ outbox = 0
  /\ pc' = "monitor"
  /\ UNCHANGED <<vars, lost, plan, todo, outbox, handed, previous_plan,
                 cleanup_ring, faultVars, hostVars>>

\* The patch declares host controls: its routing table replaces the one the
\* processor owns, which the assignment frees in place; the emptied box is handed off.
HostControl ==
  /\ pc = "host_control" /\ outbox = 0
  /\ outbox' = 1
  /\ pc' = "monitor"
  /\ UNCHANGED <<vars, lost, plan, todo, handed, previous_plan,
                 cleanup_ring, faultVars, hostVars>>

\* Monitor metadata, if the plan came with any, goes to the monitor ring; full or
\* absent, to the cleanup ring.
MonitorMetadata ==
  /\ pc = "monitor" /\ outbox = 0
  /\ outbox' \in {0, 1}
  /\ pc' = "return"
  /\ UNCHANGED <<vars, lost, plan, todo, handed, previous_plan,
                 cleanup_ring, faultVars, hostVars>>

\* adopt_plan_with_meta returns; the vector of parameter frames it took out of
\* the plan is freed here, if any parameter changed.
Return ==
  /\ pc = "return" /\ outbox = 0
  /\ handed' = 0
  /\ plan' = <<>>
  /\ pc' = "idle"
  /\ UNCHANGED <<vars, lost, todo, outbox, previous_plan,
                 cleanup_ring, faultVars, hostVars>>

\* Mutant: the halt state left behind is the fresh one of ReadyState::empty().
UnwindForgetsHalt ==
  /\ pool' = EmptyMap
  /\ active' = {}
  /\ lost' = TRUE
  /\ halted' = FALSE
  /\ plan' = <<>> /\ todo' = {} /\ outbox' = 0 /\ handed' = 0
  /\ pc' = "idle"
  /\ UNCHANGED <<controlVars, plan_ring, adopted, previous_plan,
                 cleanup_ring, hostVars>>

\* The callback fence catches an unwind out of adoption: the pool and the plan
\* were freed by the unwind, ReadyState::empty() with a halt state of its own stays
\* behind, and the shared halt state is set.
Unwind ==
  /\ pool' = EmptyMap
  /\ active' = {}
  /\ lost' = TRUE
  /\ halted' = TRUE
  /\ plan' = <<>> /\ todo' = {} /\ outbox' = 0 /\ handed' = 0
  /\ pc' = "idle"
  /\ UNCHANGED <<controlVars, plan_ring, adopted, previous_plan,
                 cleanup_ring, hostVars>>

\* A module of the new plan panics in update_validated_parameters, set_ports or
\* receive_tracker_data; the last is called on modules that do not change, too.
ModulePanics ==
  /\ pc = "update" /\ outbox = 0
  /\ panics < MaxPanics
  /\ current.active_indices \cap DOMAIN pool # {}
  /\ panics' = panics + 1
  /\ Unwind

\* Adoption indexes a pool of capacity zero, or rebuild meets an empty slot.
AdoptionPanics ==
  /\ outbox = 0
  /\ \/ pc = "tombstone" /\ ~InBounds(todo)
     \/ pc = "tombstone" /\ todo = {} /\ ~InBounds(DOMAIN current.new_modules)
     \/ pc = "update" /\ ~InBounds(todo)
     \/ pc = "update" /\ todo = {} /\ ~(current.active_indices \subseteq DOMAIN pool)
  /\ panics' = panics
  /\ Unwind

\* Between adoptions the callback ticks; a module's process panics and the tick
\* fence records the halt.  A halted engine runs no module.
TickPanics ==
  /\ stream = "playing" /\ pc = "idle"
  /\ ~halted /\ active # {}
  /\ panics < MaxPanics
  /\ panics' = panics + 1
  /\ halted' = TRUE
  /\ UNCHANGED <<vars, adoptionVars, cleanup_ring, hostVars>>

Adoption ==
  \/ Pop \/ HandOff
  \/ TombstoneSlot \/ InstallModules \/ UpdateModule \/ Rebuild
  \/ NoHostControl \/ HostControl \/ MonitorMetadata \/ Return
  \/ AdoptionPanics

-----------------------------------------------------------------------------
(* The cleanup thread: pop until empty, leave if the producer is gone,     *)
(* else sleep and start over.                                              *)

CleanupPop ==
  /\ cleanup = "drain" /\ cleanup_ring > 0
  /\ cleanup_ring' = cleanup_ring - 1
  /\ UNCHANGED <<vars, adoptionVars, faultVars, hostVars>>

CleanupEmpty ==
  /\ cleanup = "drain" /\ cleanup_ring = 0
  /\ cleanup' = "check"
  /\ UNCHANGED <<vars, adoptionVars, cleanup_ring, faultVars, stream, runtime>>

\* is_abandoned is false: sleep and drain again.
CleanupAgain ==
  /\ cleanup = "check" /\ stream = "playing"
  /\ cleanup' = "drain"
  /\ UNCHANGED <<vars, adoptionVars, cleanup_ring, faultVars, stream, runtime>>

\* is_abandoned: the thread returns, and its consumer, the last owner of the
\* ring, drops what was pushed since the last pop.
CleanupExit ==
  /\ cleanup = "check" /\ stream = "stopped"
  /\ cleanup' = "exited"
  /\ cleanup_ring' = 0
  /\ UNCHANGED <<vars, adoptionVars, faultVars, stream, runtime>>

\* Mutants: the thread does not start over; ignores that the producer is gone.
CleanupThreadOnce == CleanupPop \/ CleanupEmpty \/ CleanupExit
CleanupThreadForever == CleanupPop \/ CleanupEmpty \/ CleanupAgain

CleanupThread == CleanupPop \/ CleanupEmpty \/ CleanupAgain \/ CleanupExit

-----------------------------------------------------------------------------
(* Shutdown.                                                                *)

\* SoundEngine::stop or plugin_deactivate: the stream and with it the
\* processor are dropped, between two callbacks.
StopStream ==
  /\ stream = "playing" /\ pc = "idle" /\ outgoing = <<>>
  /\ stream' = "stopped"
  /\ UNCHANGED <<vars, adoptionVars, cleanup_ring, faultVars, cleanup, runtime>>

\* HostRuntime::drop starts: it holds no processor and joins the cleanup thread.
DropRuntime ==
  /\ runtime = "live" /\ outgoing = <<>>
  /\ stream = "stopped"
  /\ runtime' = "joining"
  /\ UNCHANGED <<vars, adoptionVars, cleanup_ring, faultVars, stream, cleanup>>

\* Mutant: the thread is detached instead of joined.
JoinReturnsAtOnce ==
  /\ runtime = "joining"
  /\ runtime' = "dropped"
  /\ UNCHANGED <<vars, adoptionVars, cleanup_ring, faultVars, stream, cleanup>>

JoinReturns ==
  /\ runtime = "joining" /\ cleanup = "exited"
  /\ runtime' = "dropped"
  /\ UNCHANGED <<vars, adoptionVars, cleanup_ring, faultVars, stream, cleanup>>

-----------------------------------------------------------------------------
ANext ==
  \/ Build \/ PushOk \/ PushDropped
  \/ Adoption \/ ModulePanics \/ TickPanics
  \/ CleanupThread
  \/ StopStream \/ DropRuntime \/ JoinReturns

ASpec == AInit /\ [][ANext]_allVars

\* The callback and the cleanup thread keep running, push_blocking retries, a
\* join returns when the thread has ended.  Nothing forces a reload, a panic or
\* the end of the program.
AFairSpec ==
  /\ ASpec
  /\ WF_allVars(PushOk)
  /\ WF_allVars(Adoption)
  /\ WF_allVars(CleanupThread)
  /\ WF_allVars(JoinReturns)

-----------------------------------------------------------------------------
(* Properties.                                                              *)

ATypeOK ==
  /\ TypeOK
  /\ lost \in BOOLEAN
  /\ pc \in {"idle", "tombstone", "update", "host_control", "monitor", "return"}
  /\ plan \in Seq(Plans) /\ Len(plan) <= 1 /\ (plan = <<>> <=> pc = "idle")
  /\ todo \in SUBSET Slots
  /\ outbox \in 0 .. 2 /\ handed \in Nat
  /\ cleanup_ring \in 0 .. CleanupRing
  /\ panics \in 0 .. MaxPanics
  /\ {previous_plan, halted} \subseteq BOOLEAN
  /\ stream \in {"playing", "stopped"}
  /\ cleanup \in {"drain", "check", "exited"}
  /\ runtime \in {"live", "joining", "dropped"}

\* The raw module pointers of the last rebuild all point into occupied slots,
\* at every step of an adoption, after a dropped plan and after a panic
\* (PtrArray; make_stale clears the pointers before the pool changes).
NoDanglingPointers == active \subseteq DOMAIN pool

\* One adoption offers the cleanup ring at most two values per pool slot and
\* three more: the cleanup ring that never overflows from empty is that long.
SwapFill == handed <= 2 * PoolCapacity + 3

\* What no step of an adoption, no tick and no panic may break: the values keep
\* their types, no pointer dangles, and the ring is long enough for one swap.
AdoptionSafe == ATypeOK /\ NoDanglingPointers /\ SwapFill

\* When HostRuntime::drop has returned, everything evicted has been dropped,
\* whatever was pushed between the thread's last pop and its abandoned check.
JoinedMeansDrained == runtime = "dropped" => cleanup_ring = 0

\* "Only a full plan rebuild clears the halt flag" (ADR 0051): it is cleared in
\* the step that resolves the pointers and stores the generation of one and the
\* same plan, and by no tick, panic or half-done adoption.
HaltSticky ==
  [][halted /\ ~halted' =>
       /\ plan # <<>>
       /\ active' = current.active_indices
       /\ adopted' = current.generation]_allVars

\* A plan whose adoption runs to the end on a pool that was never lost leaves
\* the engine running.
ReloadClearsHalt == [][pc = "return" /\ pc' = "idle" /\ ~lost => ~halted']_allVars

\* Evicted modules and plans are eventually dropped by the cleanup thread.
EvictedAreDropped == cleanup_ring > 0 ~> cleanup_ring = 0

\* HostRuntime::drop returns: the cleanup thread it joins ends.
DropReturns == runtime = "joining" ~> runtime = "dropped"

=============================================================================
