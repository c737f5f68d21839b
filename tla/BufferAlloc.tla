----------------------------- MODULE BufferAlloc -----------------------------
(***************************************************************************)
(* Cable slots across reloads: allocate_buffers and the cable pool.        *)
(*                                                                         *)
(* Every output port writes one cable slot.  A port all of whose readers   *)
(* run after it in the same tick lives in the scratch region, which is     *)
(* laid out anew by every plan; a port with a delayed reader (a feedback   *)
(* edge) lives in the cycle region, in a pair of values written in turn,   *)
(* and keeps its slot from plan to plan so that the feedback it carries    *)
(* survives the swap.  The planner walks the output ports in execution     *)
(* order, one step per port here, then gives back the slots of ports that  *)
(* are gone; the plan lists the slots the audio thread must silence.       *)
(*                                                                         *)
(* Ports stand for (node, output position) keys, one output per node.      *)
(* Slots are counted from zero within their region.                        *)
(***************************************************************************)
EXTENDS Integers, Sequences, FiniteSets, SequencesExt

CONSTANTS
  Ports,         \* producer port keys
  Silence,       \* the zero cable value
  ReservedSlots, \* scratch slots of the backplane and the sinks
  ScratchCap,    \* min(pool_capacity, SCRATCH_CAPACITY)
  CycleCapacity, \* CYCLE_CAPACITY
  MaxPlans       \* bound: builds attempted

ASSUME FinitePorts == IsFiniteSet(Ports)
ASSUME SilenceAssumption == Silence \notin Ports
ASSUME RegionAssumption ==
  /\ ReservedSlots \in Nat /\ ScratchCap \in Nat /\ CycleCapacity \in Nat
  /\ ReservedSlots <= ScratchCap
ASSUME MaxPlansAssumption == MaxPlans \in Nat

VARIABLES
  output_buf, \* port -> its slot, of the last plan built
  freelist,   \* cycle_freelist of the last plan built
  hwm,        \* cycle_hwm of the last plan built
  stage,      \* "idle", "sweep", "reconcile" or "push"
  patch,      \* port -> has a delayed reader, of the patch being built
  todo,       \* sweep: ports not placed yet, in execution order
  gone,       \* reconcile: old ports not reconciled yet
  draft,      \* the allocation under construction
  builds,     \* builds attempted
  plan_ring,  \* the plan ring, of capacity one
  running,    \* port -> its slot, of the plan the audio thread runs
  cycle_pool, \* cycle slot -> pair of values
  wi          \* the half written by this tick

plannerVars == <<output_buf, freelist, hwm>>
draftVars   == <<stage, patch, todo, gone, draft, builds>>
audioVars   == <<running, cycle_pool, wi>>
vars        == <<output_buf, freelist, hwm, stage, patch, todo, gone, draft, builds,
                 plan_ring, running, cycle_pool, wi>>

-----------------------------------------------------------------------------
CycleIndices   == 0 .. CycleCapacity - 1
ScratchIndices == ReservedSlots .. ScratchCap - 1
Slots    == [region : {"cycle"}, index : CycleIndices]
              \cup [region : {"scratch"}, index : ScratchIndices]
Cycle(i)   == [region |-> "cycle", index |-> i]
Scratch(i) == [region |-> "scratch", index |-> i]
EmptyMap == [x \in {} |-> x]
PartialMaps(S, T) == UNION {[D -> T] : D \in SUBSET S}

\* The cycle slots a port map occupies, and the ports that occupy one.
CyclePorts(buf) == {p \in DOMAIN buf : buf[p].region = "cycle"}
CycleUsed(buf)  == {buf[p].index : p \in CyclePorts(buf)}

\* f with p mapped to slot.
Assign(f, p, slot) == [q \in DOMAIN f \cup {p} |-> IF q = p THEN slot ELSE f[q]]

\* prev_alloc.output_buf.get(&key) is a cycle slot.
HadCycleSlot(p) == p \in CyclePorts(output_buf)

\* The locals of a build outside of one.
NoDraft == [output_buf |-> EmptyMap, freelist |-> <<>>, hwm |-> 0,
            scratch_hwm |-> ReservedSlots, freed |-> {}, to_zero |-> {}]

\* The build returns, with a plan or an error; its locals are gone.
EndBuild == stage' = "idle" /\ patch' = EmptyMap /\ todo' = <<>> /\ draft' = NoDraft

-----------------------------------------------------------------------------
Init ==
  /\ output_buf = EmptyMap /\ freelist = <<>> /\ hwm = 0
  /\ stage = "idle" /\ patch = EmptyMap /\ todo = <<>> /\ gone = {} /\ builds = 0
  /\ draft = NoDraft
  /\ plan_ring = <<>>
  /\ running = EmptyMap
  /\ cycle_pool = [i \in CycleIndices |-> [h \in {0, 1} |-> Silence]]
  /\ wi = 0

\* allocate_buffers starts: copies of the cycle freelist and high-water mark,
\* an empty scratch region.
Begin ==
  /\ stage = "idle" /\ builds < MaxPlans
  /\ patch' \in PartialMaps(Ports, BOOLEAN)
  /\ todo' \in SetToSeqs(DOMAIN patch')
  /\ draft' = [NoDraft EXCEPT !.freelist = freelist, !.hwm = hwm]
  /\ builds' = builds + 1
  /\ stage' = "sweep"
  /\ UNCHANGED <<gone, plannerVars, plan_ring, audioVars>>

\* Mutant: a surviving port is zeroed like a new one.
KeepZeroed(p) ==
  [draft EXCEPT !.output_buf = Assign(@, p, output_buf[p]),
                !.to_zero = @ \cup {output_buf[p]}]

\* A delayed port that had a cycle slot keeps it.
Keep(p) == [draft EXCEPT !.output_buf = Assign(@, p, output_buf[p])]

\* A delayed port without one takes the last slot freed ...
Reuse(p) ==
  LET slot == Cycle(Last(draft.freelist))
  IN  [draft EXCEPT !.output_buf = Assign(@, p, slot), !.to_zero = @ \cup {slot},
                    !.freelist = Front(@)]

\* ... or, when none is free, the slot at the high-water mark.
Grow(p) ==
  [draft EXCEPT !.output_buf = Assign(@, p, Cycle(draft.hwm)), !.hwm = @ + 1,
                !.to_zero = @ \cup {Cycle(draft.hwm)}]

\* A port that is not delayed takes the next scratch slot; a cycle slot it had
\* is freed and zeroed.
Compact(p) ==
  LET slot  == Scratch(draft.scratch_hwm)
      flips == HadCycleSlot(p)
  IN  [draft EXCEPT
         !.output_buf  = Assign(@, p, slot),
         !.scratch_hwm = @ + 1,
         !.freelist    = IF flips THEN Append(@, output_buf[p].index) ELSE @,
         !.freed       = IF flips THEN @ \cup {output_buf[p].index} ELSE @,
         !.to_zero     = @ \cup {slot} \cup (IF flips THEN {output_buf[p]} ELSE {})]

\* One port of the sweep is placed.
Place(new) ==
  /\ draft' = new
  /\ todo' = Tail(todo)
  /\ UNCHANGED <<stage, patch, gone, builds, plannerVars, plan_ring, audioVars>>

KeepPort ==
  /\ stage = "sweep" /\ todo # <<>>
  /\ patch[Head(todo)] /\ HadCycleSlot(Head(todo))
  /\ Place(Keep(Head(todo)))

ReuseSlot ==
  /\ stage = "sweep" /\ todo # <<>>
  /\ patch[Head(todo)] /\ ~HadCycleSlot(Head(todo))
  /\ draft.freelist # <<>>
  /\ Place(Reuse(Head(todo)))

GrowCycle ==
  /\ stage = "sweep" /\ todo # <<>>
  /\ patch[Head(todo)] /\ ~HadCycleSlot(Head(todo))
  /\ draft.freelist = <<>> /\ draft.hwm < CycleCapacity
  /\ Place(Grow(Head(todo)))

PlaceScratch ==
  /\ stage = "sweep" /\ todo # <<>>
  /\ ~patch[Head(todo)]
  /\ draft.scratch_hwm < ScratchCap
  /\ Place(Compact(Head(todo)))

\* BufferPoolExhausted: the draft is thrown away.
CycleExhausted ==
  /\ stage = "sweep" /\ todo # <<>>
  /\ patch[Head(todo)] /\ ~HadCycleSlot(Head(todo))
  /\ draft.freelist = <<>> /\ draft.hwm >= CycleCapacity
  /\ EndBuild
  /\ UNCHANGED <<gone, builds, plannerVars, plan_ring, audioVars>>

ScratchExhausted ==
  /\ stage = "sweep" /\ todo # <<>>
  /\ ~patch[Head(todo)]
  /\ draft.scratch_hwm >= ScratchCap
  /\ EndBuild
  /\ UNCHANGED <<gone, builds, plannerVars, plan_ring, audioVars>>

\* The sweep is over; the old ports are reconciled in hash order.
EndSweep ==
  /\ stage = "sweep" /\ todo = <<>>
  /\ gone' = DOMAIN output_buf
  /\ stage' = "reconcile"
  /\ UNCHANGED <<patch, todo, draft, builds, plannerVars, plan_ring, audioVars>>

\* Mutant: a slot the sweep already freed is freed again.
VacateTwice(slot) ==
  IF slot.region = "scratch" THEN [draft EXCEPT !.to_zero = @ \cup {slot}]
  ELSE [draft EXCEPT !.freelist = Append(@, slot.index),
                     !.freed    = @ \cup {slot.index},
                     !.to_zero  = @ \cup {slot}]

\* Mutant: a vacated cycle slot is zeroed but never given back.
VacateLeaks(slot) == [draft EXCEPT !.to_zero = @ \cup {slot}]

\* A slot no port of the new layout uses is zeroed; a cycle slot that the sweep
\* has not freed already goes to the freelist.
Vacate(slot) ==
  IF slot.region = "scratch" THEN [draft EXCEPT !.to_zero = @ \cup {slot}]
  ELSE IF slot.index \in draft.freed THEN draft
  ELSE [draft EXCEPT !.freelist = Append(@, slot.index),
                     !.freed    = @ \cup {slot.index},
                     !.to_zero  = @ \cup {slot}]

Reconcile ==
  /\ stage = "reconcile"
  /\ \E p \in gone :
       /\ gone' = gone \ {p}
       /\ draft' = IF output_buf[p] \in Range(draft.output_buf) THEN draft
                   ELSE Vacate(output_buf[p])
  /\ UNCHANGED <<stage, patch, todo, builds, plannerVars, plan_ring, audioVars>>

\* The rest of the build succeeds: the planner's state is replaced, and the
\* plan is ready to be pushed.
Commit ==
  /\ stage = "reconcile" /\ gone = {}
  /\ output_buf' = draft.output_buf
  /\ freelist' = draft.freelist
  /\ hwm' = draft.hwm
  /\ stage' = "push"
  /\ UNCHANGED <<patch, todo, gone, draft, builds, plan_ring, audioVars>>

\* The rest of the build fails: the planner keeps its state.
Abandon ==
  /\ stage = "reconcile" /\ gone = {}
  /\ EndBuild
  /\ UNCHANGED <<gone, builds, plannerVars, plan_ring, audioVars>>

\* push_blocking finds room in the plan ring.
Push ==
  /\ stage = "push" /\ plan_ring = <<>>
  /\ plan_ring' = <<[to_zero |-> draft.to_zero, ports |-> draft.output_buf]>>
  /\ EndBuild
  /\ UNCHANGED <<gone, builds, plannerVars, audioVars>>

-----------------------------------------------------------------------------
(* The audio thread.                                                        *)

\* Mutant: only the half about to be written is zeroed.
ZeroedHalf(to_zero) ==
  [i \in CycleIndices |->
     IF Cycle(i) \in to_zero THEN [cycle_pool[i] EXCEPT ![wi] = Silence]
     ELSE cycle_pool[i]]

\* Both halves of every listed cycle slot are silenced.
Zeroed(to_zero) ==
  [i \in CycleIndices |->
     IF Cycle(i) \in to_zero THEN [h \in {0, 1} |-> Silence] ELSE cycle_pool[i]]

\* The cycle pool after the ports in `ran` wrote their slots.
Written(ran) ==
  [i \in CycleIndices |->
     IF \E p \in ran : running[p] = Cycle(i)
     THEN LET p == CHOOSE q \in ran : running[q] = Cycle(i)
          IN  [cycle_pool[i] EXCEPT ![wi] = p]
     ELSE cycle_pool[i]]

Adopt ==
  /\ plan_ring # <<>>
  /\ cycle_pool' = Zeroed(Head(plan_ring).to_zero)
  /\ running' = Head(plan_ring).ports
  /\ plan_ring' = <<>>
  /\ UNCHANGED <<wi, plannerVars, draftVars>>

\* One tick: every module runs and writes its ports into this tick's half, none
\* if the engine is halted, some if one of them panics; the halves swap roles
\* either way.
Tick ==
  /\ \E ran \in SUBSET DOMAIN running : cycle_pool' = Written(ran)
  /\ wi' = 1 - wi
  /\ UNCHANGED <<running, plannerVars, draftVars, plan_ring>>

Sweep == KeepPort \/ ReuseSlot \/ GrowCycle \/ PlaceScratch
           \/ CycleExhausted \/ ScratchExhausted

Next ==
  \/ Begin \/ Sweep \/ EndSweep \/ Reconcile \/ Commit \/ Abandon \/ Push
  \/ Adopt \/ Tick

Spec == Init /\ [][Next]_vars

-----------------------------------------------------------------------------
(* Properties.                                                              *)

Values == {Silence} \cup Ports

\* Every variable holds a value of its type.
TypeOK ==
  /\ output_buf \in PartialMaps(Ports, Slots)
  /\ freelist \in Seq(CycleIndices)
  /\ hwm \in 0 .. CycleCapacity
  /\ stage \in {"idle", "sweep", "reconcile", "push"}
  /\ patch \in PartialMaps(Ports, BOOLEAN)
  /\ todo \in Seq(Ports)
  /\ gone \in SUBSET Ports
  /\ draft \in [output_buf : PartialMaps(Ports, Slots), freelist : Seq(CycleIndices),
                hwm : 0 .. CycleCapacity, scratch_hwm : ReservedSlots .. ScratchCap,
                freed : SUBSET CycleIndices, to_zero : SUBSET Slots]
  /\ builds \in 0 .. MaxPlans
  /\ plan_ring \in Seq([to_zero : SUBSET Slots, ports : PartialMaps(Ports, Slots)])
  /\ Len(plan_ring) <= 1
  /\ running \in PartialMaps(Ports, Slots)
  /\ cycle_pool \in [CycleIndices -> [{0, 1} -> Values]]
  /\ wi \in {0, 1}

\* The cycle region never leaks or shares a slot (allocate_buffers): below the
\* high-water mark every cycle slot belongs to exactly one port or is on the
\* freelist exactly once, after any number of flips between the regions.
CyclePartitioned ==
  /\ IsInjective(output_buf)
  /\ IsInjective(freelist)
  /\ CycleUsed(output_buf) \cap Range(freelist) = {}
  /\ CycleUsed(output_buf) \cup Range(freelist) = 0 .. hwm - 1

\* A delayed reader sees what its own producer wrote or silence, whatever slots
\* were reused while plans were built, pushed and adopted: no value of another
\* port leaks through a recycled cable ("Zeroing freed slots", ADR 0004).
NoForeignFeedback ==
  \A p \in DOMAIN running, h \in {0, 1} :
    running[p].region = "cycle" =>
      LET value == cycle_pool[running[p].index][h]
      IN  value \in {Silence, p}

\* A cycle slot no running port owns is silent, "even if it sits in the
\* freelist across several re-plans before being reused" (ADR 0004).
FreeSlotsSilent ==
  \A i \in CycleIndices :
    (\A p \in DOMAIN running : running[p] # Cycle(i)) =>
      \A h \in {0, 1} : cycle_pool[i][h] = Silence

\* Between the builds and the ticks that overlap them no cycle slot is leaked, shared
\* or left with a sound in it.
CycleSlots == TypeOK /\ CyclePartitioned /\ FreeSlotsSilent

\* A feedback cable present before and after a swap is continuous: same slot,
\* values untouched (ADR 0004, ADR 0072).
FeedbackContinuous ==
  [][Adopt => \A p \in DOMAIN running \cap DOMAIN running' :
       /\ running[p].region = "cycle"
       /\ running'[p].region = "cycle"
       => /\ running'[p] = running[p]
          /\ cycle_pool'[running[p].index] = cycle_pool[running[p].index]]_vars

\* A build is refused for want of a cycle slot only if the delayed ports of the
\* previous and of the new patch together outnumber the region: freed slots are
\* never lost to later builds.
ExhaustedOnlyIfFull ==
  [][CycleExhausted =>
       Cardinality(CyclePorts(output_buf) \cup {p \in DOMAIN patch : patch[p]})
         > CycleCapacity]_vars

=============================================================================
