----------------------------- MODULE TapObserver -----------------------------
(***************************************************************************)
(* How taps reach the meters: the generation-stamped tap blocks of the     *)
(* audio thread, the manifests the control thread publishes, and the       *)
(* observer thread that brings the two together for the UI.                *)
(*                                                                         *)
(* A reload gives its taps backplane slots in source order, so the same    *)
(* tap may sit in another slot of the next patch.  The plan travels to the *)
(* audio thread and the manifest to the observer through rings of their    *)
(* own, both stamped with the reload's generation; the audio thread stamps *)
(* each block of samples, and the observer drops blocks of another         *)
(* generation.  A sample is the generation of the plan that produced it    *)
(* and the tap whose trigger fires in it, if any; what a processor has     *)
(* computed is the set of sources it was fed from.                         *)
(***************************************************************************)
EXTENDS Naturals, Sequences, FiniteSets

CONSTANTS
  Tap, NoTap,
  Manifests,   \* the tap lists of the patches that are loaded, in source order
  MaxTaps,     \* MAX_TAPS: slots of the backplane
  Block,       \* TAP_BLOCK: samples in a block
  TapRing,     \* capacity of the tap ring, in blocks
  ReplanRing,  \* capacity of the replan ring
  BestEffort,  \* BOOLEAN: hosts may use push as well as push_blocking
  MaxReloads,  \* bound: reloads
  MaxFires     \* bound: samples in which a trigger fires

ASSUME TapAssumption ==
  /\ NoTap \notin Tap
  /\ \A m \in Manifests : m \in Seq(Tap) /\ Cardinality({m[i] : i \in DOMAIN m}) = Len(m)
  /\ {MaxTaps, Block, TapRing, ReplanRing} \subseteq Nat \ {0}
  /\ BestEffort \in BOOLEAN /\ MaxReloads \in Nat /\ MaxFires \in Nat

VARIABLES
  manifest,    \* manifest[g]: the tap list of reload g
  control,     \* the control thread: "idle", "blocking", "offering" or "publishing"
  plan_ring,   \* generations of the plans on their way (capacity 1)
  replans,     \* generations of the manifests on their way
  plan_gen,    \* generation of the plan in force, 0 before the first
  block,       \* samples of the block being filled
  stamp,       \* manifest_generation of that block
  tap_ring,    \* blocks the observer has not released
  observer,    \* the observer loop: "replans", "drain" or "blocks"
  batch,       \* blocks read_chunk took; they stay in the ring until all are done
  done,        \* of these, the blocks already processed
  obs_gen,     \* current_generation
  slots,       \* per slot, the processors of one tap or none
  meter,       \* per slot, the published scalar: the sources it was computed from
  led,         \* per slot, the trigger cell: the taps whose fires it holds
  fires,       \* number of samples with a fire so far
  seen,        \* history: generation of the last block that passed the filter
  fired,       \* history: taps whose fire was processed
  shown,       \* history: taps whose fire the UI claimed
  dropped,     \* history: taps whose unclaimed fire went with their slot
  lost_plans,  \* history: plans dropped by a full plan ring
  lost_manifests \* history: manifests dropped by a full replan ring

controlVars  == <<manifest, control, plan_ring, replans, lost_plans, lost_manifests>>
audioVars    == <<plan_gen, block, stamp, fires>>
loopVars     == <<observer, batch, done, obs_gen>>
surfaceVars  == <<slots, meter, led>>
historyVars  == <<seen, fired, shown, dropped>>
vars == <<controlVars, audioVars, tap_ring, loopVars, surfaceVars, historyVars>>

-----------------------------------------------------------------------------
Slot == 1..MaxTaps
Generation == 1..MaxReloads
latest == Len(manifest)

\* The tap that writes slot s under the plan of generation g.
TapAt(g, s) == IF g # 0 /\ s \in DOMAIN manifest[g] THEN manifest[g][s] ELSE NoTap

Sample == [gen : 0..MaxReloads, fire : Tap \cup {NoTap}]
Source == [tap : Tap, straddled : BOOLEAN]
NoProcessors == [tap |-> NoTap, heard |-> {}]

TypeOK ==
  /\ manifest \in UNION {[1..n -> Manifests] : n \in 0..MaxReloads}
  /\ control \in {"idle", "blocking", "offering", "publishing"}
  /\ plan_ring \in {<<>>} \cup {<<g>> : g \in Generation}
  /\ Len(replans) <= ReplanRing /\ \A i \in DOMAIN replans : replans[i] \in Generation
  /\ {plan_gen, stamp, obs_gen, seen} \subseteq 0..MaxReloads /\ fires \in 0..MaxFires
  /\ Len(block) < Block /\ \A i \in DOMAIN block : block[i] \in Sample
  /\ Len(tap_ring) <= TapRing
  /\ \A i \in DOMAIN tap_ring :
       /\ tap_ring[i].stamp \in 0..MaxReloads
       /\ Len(tap_ring[i].samples) = Block
  /\ observer \in {"replans", "drain", "blocks"}
  /\ batch <= Len(tap_ring) /\ done <= batch
  /\ slots \in [Slot -> [tap : Tap \cup {NoTap}, heard : SUBSET Source]]
  /\ meter \in [Slot -> SUBSET Source]
  /\ led \in [Slot -> SUBSET Tap]
  /\ fired \subseteq Tap /\ shown \subseteq Tap /\ dropped \subseteq Tap
  /\ lost_plans \subseteq Generation /\ lost_manifests \subseteq Generation

Init ==
  /\ manifest = <<>> /\ control = "idle" /\ plan_ring = <<>> /\ replans = <<>>
  /\ lost_plans = {} /\ lost_manifests = {}
  /\ plan_gen = 0 /\ block = <<>> /\ stamp = 0 /\ fires = 0
  /\ tap_ring = <<>>
  /\ observer = "replans" /\ batch = 0 /\ done = 0 /\ obs_gen = 0
  /\ slots = [s \in Slot |-> NoProcessors]
  /\ meter = [s \in Slot |-> {}] /\ led = [s \in Slot |-> {}]
  /\ seen = 0 /\ fired = {} /\ shown = {} /\ dropped = {}

-----------------------------------------------------------------------------
\* The control thread: a compiled patch takes the next generation.
Reload ==
  /\ control = "idle" /\ latest < MaxReloads
  /\ \E m \in Manifests : manifest' = Append(manifest, m)
  /\ control' \in {"blocking"} \cup (IF BestEffort THEN {"offering"} ELSE {})
  /\ UNCHANGED <<plan_ring, replans, lost_plans, lost_manifests,
                 audioVars, tap_ring, loopVars, surfaceVars, historyVars>>

PlanAccepted ==
  /\ control \in {"blocking", "offering"} /\ plan_ring = <<>>
  /\ plan_ring' = <<latest>>
  /\ control' = "publishing"
  /\ UNCHANGED <<manifest, replans, lost_plans, lost_manifests,
                 audioVars, tap_ring, loopVars, surfaceVars, historyVars>>

\* push ignores a full ring, and publishes the manifest all the same.
PlanDropped ==
  /\ control = "offering" /\ plan_ring # <<>>
  /\ lost_plans' = lost_plans \cup {latest}
  /\ control' = "publishing"
  /\ UNCHANGED <<manifest, plan_ring, replans, lost_manifests,
                 audioVars, tap_ring, loopVars, surfaceVars, historyVars>>

\* ReplanProducer::submit, whose result publish_manifest ignores.
Publish ==
  /\ control = "publishing"
  /\ IF Len(replans) < ReplanRing
       THEN replans' = Append(replans, latest) /\ UNCHANGED lost_manifests
       ELSE lost_manifests' = lost_manifests \cup {latest} /\ UNCHANGED replans
  /\ control' = "idle"
  /\ UNCHANGED <<manifest, plan_ring, lost_plans,
                 audioVars, tap_ring, loopVars, surfaceVars, historyVars>>

-----------------------------------------------------------------------------
\* The audio thread.
Adopt ==
  /\ plan_ring # <<>>
  /\ plan_gen' = plan_ring[1] /\ plan_ring' = <<>>
  /\ UNCHANGED <<manifest, control, replans, lost_plans, lost_manifests,
                 block, stamp, fires, tap_ring, loopVars, surfaceVars, historyVars>>

\* try_push_frame: a full ring drops the whole block.
Pushed(frame) == IF Len(tap_ring) < TapRing THEN Append(tap_ring, frame) ELSE tap_ring

\* The stamp is taken with the first sample of a block, and adoption does not reset it.
Stamped == IF block = <<>> THEN plan_gen ELSE stamp

\* A tick that is not halted appends one sample, and pushes a full block.
Tick ==
  /\ \E f \in {NoTap} \cup {TapAt(plan_gen, s) : s \in Slot} :
       LET filled == Append(block, [gen |-> plan_gen, fire |-> f])
       IN  /\ fires' = fires + (IF f = NoTap THEN 0 ELSE 1) /\ fires' <= MaxFires
           /\ stamp' = Stamped
           /\ IF Len(filled) = Block
                THEN /\ tap_ring' = Pushed([stamp |-> stamp', samples |-> filled])
                     /\ block' = <<>>
                ELSE block' = filled /\ UNCHANGED tap_ring
  /\ UNCHANGED <<controlVars, plan_gen, loopVars, surfaceVars, historyVars>>

-----------------------------------------------------------------------------
\* Mutant: every manifest builds fresh processors.
ProcessorsFresh(t) == [tap |-> t, heard |-> {}]

\* The observer thread.
\* Processors of a tap in force before, or fresh ones: reuse is by name.
Processors(t) ==
  LET kept == {s \in Slot : slots[s].tap = t}
  IN  IF kept = {} THEN [tap |-> t, heard |-> {}] ELSE slots[CHOOSE s \in kept : TRUE]

\* apply_manifest: descriptors past MAX_TAPS are skipped with a diagnostic.
Rewired(g) ==
  [s \in Slot |-> IF TapAt(g, s) = NoTap THEN NoProcessors ELSE Processors(TapAt(g, s))]

\* Mutant: apply_manifest does not clear.
ClearedNever(cells, wired) == cells

\* Only slots left without a processor are cleared.
Cleared(cells, wired) == [s \in Slot |-> IF wired[s].tap = NoTap THEN {} ELSE cells[s]]

\* drain_latest: the last manifest in the ring supersedes the others.
ApplyReplans ==
  /\ observer = "replans"
  /\ observer' = "drain"
  /\ IF replans = <<>>
       THEN UNCHANGED <<obs_gen, surfaceVars, dropped>>
       ELSE LET g == replans[Len(replans)]
            IN  /\ obs_gen' = g
                /\ slots' = Rewired(g)
                /\ meter' = Cleared(meter, slots')
                /\ led' = Cleared(led, slots')
                /\ dropped' = dropped \cup
                     UNION {led[s] : s \in {z \in Slot : slots'[z].tap = NoTap}}
  /\ replans' = <<>>
  /\ UNCHANGED <<manifest, control, plan_ring, lost_plans, lost_manifests,
                 audioVars, tap_ring, batch, done, seen, fired, shown>>

\* TapRingConsumer::drain: one chunk of what the ring holds now.
BeginDrain ==
  /\ observer = "drain"
  /\ batch' = Len(tap_ring) /\ done' = 0
  /\ observer' = IF tap_ring = <<>> THEN "replans" ELSE "blocks"
  /\ UNCHANGED <<controlVars, audioVars, tap_ring, obs_gen, surfaceVars, historyVars>>

\* Mutant: process_block without the filter.
PassesAny(g) == TRUE

\* Mutant: blocks of the observer's own generation are dropped as well.
PassesNewer(g) == obs_gen = 0 \/ g = 0 \/ g > obs_gen

\* The generation filter of process_block.
Passes(g) == obs_gen = 0 \/ g = 0 \/ g = obs_gen

\* What lane s of a block holds: sources and fires.  A sample straddles if
\* another plan recorded it than the block's first sample.
LaneSources(frame, s) ==
  {[tap |-> TapAt(x.gen, s), straddled |-> x.gen # frame.samples[1].gen] :
     x \in {y \in {frame.samples[i] : i \in 1..Block} : TapAt(y.gen, s) # NoTap}}
LaneFires(frame, s) ==
  {TapAt(x.gen, s) : x \in
     {y \in {frame.samples[i] : i \in 1..Block} : y.fire # NoTap /\ y.fire = TapAt(y.gen, s)}}

\* write_block of the peak and RMS meters: the new state depends on the old
\* one and on the lane.
Fed(p, frame, s) ==
  IF p.tap = NoTap THEN p ELSE [p EXCEPT !.heard = @ \cup LaneSources(frame, s)]

\* The scalar of a meter replaces what its cell held.
Published(cell, p) == IF p.tap = NoTap THEN cell ELSE p.heard

\* TriggerLed::scalar reports a fire once; without one the cell is left alone.
Latched(cell, frame, s) ==
  IF slots[s].tap = NoTap THEN cell ELSE cell \cup LaneFires(frame, s)

ProcessBlock ==
  /\ observer = "blocks" /\ done < batch
  /\ done' = done + 1
  /\ LET frame == tap_ring[done + 1]
     IN  IF Passes(frame.stamp)
           THEN /\ slots' = [s \in Slot |-> Fed(slots[s], frame, s)]
                /\ meter' = [s \in Slot |-> Published(meter[s], slots'[s])]
                /\ led' = [s \in Slot |-> Latched(led[s], frame, s)]
                /\ seen' = frame.stamp
                /\ fired' = fired \cup
                     UNION {LaneFires(frame, s) : s \in {z \in Slot : slots[z].tap # NoTap}}
           ELSE UNCHANGED <<surfaceVars, seen, fired>>
  /\ UNCHANGED <<controlVars, audioVars, tap_ring, observer, batch, obs_gen, shown, dropped>>

\* The chunk is released when its iterator is dropped.
EndDrain ==
  /\ observer = "blocks" /\ done = batch
  /\ tap_ring' = SubSeq(tap_ring, batch + 1, Len(tap_ring))
  /\ batch' = 0 /\ done' = 0
  /\ observer' = "replans"
  /\ UNCHANGED <<controlVars, audioVars, obs_gen, surfaceVars, historyVars>>

\* The UI claims the trigger light of a slot: take_trigger.
TakeTrigger ==
  /\ \E s \in Slot :
       /\ led[s] # {}
       /\ shown' = shown \cup led[s]
       /\ led' = [led EXCEPT ![s] = {}]
  /\ UNCHANGED <<controlVars, audioVars, tap_ring, loopVars, slots, meter, seen, fired, dropped>>

Control  == Reload \/ PlanAccepted \/ PlanDropped \/ Publish
Observe  == ApplyReplans \/ BeginDrain \/ ProcessBlock \/ EndDrain
Next == Control \/ Adopt \/ Tick \/ Observe \/ TakeTrigger

Spec == Init /\ [][Next]_vars

\* A push goes on until it returns, callbacks keep coming and the observer
\* thread keeps running; nobody has to reload, and no trigger has to fire.
Fairness ==
  /\ WF_vars(PlanAccepted \/ PlanDropped) /\ WF_vars(Publish)
  /\ WF_vars(Adopt) /\ WF_vars(Tick) /\ WF_vars(Observe)

LiveSpec == Spec /\ Fairness

-----------------------------------------------------------------------------
(* Properties *)

\* No stale-slot misinterpretation across reloads: whatever a processor has
\* been fed came from its own tap, however taps change slots and plans,
\* manifests and blocks overtake one another; the one exception is a block
\* that was being filled while its plan was replaced.
OwnHistory ==
  \A s \in Slot : \A h \in slots[s].heard : h.tap = slots[s].tap \/ h.straddled

\* A slot without a processor shows nothing, and once a block of the
\* observer's generation was processed every cell shows its own tap's meter.
CellsCurrent ==
  \A s \in Slot :
    /\ slots[s].tap = NoTap => meter[s] = {} /\ led[s] = {}
    /\ seen = obs_gen => meter[s] = slots[s].heard

\* A processed trigger fire reaches the UI or is still in its cell, unless a
\* reload took the cell away: LatestValues::take loses no event between polls.
FiresKept == fired \subseteq shown \cup dropped \cup UNION {led[s] : s \in Slot}

\* What the UI reads is what the observer has: no cell is stale and no fire lost.
CellsKept == TypeOK /\ CellsCurrent /\ FiresKept

\* A tap that is in the next manifest keeps its meters' state, whatever slot it moves to.
HistoryKept ==
  [][\A s, z \in Slot :
       slots[s].tap # NoTap /\ slots'[z].tap = slots[s].tap => slots[s].heard \subseteq slots'[z].heard]_vars

\* When reloads stop, the meters show the patch that plays, unless the last
\* manifest was dropped or the last manifest is of a plan that was.
MetersReturn ==
  <>[](seen = plan_gen \/ plan_gen \in lost_manifests \/ obs_gen \in lost_plans)

=============================================================================
