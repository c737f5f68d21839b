----------------------------- MODULE HostControls -----------------------------
(***************************************************************************)
(* Host controls as DAW parameters: the registry that gives a control's    *)
(* name a parameter id for the session, the routing from ids to backplane  *)
(* slots that travels with each plan, the lanes of the audio thread, and   *)
(* the values a project saves.                                             *)
(*                                                                         *)
(* A patch declares controls by name, and the planner lays them out        *)
(* alphabetically: a name is its place in the alphabet, and a control's    *)
(* slot its rank in the patch.  The host addresses a control by the id it  *)
(* was told, while the main thread diffs the registry one descriptor after *)
(* the other, waits for room in the plan ring, and, when its queue of      *)
(* actions is empty, records defaults and saved values one by one.  A      *)
(* value is 0 for 0.0 and otherwise the name of the control it was meant   *)
(* for.  In a DAW the host keeps the project: ClapEnv has neither sidecar  *)
(* files nor presets, so values are saved by state_load only.              *)
(***************************************************************************)
EXTENDS Naturals, FiniteSets

CONSTANTS
  NameCount,      \* names, in alphabetical order
  Kind, Impulse,  \* control kinds, and those whose lane keeps no target
  Smoothed,       \* the kind of a lane no control owns
  Manifests,      \* the patches: each a function from its names to their kinds
  Broken,         \* a source that does not compile, or none
  SavedSets,      \* the sets of names a project holds values for
  Defaulted,      \* names whose declared default is not 0.0
  MaxTombstones,  \* max_tombstones
  MaxLoads        \* bound: loads, activations and project loads

Name == 1..NameCount

ASSUME ControlAssumption ==
  /\ NameCount \in Nat /\ Impulse \subseteq Kind /\ Smoothed \in Kind
  /\ \A m \in Manifests : /\ DOMAIN m \subseteq Name /\ \A n \in DOMAIN m : m[n] \in Kind
                          /\ Cardinality(DOMAIN m) <= MaxTombstones
  /\ Broken \notin Manifests /\ SavedSets \subseteq SUBSET Name
  /\ Defaulted \subseteq Name /\ MaxTombstones \in Nat /\ MaxLoads \in Nat

VARIABLES
  live,        \* name -> [id, kind, slot, value]
  tombstones,  \* name -> [id, kind, value, epoch]
  next_id, epoch,
  source,      \* dsl_source: the patch it compiles to
  saved,       \* names with a value in the controller's host_controls
  known,       \* names of the controller's host_control_manifest
  main,        \* the main thread: "idle", "removing", "applying", "queued" (compiled,
               \* with its queue of actions to go on with), "seeding" or "restoring"
  origin,      \* what it is busy with: "queue", "state" or "activate"
  work,        \* the manifest being applied
  rest,        \* its names not yet applied; names still to be recorded
  active,      \* the plugin has a processor
  plan_ring,   \* the plan on its way, if any
  layout,      \* manifest of the adopted plan
  routing,     \* host_control_param_to_channel: id -> slot
  lane_kind,   \* per slot
  target,      \* last_target, per slot
  minted       \* history: the [id, name, kind] of every id handed out

registryVars == <<live, tombstones, next_id, epoch, minted>>
controlVars  == <<source, saved, known>>
mainVars     == <<main, origin, work, rest>>
audioVars    == <<layout, routing, lane_kind, target>>
vars == <<registryVars, controlVars, mainVars, audioVars, active, plan_ring>>

-----------------------------------------------------------------------------
Slot == 1..NameCount
Empty == [n \in {} |-> 0]

\* Slots are the alphabetical positions of the declared names.
SlotIn(m, n) == Cardinality({k \in DOMAIN m : k <= n})

TypeOK ==
  /\ DOMAIN live \subseteq Name
  /\ \A n \in DOMAIN live :
       live[n] \in [id : 0..next_id, kind : Kind, slot : Slot, value : 0..NameCount]
  /\ DOMAIN tombstones \subseteq Name /\ Cardinality(DOMAIN tombstones) <= MaxTombstones
  /\ \A n \in DOMAIN tombstones :
       tombstones[n] \in [id : 0..next_id, kind : Kind, value : 0..NameCount, epoch : 1..epoch]
  /\ next_id \in Nat /\ epoch \in 0..MaxLoads
  /\ source \in Manifests \cup {Broken} /\ saved \subseteq Name /\ known \subseteq Name
  /\ main \in {"idle", "removing", "applying", "queued", "seeding", "restoring"}
  /\ origin \in {"queue", "state", "activate"}
  /\ work \in Manifests \cup {Empty} /\ rest \subseteq Name
  /\ active \in BOOLEAN
  /\ Cardinality(plan_ring) <= 1
  /\ layout \in Manifests \cup {Empty}
  /\ DOMAIN routing \subseteq 0..next_id /\ \A i \in DOMAIN routing : routing[i] \in Slot
  /\ \A x \in minted : x.id < next_id
  /\ lane_kind \in [Slot -> Kind] /\ target \in [Slot -> 0..NameCount]

Init ==
  /\ live = Empty /\ tombstones = Empty /\ next_id = 0 /\ epoch = 0 /\ minted = {}
  /\ source = Broken /\ saved = {} /\ known = {}
  /\ main = "idle" /\ origin = "queue" /\ work = Empty /\ rest = {}
  /\ active = FALSE /\ plan_ring = {}
  /\ layout = Empty /\ routing = Empty
  /\ lane_kind = [s \in Slot |-> Smoothed] /\ target = [s \in Slot |-> 0]

-----------------------------------------------------------------------------
(* The registry's diff.                                                     *)

Older(j, k) == \/ tombstones[j].epoch < tombstones[k].epoch
               \/ tombstones[j].epoch = tombstones[k].epoch /\ j < k

\* evict_tombstones_if_full: the tombstones among S that stay when the oldest
\* have made room for `needed' more.
KeptOf(S, needed) ==
  {k \in S : Cardinality({j \in S : Older(j, k)}) + MaxTombstones >= Cardinality(S) + needed}

Buried(entry, at) ==
  [id |-> entry.id, kind |-> entry.kind, value |-> entry.value, epoch |-> at]

\* apply begins: names the manifest lacks turn into tombstones.
RemoveNames ==
  /\ main = "removing"
  /\ LET removed == DOMAIN live \ DOMAIN work
         kept == IF removed = {} THEN DOMAIN tombstones
                 ELSE KeptOf(DOMAIN tombstones, Cardinality(removed))
     IN  tombstones' = [n \in kept \cup removed |->
                          IF n \in removed THEN Buried(live[n], epoch + 1) ELSE tombstones[n]]
  /\ live' = [n \in DOMAIN live \cap DOMAIN work |-> live[n]]
  /\ epoch' = epoch + 1
  /\ rest' = DOMAIN work
  /\ main' = "applying"
  /\ UNCHANGED <<next_id, minted, controlVars, origin, work, audioVars, active, plan_ring>>

Entry(id, n, value) == [id |-> id, kind |-> work[n], slot |-> SlotIn(work, n), value |-> value]

SetLive(n, entry) == live' = [k \in DOMAIN live \cup {n} |-> IF k = n THEN entry ELSE live[k]]

\* allocate_id, and the fresh entry under it.
Mint(n) ==
  /\ SetLive(n, Entry(next_id, n, 0))
  /\ next_id' = next_id + 1
  /\ minted' = minted \cup {[id |-> next_id, name |-> n, kind |-> work[n]]}

Bury(n, kept, tombstone) ==
  tombstones' = [k \in kept \cup {n} |-> IF k = n THEN tombstone ELSE tombstones[k]]

\* Mutant: the slot of the old layout is kept.
StaysLiveInPlace(n) ==
  /\ n \in DOMAIN live /\ live[n].kind = work[n]
  /\ UNCHANGED <<live, tombstones, next_id, minted>>

\* A name that stays keeps its id and value, and moves to its slot of the new layout.
StaysLive(n) ==
  /\ n \in DOMAIN live /\ live[n].kind = work[n]
  /\ SetLive(n, Entry(live[n].id, n, live[n].value))
  /\ UNCHANGED <<tombstones, next_id, minted>>

\* Another kind is another parameter: the old id is buried, over an older tombstone
\* of the name if there is one.
ChangesKind(n) ==
  /\ n \in DOMAIN live /\ live[n].kind # work[n]
  /\ Bury(n, KeptOf(DOMAIN tombstones, 1), Buried(live[n], epoch))
  /\ Mint(n)

\* Mutant: the kind of the tombstone is not compared.
IsRebornAnyKind(n) == n \in DOMAIN tombstones \ DOMAIN live

\* Mutant: a tombstone is never looked up.
IsRebornNever(n) == FALSE

IsReborn(n) == n \in DOMAIN tombstones \ DOMAIN live /\ tombstones[n].kind = work[n]

Reborn(n) ==
  /\ IsReborn(n)
  /\ SetLive(n, Entry(tombstones[n].id, n, tombstones[n].value))
  /\ tombstones' = [k \in DOMAIN tombstones \ {n} |-> tombstones[k]]
  /\ UNCHANGED <<next_id, minted>>

\* A new name, or one whose tombstone is of another kind and stays.
Added(n) ==
  /\ n \notin DOMAIN live /\ ~ IsReborn(n)
  /\ IF n \in DOMAIN tombstones
       THEN Bury(n, KeptOf(DOMAIN tombstones \ {n}, 1), tombstones[n])
       ELSE UNCHANGED tombstones
  /\ Mint(n)

\* apply_descriptor, in the order of the manifest.
ApplyDescriptor ==
  /\ main = "applying"
  /\ \E n \in rest :
       /\ \A k \in rest : n <= k
       /\ StaysLive(n) \/ ChangesKind(n) \/ Reborn(n) \/ Added(n)
       /\ rest' = rest \ {n}
  /\ UNCHANGED <<epoch, controlVars, main, origin, work, audioVars, active, plan_ring>>

-----------------------------------------------------------------------------
(* The main thread: the controller's actions and ClapEnv.                   *)

\* build_routing: the registry's ids and slots.
Routing == [i \in {live[n].id : n \in DOMAIN live} |->
              live[CHOOSE n \in DOMAIN live : live[n].id = i].slot]

\* A patch without host controls travels without routing.
Routed(plan) == IF DOMAIN plan.layout = {} THEN Empty ELSE plan.routing

\* Lane kinds follow the adopted layout; without host controls they stay as they were.
LaneKinds(m) ==
  IF DOMAIN m = {} THEN lane_kind
  ELSE [s \in Slot |-> IF \E n \in DOMAIN m : SlotIn(m, n) = s
                         THEN m[CHOOSE n \in DOMAIN m : SlotIn(m, n) = s]
                         ELSE Smoothed]

\* adopt_plan_with_meta.
Adopts(plan) ==
  /\ layout' = plan.layout
  /\ routing' = Routed(plan)
  /\ lane_kind' = LaneKinds(plan.layout)

\* reconcile_host_controls_with_manifest.
Reconciled(values, names) == IF names = {} THEN values ELSE values \cap names

Compile(m, by) == main' = "removing" /\ origin' = by /\ work' = m /\ UNCHANGED rest

\* Loading a path, from the action queue: the source changes even where the compile
\* fails, and fails for certain without a runtime.  The queue may hold the next one.  The values of a
\* sidecar are not restored: ClapEnv::load_sidecar is the trait's, and finds none.
LoadPath(m) ==
  /\ main \in {"idle", "queued"} /\ epoch < MaxLoads
  /\ source' = m
  /\ IF active /\ m # Broken THEN Compile(m, "queue") ELSE UNCHANGED mainVars
  /\ UNCHANGED <<registryVars, saved, known, audioVars, active, plan_ring>>

\* state_load: the project's source and values, then Activate if there is a runtime.
StateLoad(m, values) ==
  /\ main = "idle" /\ epoch < MaxLoads
  /\ source' = m /\ saved' = Reconciled(values, known)
  /\ IF active /\ m # Broken THEN Compile(m, "state") ELSE UNCHANGED mainVars
  /\ UNCHANGED <<registryVars, known, audioVars, active, plan_ring>>

\* plugin_activate: a fresh processor; the registry is that of the session.
Activate ==
  /\ main = "idle" /\ ~ active /\ epoch < MaxLoads
  /\ active' = TRUE
  /\ IF source # Broken THEN Compile(source, "activate") ELSE UNCHANGED mainVars
  /\ UNCHANGED <<registryVars, controlVars, audioVars, plan_ring>>

\* plugin_deactivate drops the processor and the ring, then apply_deactivate.
Deactivate ==
  /\ main = "idle" /\ active
  /\ active' = FALSE /\ plan_ring' = {}
  /\ layout' = Empty /\ routing' = Empty
  /\ lane_kind' = [s \in Slot |-> Smoothed] /\ target' = [s \in Slot |-> 0]
  /\ known' = {}
  /\ UNCHANGED <<registryVars, source, saved, mainVars>>

\* Mutant: a full ring drops the plan, as push does.
PushOrDrop ==
  /\ main = "applying" /\ rest = {}
  /\ LET plan == [layout |-> work, routing |-> Routing]
     IN  IF origin = "activate" THEN Adopts(plan) /\ UNCHANGED plan_ring
         ELSE /\ plan_ring' = IF plan_ring = {} THEN {plan} ELSE plan_ring
              /\ UNCHANGED <<layout, routing, lane_kind>>
  /\ known' = DOMAIN work /\ saved' = Reconciled(saved, known')
  /\ main' = IF origin = "queue" THEN "queued" ELSE "idle"
  /\ UNCHANGED <<registryVars, source, origin, work, rest, target, active>>

\* push_blocking waits for room; then the compile's result is absorbed.  Activation
\* adopts its own plan, and only the action queue goes on to record values.
Push ==
  /\ main = "applying" /\ rest = {} /\ plan_ring = {}
  /\ LET plan == [layout |-> work, routing |-> Routing]
     IN  IF origin = "activate" THEN Adopts(plan) /\ UNCHANGED plan_ring
                                ELSE plan_ring' = {plan} /\ UNCHANGED <<layout, routing, lane_kind>>
  /\ known' = DOMAIN work /\ saved' = Reconciled(saved, known')
  /\ main' = IF origin = "queue" THEN "queued" ELSE "idle"
  /\ UNCHANGED <<registryVars, source, origin, work, rest, target, active>>

-----------------------------------------------------------------------------
(* Recording values.                                                        *)

\* Mutant: the live entry is found by the slot the event was routed to.
RecordedBySlot(e) ==
  [n \in DOMAIN live |-> IF e.id \in DOMAIN routing /\ live[n].slot = routing[e.id]
                           THEN [live[n] EXCEPT !.value = e.value] ELSE live[n]]

\* record_value: the live entry that holds the id.
Recorded(e) ==
  [n \in DOMAIN live |-> IF live[n].id = e.id THEN [live[n] EXCEPT !.value = e.value] ELSE live[n]]

\* A value for the control n, under the id it has by now.
ValueFor(n) == [id |-> live[n].id, value |-> n]

\* plugin_on_main_thread, once the queue is empty and if anything was compiled: the
\* entries there are by now.
StartSeeding ==
  /\ main = "queued"
  /\ main' = "seeding" /\ rest' = DOMAIN live
  /\ UNCHANGED live

\* In the order of ids, an entry whose value is 0.0 is given its default.
SeedDefault ==
  /\ main = "seeding"
  /\ \E n \in rest :
       /\ \A k \in rest : live[n].id <= live[k].id
       /\ live' = IF live[n].value = 0 /\ n \in Defaulted THEN Recorded(ValueFor(n)) ELSE live
       /\ rest' = rest \ {n}
  /\ UNCHANGED main

StartRestoring ==
  /\ main = "seeding" /\ rest = {}
  /\ main' = "restoring" /\ rest' = saved \cap DOMAIN live
  /\ UNCHANGED live

\* The controller's values, in the order of a hash map, over what is there.
RestoreValue ==
  /\ main = "restoring"
  /\ \E n \in rest : live' = Recorded(ValueFor(n)) /\ rest' = rest \ {n}
  /\ UNCHANGED main

EndRecording ==
  /\ main = "restoring" /\ rest = {}
  /\ main' = "idle"
  /\ UNCHANGED <<live, rest>>

Record ==
  /\ StartSeeding \/ SeedDefault \/ StartRestoring \/ RestoreValue \/ EndRecording
  /\ UNCHANGED <<tombstones, next_id, epoch, minted, controlVars, origin, work,
                 audioVars, active, plan_ring>>

-----------------------------------------------------------------------------
(* The audio thread, and the host's parameter events.                       *)

\* The host has the processor once plugin_activate has returned.
running == active /\ ~ (main # "idle" /\ origin = "activate")

\* The host sets a parameter it was told of, to 0.0 or to a value for that control.
HostEvent == [id : {x.id : x \in minted}, value : 0..NameCount]
Meant(e) == \E x \in minted : x.id = e.id /\ e.value \in {0, x.name}

\* The lanes after an event routed by `table': an impulse leaves no target.
Targets(table, kinds, e) ==
  IF e.id \in DOMAIN table /\ kinds[table[e.id]] \notin Impulse
    THEN [target EXCEPT ![table[e.id]] = e.value] ELSE target

AdoptPending ==
  \/ plan_ring = {} /\ UNCHANGED <<layout, routing, lane_kind>>
  \/ \E plan \in plan_ring : Adopts(plan)

\* plugin_process: a pending plan is adopted, then the block's events.  They reach the
\* lanes but not the registry.
Process ==
  /\ running
  /\ AdoptPending /\ plan_ring' = {}
  /\ \/ UNCHANGED target
     \/ \E e \in HostEvent : Meant(e) /\ target' = Targets(routing', lane_kind', e)
  /\ UNCHANGED <<registryVars, controlVars, mainVars, active>>

\* params_flush: events outside process, by the table of the adopted plan, also while
\* the main thread is at work.
Flush ==
  /\ running
  /\ \E e \in HostEvent :
       /\ Meant(e) /\ e.id \in DOMAIN routing
       /\ target' = Targets(routing, lane_kind, e)
       /\ live' = Recorded(e)
  /\ UNCHANGED <<tombstones, next_id, epoch, minted, controlVars, mainVars,
                 layout, routing, lane_kind, active, plan_ring>>

-----------------------------------------------------------------------------
Next ==
  \/ RemoveNames \/ ApplyDescriptor \/ Push \/ Record
  \/ Activate \/ Deactivate
  \/ \E m \in Manifests \cup {Broken} : LoadPath(m)
  \/ \E m \in Manifests \cup {Broken}, values \in SavedSets : StateLoad(m, values)
  \/ Process \/ Flush

Spec == Init /\ [][Next]_vars

\* The main thread gets on with what it has begun, and an active plugin is processed.
Fairness ==
  /\ WF_vars(RemoveNames \/ ApplyDescriptor \/ Push \/ Record)
  /\ WF_vars(Process)

LiveSpec == Spec /\ Fairness

-----------------------------------------------------------------------------
\* An id stands for one control, of one kind, for the whole session: an automation
\* lane is never rebound (StandardHostControlRegistry::apply).
IdsNeverRebound ==
  /\ \A x, y \in minted : x.id = y.id => x = y
  /\ \A n \in DOMAIN live : [id |-> live[n].id, name |-> n, kind |-> live[n].kind] \in minted
  /\ \A n \in DOMAIN tombstones :
       [id |-> tombstones[n].id, name |-> n, kind |-> tombstones[n].kind] \in minted

\* A control is given a second id only when more controls were declared than the
\* tombstone table remembers, or its name was also declared with another kind: a
\* removed control that comes back finds its automation.
OneIdPerControl ==
  \A x, y \in minted :
    (x # y /\ x.name = y.name /\ x.kind = y.kind) =>
      \/ Cardinality({<<z.name, z.kind>> : z \in minted}) > MaxTombstones
      \/ \E z \in minted : z.name = x.name /\ z.kind # x.kind

\* The registry stays within its table and forgets no more than it has to.
RegistrySound == TypeOK /\ OneIdPerControl

\* The audio thread's table takes an id to the slot the adopted plan gave the control
\* the id stands for, and leaves no control of the plan without an id, whatever the
\* registry has gone on to (the table travels with the plan).
RoutedToItsName ==
  /\ \A i \in DOMAIN routing :
       \E x \in minted : /\ x.id = i /\ x.name \in DOMAIN layout
                         /\ x.kind = layout[x.name] /\ routing[i] = SlotIn(layout, x.name)
  /\ \A n \in DOMAIN layout : \E i \in DOMAIN routing : routing[i] = SlotIn(layout, n)

\* What the host reads back for a control was meant for that control, also when a
\* flush under the old plan meets the registry of the new one (record_value).
RecordedIsOwn ==
  /\ \A n \in DOMAIN live : live[n].value \in {0, n}
  /\ \A n \in DOMAIN tombstones : tombstones[n].value \in {0, n}

\* After a compile the audio thread's table comes to agree with the registry, unless
\* the plugin is deactivated first.
RoutingCatchesUp ==
  (main = "applying") ~> (~ active \/ (main = "idle" /\ routing = Routing))

\* Controls keep their current value over a reload: no lane holds a value that was set
\* for another control.
HeardIsOwn ==
  \A n \in DOMAIN layout :
    layout[n] \notin Impulse => target[SlotIn(layout, n)] \in {0, n}
=============================================================================
