----------------------------- MODULE PlanHandoff -----------------------------
(***************************************************************************)
(* The hot-reload core: planner, plan ring and module pool.                *)
(*                                                                         *)
(* The control thread builds a plan for a patch against what it believes   *)
(* the audio thread's module pool holds: PlannerState keeps, for every     *)
(* node, its instance, and ModuleAllocState keeps which pool slot each     *)
(* instance occupies.  It then pushes the plan into a bounded ring,        *)
(* waiting while the ring is full (push_blocking, what both hosts use).    *)
(* The audio callback pops one plan per callback and applies it to the     *)
(* real pool: tombstone slots, install modules, update survivors, and      *)
(* resolve a pointer for every active slot.                                *)
(*                                                                         *)
(* Adoption is one action here, and cannot fail: RebuildResolves says so.  *)
(* PlanAdoption splits it into its steps and adds the best-effort push,    *)
(* panics, the cleanup ring, the halt state and shutdown.                  *)
(***************************************************************************)
EXTENDS Integers, Sequences, FiniteSets, SequencesExt

CONSTANTS
  NodeIds,      \* names of the nodes of a patch
  Kinds,        \* module type + shape + structural parameters of a node
  Settings,     \* realtime parameters and port bindings of a node
  PoolCapacity, \* slots of the audio thread's module pool
  PlanRing,     \* capacity of the plan ring
  MaxInstances, \* bound: instance ids that can be minted
  MaxReloads    \* bound: plans that can be pushed

ASSUME FiniteNodes == IsFiniteSet(NodeIds)
ASSUME CapacityAssumption == PoolCapacity \in Nat
ASSUME PlanRingAssumption == PlanRing \in Nat \ {0}
ASSUME BoundsAssumption == MaxInstances \in Nat /\ MaxReloads \in Nat

VARIABLES
  nodes,      \* PlannerState.nodes: node -> module it was given
  alloc,      \* ModuleAllocState
  next_id,    \* next InstanceId to mint
  generation, \* next_tap_generation: plans stamped so far
  outgoing,   \* the plan compile_only returned and push has not placed yet
  plan_ring,  \* the plan ring
  pool,       \* ModulePool: occupied slot -> module
  active,     \* slots whose pointers the last rebuild resolved
  adopted     \* tap_manifest_generation of the processor

plannerVars == <<nodes, alloc, next_id>>
ringVars    == <<generation, outgoing, plan_ring>>
audioVars   == <<pool, active, adopted>>
vars        == <<nodes, alloc, next_id, generation, outgoing, plan_ring,
                 pool, active, adopted>>

-----------------------------------------------------------------------------
Slots       == 0 .. PoolCapacity - 1
InstanceIds == 1 .. MaxInstances
Modules     == [id : InstanceIds, kind : Kinds, settings : Settings]
Patches     == UNION {[N -> [kind : Kinds, settings : Settings]] :
                        N \in SUBSET NodeIds}
EmptyMap    == [x \in {} |-> x]

\* Partial functions from a subset of S to T.
PartialMaps(S, T) == UNION {[D -> T] : D \in SUBSET S}

-----------------------------------------------------------------------------
(* The planner: which nodes survive, and where their modules live.          *)

\* Mutant: a node survives by its name alone.
SurvivorsByName(patch) == DOMAIN nodes \cap DOMAIN patch

\* Nodes classified Update: same node, same kind as in the running patch.
Survivors(patch) ==
  {n \in DOMAIN nodes \cap DOMAIN patch : nodes[n].kind = patch[n].kind}

\* Nodes classified Install.
Installed(patch) == DOMAIN patch \ Survivors(patch)

\* Mutant: instances are numbered from how many there are.
MintedIdsByCount(count) ==
  LET alive == Cardinality(DOMAIN nodes) IN alive + 1 .. alive + count

\* InstanceId::next, called `count` times.
MintedIds(count) == next_id .. next_id + count - 1

\* The graph with every node's instance decided; `minted` are the new ids.
Classify(patch, minted) ==
  [n \in DOMAIN patch |->
     [id       |-> IF n \in Survivors(patch) THEN nodes[n].id ELSE minted[n],
      kind     |-> patch[n].kind,
      settings |-> patch[n].settings]]

\* Mutant: slots come off the front of the freelist, whose end is cut off.
AcquiredFromFront(free, hwm, j) ==
  IF j <= Len(free) THEN free[j] ELSE hwm + (j - Len(free)) - 1

\* The j-th slot handed out by a diff: off the end of the freelist while it
\* lasts, then from the high-water mark up.
Acquired(free, hwm, j) ==
  IF j <= Len(free) THEN free[Len(free) + 1 - j] ELSE hwm + (j - Len(free)) - 1

\* ModuleAllocState::diff.  `dead` and `turn` are the iteration orders of the
\* two hash tables: the dead ids as a sequence, each new id's turn.
Diff(ids, dead, turn) ==
  LET free  == alloc.freelist \o [i \in DOMAIN dead |-> alloc.pool_map[dead[i]]]
      count == Cardinality(DOMAIN turn)
      reuse == IF count <= Len(free) THEN count ELSE Len(free)
  IN  [pool_map |-> [id \in ids |->
                       IF id \in DOMAIN alloc.pool_map
                       THEN alloc.pool_map[id]
                       ELSE Acquired(free, alloc.next_hwm, turn[id])],
       freelist |-> SubSeq(free, 1, Len(free) - reuse),
       next_hwm |-> alloc.next_hwm + (count - reuse)]

\* The pool as the planner sees it after planning `graph` with `pool_map`.
Mirror(graph, pool_map) ==
  [s \in {pool_map[graph[n].id] : n \in DOMAIN graph} |->
     graph[CHOOSE n \in DOMAIN graph : pool_map[graph[n].id] = s]]

\* Mutant: a module goes only into a slot that was free, not into one whose
\* module leaves with the same plan.
NewModulesSkipReused(before, after, survivors) ==
  [s \in DOMAIN after \ DOMAIN before |-> after[s]]

\* The slots of `after` whose module did not exist before.
NewModules(before, after, survivors) ==
  [s \in {t \in DOMAIN after : after[t].id \notin survivors} |-> after[s]]

\* build_draft and assemble: the delta from `before` to `after`.  The field
\* target is the pool the planner intends; the audio thread never sees it.
PlanFor(before, after, survivors, dead) ==
  [target         |-> after,
   generation     |-> 0,
   tombstones     |-> dead,
   new_modules    |-> NewModules(before, after, survivors),
   updates        |-> [s \in {t \in DOMAIN after :
                                /\ after[t].id \in survivors
                                /\ before[t].settings # after[t].settings}
                         |-> after[s].settings],
   active_indices |-> DOMAIN after]

-----------------------------------------------------------------------------
(* The audio thread: what adoption does to the pool.                        *)

Tombstone(p, slots) == Restrict(p, DOMAIN p \ slots)

Install(p, new) ==
  [s \in DOMAIN p \cup DOMAIN new |-> IF s \in DOMAIN new THEN new[s] ELSE p[s]]

\* Mutant: updates are never applied.
UpdateIgnored(p, new) == p

\* An update that names an empty slot is ignored.
Update(p, new) ==
  [s \in DOMAIN p |->
     IF s \in DOMAIN new THEN [p[s] EXCEPT !.settings = new[s]] ELSE p[s]]

Apply(p, plan) ==
  Update(Install(Tombstone(p, plan.tombstones), plan.new_modules), plan.updates)

-----------------------------------------------------------------------------
Init ==
  /\ nodes = EmptyMap
  /\ alloc = [pool_map |-> EmptyMap, freelist |-> <<>>, next_hwm |-> 0]
  /\ next_id = 1
  /\ generation = 0
  /\ outgoing = <<>>
  /\ plan_ring = <<>>
  /\ pool = EmptyMap
  /\ active = {}
  /\ adopted = 0

\* compile_only succeeds: the planner commits its new state and hands the plan
\* to push.
Compile ==
  \E patch \in Patches :
    LET installed == Installed(patch)
        count     == Cardinality(installed)
        minted_id == MintedIds(count)
    IN  /\ outgoing = <<>>
        /\ generation < MaxReloads
        /\ next_id + count - 1 <= MaxInstances
        /\ \E minted \in Bijection(installed, minted_id) :
             LET graph == Classify(patch, minted)
                 ids   == {graph[n].id : n \in DOMAIN graph}
                 gone  == DOMAIN alloc.pool_map \ ids
             IN  \E dead \in SetToSeqs(gone),
                    turn \in Bijection(minted_id, 1 .. count) :
                   LET diff == Diff(ids, dead, turn)
                   IN  /\ diff.next_hwm <= PoolCapacity
                       /\ nodes' = graph
                       /\ alloc' = diff
                       /\ outgoing' =
                            <<PlanFor(Mirror(nodes, alloc.pool_map),
                                      Mirror(graph, diff.pool_map),
                                      ids \ minted_id,
                                      {alloc.pool_map[id] : id \in gone})>>
        /\ next_id' = next_id + count
        /\ UNCHANGED <<generation, plan_ring, audioVars>>

\* compile_only fails after minting: a module's create rejects its parameters,
\* or the pool would overflow.  The instance ids are spent; the planner keeps
\* its previous state.
CompileFails ==
  \E patch \in Patches :
    \E spent \in 1 .. Cardinality(Installed(patch)) :
      /\ outgoing = <<>>
      /\ next_id + spent - 1 <= MaxInstances
      /\ next_id' = next_id + spent
      /\ UNCHANGED <<nodes, alloc, ringVars, audioVars>>

\* Mutant: the plan is dropped when the ring is full.
PushLossy ==
  /\ outgoing # <<>>
  /\ generation' = generation + 1
  /\ plan_ring' = IF Len(plan_ring) >= PlanRing THEN plan_ring
                  ELSE Append(plan_ring, [Head(outgoing) EXCEPT !.generation = generation + 1])
  /\ outgoing' = <<>>
  /\ UNCHANGED <<plannerVars, audioVars>>

\* push_blocking places the plan; on a full ring it sleeps and retries.
Push ==
  /\ outgoing # <<>>
  /\ Len(plan_ring) < PlanRing
  /\ generation' = generation + 1
  /\ plan_ring' = Append(plan_ring, [Head(outgoing) EXCEPT !.generation = generation + 1])
  /\ outgoing' = <<>>
  /\ UNCHANGED <<plannerVars, audioVars>>

\* receive_plan and adopt_plan_with_meta, one plan per audio callback.
Adopt ==
  /\ plan_ring # <<>>
  /\ pool' = Apply(pool, Head(plan_ring))
  /\ active' = Head(plan_ring).active_indices
  /\ adopted' = Head(plan_ring).generation
  /\ plan_ring' = Tail(plan_ring)
  /\ UNCHANGED <<plannerVars, generation, outgoing>>

Next == Compile \/ CompileFails \/ Push \/ Adopt

Spec == Init /\ [][Next]_vars

\* The audio callback keeps running and push_blocking keeps retrying.
FairSpec == Spec /\ WF_vars(Push) /\ WF_vars(Adopt)

-----------------------------------------------------------------------------
(* Properties.                                                              *)

Plans ==
  [target : PartialMaps(Slots, Modules), generation : 0 .. MaxReloads,
   tombstones : SUBSET Slots, new_modules : PartialMaps(Slots, Modules),
   updates : PartialMaps(Slots, Settings), active_indices : SUBSET Slots]

\* Every variable holds a value of its type.
TypeOK ==
  /\ nodes \in PartialMaps(NodeIds, Modules)
  /\ alloc \in [pool_map : PartialMaps(InstanceIds, Slots),
                freelist : Seq(Slots), next_hwm : 0 .. PoolCapacity]
  /\ next_id \in 1 .. MaxInstances + 1
  /\ generation \in 0 .. MaxReloads
  /\ outgoing \in Seq(Plans) /\ Len(outgoing) <= 1
  /\ plan_ring \in Seq(Plans) /\ Len(plan_ring) <= PlanRing
  /\ pool \in PartialMaps(Slots, Modules)
  /\ active \in SUBSET Slots
  /\ adopted \in 0 .. MaxReloads

\* The planner's slot accounting (ModuleAllocState): every slot below the
\* high-water mark is either mapped by exactly one instance or on the freelist
\* exactly once, whatever order the hash tables were walked in.
SlotsPartitioned ==
  /\ DOMAIN alloc.pool_map = {nodes[n].id : n \in DOMAIN nodes}
  /\ IsInjective(alloc.pool_map)
  /\ IsInjective(alloc.freelist)
  /\ Range(alloc.pool_map) \cap ToSet(alloc.freelist) = {}
  /\ Range(alloc.pool_map) \cup ToSet(alloc.freelist) = 0 .. alloc.next_hwm - 1

\* Two nodes never share an instance, and an instance id is never minted twice
\* (planner classify_nodes, InstanceId::next).
InstancesDistinct ==
  /\ \A m, n \in DOMAIN nodes : nodes[m].id = nodes[n].id => m = n
  /\ \A n \in DOMAIN nodes : nodes[n].id < next_id

\* The plan at the head of the ring fits the pool it meets: it tombstones live
\* slots, installs into empty ones, updates modules that stay, and every slot
\* it activates is populated (PtrArray::rebuild, ModulePool::install).
Fits(p, plan) ==
  /\ plan.tombstones \subseteq DOMAIN p
  /\ DOMAIN plan.new_modules \cap (DOMAIN p \ plan.tombstones) = {}
  /\ DOMAIN plan.updates \subseteq DOMAIN p \ plan.tombstones
  /\ plan.active_indices = DOMAIN Apply(p, plan)

NextPlanFits == plan_ring # <<>> => Fits(pool, Head(plan_ring))

\* The plan is always built against the pool that resolves its pointers, so
\* every slot it lists is populated and no adoption panics (PtrArray::rebuild).
RebuildResolves ==
  plan_ring # <<>> =>
    Head(plan_ring).active_indices \subseteq DOMAIN Apply(pool, Head(plan_ring))

\* When nothing is in flight, the planner's belief about the pool is the pool:
\* slot by slot the same instance with the same settings, all of it active
\* ("the control-thread mirror of the audio thread's module pool").
MirrorMatchesPool ==
  outgoing = <<>> /\ plan_ring = <<>> =>
    /\ pool = Mirror(nodes, alloc.pool_map)
    /\ active = DOMAIN pool

\* Plans are adopted in the order they were stamped, none skipped.
AdoptedInOrder == [][adopted' # adopted => adopted' = adopted + 1]_vars

\* Every plan pushed is eventually running (push_blocking, receive_plan).
PushedIsAdopted ==
  \A g \in 1 .. MaxReloads : (outgoing # <<>> /\ generation + 1 = g) ~> adopted >= g

=============================================================================
