---------------------------- MODULE ReloadProofs ----------------------------
(***************************************************************************)
(* The reload path, proved for every pool, ring, patch and bound.          *)
(*                                                                         *)
(* PlanHandoff.  First the planner: the slots a diff hands out and frees,  *)
(* the instances classification gives to the nodes of a patch, the types   *)
(* of plans, and from these the planner's invariant.  Then the chain:      *)
(* every plan on its way is a delta from the pool it will meet to the pool *)
(* the planner intends, so adoption never meets an unpopulated slot and    *)
(* the planner's mirror is the pool.  Then the refinement: PlanHandoff     *)
(* implements HotReload.                                                   *)
(*                                                                         *)
(* PlanAdoption, the same adoption step by step.  AdoptionInv holds        *)
(* whatever the host does: best-effort pushes, panics, shutdown in         *)
(* mid-reload.  It says what an adoption has still to offer to the cleanup *)
(* ring, when the pointers are cleared, when the halt state is clear, and  *)
(* what shutdown leaves behind.  Where no plan is dropped and no module    *)
(* panics, adoption in steps is adoption in one step.  What then holds in  *)
(* the middle of one is Ahead: the part of the plan not yet carried out is *)
(* a good plan for the pool as it is by now.                               *)
(***************************************************************************)
EXTENDS MCPlanHandoff, MCPlanAdoption, TLAPS, FiniteSetTheorems, SequenceTheorems

-----------------------------------------------------------------------------
(* What a diff does with the free slots.                                    *)

\* Number of slots a diff takes from the freelist, and its new high-water mark.
Reused(free, count) == IF count <= Len(free) THEN count ELSE Len(free)
NewHwm(free, hwm, count) == hwm + (count - Reused(free, count))
Kept(free, count) == SubSeq(free, 1, Len(free) - Reused(free, count))

\* Slots handed out are below the new high-water mark, distinct, and off the
\* freelist that is kept; every free or fresh slot is handed out or kept.
LEMMA AcquiredSlots ==
  ASSUME NEW free \in Seq(Nat), NEW hwm \in Nat, NEW count \in Nat,
         \A i, j \in 1 .. Len(free) : free[i] = free[j] => i = j,
         \A i \in 1 .. Len(free) : free[i] < hwm
  PROVE  /\ NewHwm(free, hwm, count) \in Nat /\ NewHwm(free, hwm, count) >= hwm
         /\ \A j \in 1 .. count :
              Acquired(free, hwm, j) \in 0 .. NewHwm(free, hwm, count) - 1
         /\ \A j, k \in 1 .. count :
              Acquired(free, hwm, j) = Acquired(free, hwm, k) => j = k
         /\ \A j \in 1 .. count :
              \/ Acquired(free, hwm, j) >= hwm
              \/ \E i \in 1 .. Len(free) : /\ i > Len(free) - Reused(free, count)
                                           /\ Acquired(free, hwm, j) = free[i]
         /\ \A i \in 1 .. Len(free) :
              i > Len(free) - Reused(free, count) =>
                \E j \in 1 .. count : Acquired(free, hwm, j) = free[i]
         /\ \A s \in hwm .. NewHwm(free, hwm, count) - 1 :
              \E j \in 1 .. count : Acquired(free, hwm, j) = s
<1>1. Len(free) \in Nat /\ \A i \in 1 .. Len(free) : free[i] \in Nat
  BY LenProperties, ElementOfSeq
<1>2. Reused(free, count) \in Nat /\ Reused(free, count) <= Len(free)
      /\ Reused(free, count) <= count
      /\ (count <= Len(free) => Reused(free, count) = count)
      /\ (count > Len(free) => Reused(free, count) = Len(free))
  BY <1>1 DEF Reused
<1>3. /\ NewHwm(free, hwm, count) \in Nat /\ NewHwm(free, hwm, count) >= hwm
      /\ (count <= Len(free) => NewHwm(free, hwm, count) = hwm)
      /\ (count > Len(free) => NewHwm(free, hwm, count) = hwm + count - Len(free))
  <2>1. NewHwm(free, hwm, count) = hwm + (count - Reused(free, count))
    BY DEF NewHwm
  <2>2. CASE count <= Len(free)
    BY <1>1, <1>2, <2>1, <2>2
  <2>3. CASE count > Len(free)
    <3>1. NewHwm(free, hwm, count) = hwm + (count - Len(free))
      BY <1>2, <2>1, <2>3
    <3>2. Len(free) \in Nat
      BY <1>1
    <3> QED
      BY <2>3, <3>1, <3>2
  <2> QED
    BY <1>1, <2>2, <2>3
<1>4. ASSUME NEW j \in 1 .. count
      PROVE  Acquired(free, hwm, j) \in 0 .. NewHwm(free, hwm, count) - 1
  <2>1. CASE j <= Len(free)
    <3>1. Acquired(free, hwm, j) = free[Len(free) + 1 - j]
          /\ Len(free) + 1 - j \in 1 .. Len(free)
      BY <1>1, <2>1 DEF Acquired
    <3>2. Acquired(free, hwm, j) \in Nat /\ Acquired(free, hwm, j) < hwm
      BY <1>1, <3>1
    <3> QED
      BY <1>3, <3>2
  <2>2. CASE j > Len(free)
    BY <1>1, <1>3, <2>2 DEF Acquired
  <2> QED
    BY <1>1, <2>1, <2>2
<1>5. ASSUME NEW j \in 1 .. count, NEW k \in 1 .. count,
             Acquired(free, hwm, j) = Acquired(free, hwm, k)
      PROVE  j = k
  <2>1. CASE j <= Len(free) /\ k <= Len(free)
    <3>1. /\ Len(free) + 1 - j \in 1 .. Len(free) /\ Len(free) + 1 - k \in 1 .. Len(free)
          /\ free[Len(free) + 1 - j] = free[Len(free) + 1 - k]
      BY <1>1, <1>5, <2>1 DEF Acquired
    <3> QED
      BY <1>1, <3>1
  <2>2. CASE j > Len(free) /\ k > Len(free)
    BY <1>1, <1>5, <2>2 DEF Acquired
  <2>3. CASE j <= Len(free) /\ k > Len(free)
    <3>1. Len(free) + 1 - j \in 1 .. Len(free) /\ free[Len(free) + 1 - j] >= hwm
      BY <1>1, <1>5, <2>3 DEF Acquired
    <3> QED
      BY <1>1, <3>1
  <2>4. CASE j > Len(free) /\ k <= Len(free)
    <3>1. Len(free) + 1 - k \in 1 .. Len(free) /\ free[Len(free) + 1 - k] >= hwm
      BY <1>1, <1>5, <2>4 DEF Acquired
    <3> QED
      BY <1>1, <3>1
  <2> QED
    BY <1>1, <2>1, <2>2, <2>3, <2>4
<1>6. ASSUME NEW j \in 1 .. count
      PROVE  \/ Acquired(free, hwm, j) >= hwm
             \/ \E i \in 1 .. Len(free) : /\ i > Len(free) - Reused(free, count)
                                          /\ Acquired(free, hwm, j) = free[i]
  <2>1. CASE j <= Len(free)
    <3>1. Len(free) + 1 - j \in 1 .. Len(free)
      BY <1>1, <2>1
    <3>2. Len(free) + 1 - j > Len(free) - Reused(free, count)
      BY <1>1, <2>1 DEF Reused
    <3> QED
      BY <3>1, <3>2, <2>1 DEF Acquired
  <2>2. CASE j > Len(free)
    BY <1>1, <2>2 DEF Acquired
  <2> QED
    BY <1>1, <2>1, <2>2
<1>7. ASSUME NEW i \in 1 .. Len(free), i > Len(free) - Reused(free, count)
      PROVE  \E j \in 1 .. count : Acquired(free, hwm, j) = free[i]
  <2>1. Len(free) + 1 - i \in 1 .. count
    BY <1>1, <1>2, <1>7
  <2>2. Acquired(free, hwm, Len(free) + 1 - i) = free[i]
    BY <1>1 DEF Acquired
  <2> QED
    BY <2>1, <2>2
<1>8. ASSUME NEW s \in hwm .. NewHwm(free, hwm, count) - 1
      PROVE  \E j \in 1 .. count : Acquired(free, hwm, j) = s
  <2>1. Len(free) + (s - hwm) + 1 \in 1 .. count
    BY <1>1, <1>3, <1>8
  <2>2. Acquired(free, hwm, Len(free) + (s - hwm) + 1) = s
    BY <1>1, <1>3, <1>8 DEF Acquired
  <2> QED
    BY <2>1, <2>2
<1> QED
  BY <1>3, <1>4, <1>5, <1>6, <1>7, <1>8

-----------------------------------------------------------------------------
(* Sequences and partial functions.                                         *)

\* A function on an initial interval of the naturals is a sequence.
LEMMA FunctionIsSeq ==
  ASSUME NEW S, NEW n \in Nat, NEW f \in [1 .. n -> S]
  PROVE  f \in Seq(S) /\ Len(f) = n
<1>1. f \in Seq(S)
  BY SeqDef, Zenon
<1>2. Len(f) \in Nat /\ DOMAIN f = 1 .. Len(f)
  BY <1>1, LenProperties
<1>3. 1 .. Len(f) = 1 .. n
  BY <1>2
<1> QED
  BY <1>1, <1>2, <1>3

\* A function on part of S with values in T is a partial map.
LEMMA PartialMapIntro ==
  ASSUME NEW S, NEW T, NEW D \in SUBSET S, NEW f \in [D -> T]
  PROVE  f \in PartialMaps(S, T)
  BY DEF PartialMaps

\* What membership in a set of partial maps gives.
LEMMA PartialMapElim ==
  ASSUME NEW S, NEW T, NEW f \in PartialMaps(S, T)
  PROVE  DOMAIN f \in SUBSET S /\ f \in [DOMAIN f -> T]
  BY DEF PartialMaps

-----------------------------------------------------------------------------
(* The planner's invariant.                                                  *)

\* Plans in the making are not stamped beyond the bound.
StampsLeft == generation + Len(outgoing) <= MaxReloads

PlannerInv == TypeOK /\ SlotsPartitioned /\ InstancesDistinct /\ StampsLeft

\* The typing of the planner's variables, unfolded.
LEMMA PlannerTypes ==
  ASSUME TypeOK
  PROVE  /\ DOMAIN nodes \in SUBSET NodeIds /\ nodes \in [DOMAIN nodes -> Modules]
         /\ DOMAIN alloc.pool_map \in SUBSET InstanceIds
         /\ alloc.pool_map \in [DOMAIN alloc.pool_map -> Slots]
         /\ alloc.freelist \in Seq(Slots)
         /\ alloc.next_hwm \in 0 .. PoolCapacity
         /\ next_id \in 1 .. MaxInstances + 1
         /\ MaxInstances \in Nat /\ PoolCapacity \in Nat
  BY PartialMapElim, BoundsAssumption, CapacityAssumption DEF TypeOK

\* The nodes of a patch are finitely many, so is every set of their instances.
LEMMA FinitePatch ==
  ASSUME NEW patch \in Patches
  PROVE  /\ DOMAIN patch \in SUBSET NodeIds
         /\ patch \in [DOMAIN patch -> [kind : Kinds, settings : Settings]]
         /\ IsFiniteSet(Installed(patch))
         /\ Cardinality(Installed(patch)) \in Nat
<1>1. DOMAIN patch \in SUBSET NodeIds
      /\ patch \in [DOMAIN patch -> [kind : Kinds, settings : Settings]]
  BY DEF Patches
<1>2. IsFiniteSet(Installed(patch))
  <2>1. Installed(patch) \in SUBSET NodeIds
    BY <1>1 DEF Installed
  <2> QED
    BY <2>1, FiniteNodes, FS_Subset
<1> QED
  BY <1>1, <1>2, FS_CardinalityType

\* Classification gives every node of the patch an instance of its own: the one
\* it had, or one of the newly minted.
LEMMA ClassifiedGraph ==
  ASSUME PlannerInv, NEW patch \in Patches,
         NEW count, count = Cardinality(Installed(patch)),
         next_id + count - 1 <= MaxInstances,
         NEW minted \in Bijection(Installed(patch), MintedIds(count)),
         NEW graph, graph = Classify(patch, minted)
  PROVE  /\ count \in Nat
         /\ DOMAIN graph = DOMAIN patch
         /\ DOMAIN graph \in SUBSET NodeIds
         /\ graph \in [DOMAIN graph -> Modules]
         /\ \A m, n \in DOMAIN graph : graph[m].id = graph[n].id => m = n
         /\ \A n \in DOMAIN graph : graph[n].id < next_id + count
         /\ \A n \in Survivors(patch) : /\ n \in DOMAIN nodes /\ n \in DOMAIN graph
                                        /\ graph[n].id = nodes[n].id
                                        /\ graph[n].kind = nodes[n].kind
         /\ \A n \in DOMAIN graph \ Survivors(patch) : graph[n].id \in MintedIds(count)
         /\ \A id \in MintedIds(count) : \E n \in DOMAIN graph : graph[n].id = id
<1>1. /\ nodes \in [DOMAIN nodes -> Modules]
      /\ next_id \in 1 .. MaxInstances + 1 /\ MaxInstances \in Nat
      /\ \A m, n \in DOMAIN nodes : nodes[m].id = nodes[n].id => m = n
      /\ \A n \in DOMAIN nodes : nodes[n].id < next_id /\ nodes[n].id \in Nat
  BY PlannerTypes DEF PlannerInv, InstancesDistinct, Modules, InstanceIds
<1>2. /\ DOMAIN patch \in SUBSET NodeIds /\ count \in Nat
      /\ patch \in [DOMAIN patch -> [kind : Kinds, settings : Settings]]
  BY FinitePatch
<1>3. /\ minted \in [Installed(patch) -> MintedIds(count)]
      /\ \A m, n \in Installed(patch) : minted[m] = minted[n] => m = n
      /\ \A id \in MintedIds(count) : \E n \in Installed(patch) : minted[n] = id
  BY DEF Bijection, Injection, Surjection, IsInjective
<1>4. \A id \in MintedIds(count) : /\ id \in InstanceIds /\ id \in Nat
                                   /\ id >= next_id /\ id < next_id + count
  BY <1>1, <1>2 DEF MintedIds, InstanceIds
<1>5. /\ DOMAIN graph = DOMAIN patch
      /\ \A n \in DOMAIN patch : n \in Survivors(patch) \/ n \in Installed(patch)
      /\ \A n \in Survivors(patch) : n \in DOMAIN nodes /\ n \in DOMAIN patch
                                     /\ nodes[n].kind = patch[n].kind
      /\ \A n \in Installed(patch) : n \in DOMAIN patch /\ n \notin Survivors(patch)
  BY DEF Classify, Survivors, Installed
<1>6. \A n \in DOMAIN graph :
        /\ graph[n] = [id |-> IF n \in Survivors(patch) THEN nodes[n].id ELSE minted[n],
                       kind |-> patch[n].kind, settings |-> patch[n].settings]
        /\ graph[n].id = (IF n \in Survivors(patch) THEN nodes[n].id ELSE minted[n])
        /\ graph[n].kind = patch[n].kind
  BY DEF Classify
<1>7. \A n \in DOMAIN graph : graph[n] \in Modules
  <2> SUFFICES ASSUME NEW n \in DOMAIN graph PROVE graph[n] \in Modules
    OBVIOUS
  <2>1. patch[n].kind \in Kinds /\ patch[n].settings \in Settings
    BY <1>2, <1>5
  <2>2. CASE n \in Survivors(patch)
    BY <1>1, <1>5, <1>6, <2>1, <2>2 DEF Modules
  <2>3. CASE n \in Installed(patch)
    BY <1>3, <1>4, <1>5, <1>6, <2>1, <2>3 DEF Modules
  <2> QED
    BY <1>5, <2>2, <2>3
<1>8. graph \in [DOMAIN graph -> Modules]
  <2>1. graph = [n \in DOMAIN graph |-> graph[n]]
    BY DEF Classify
  <2> QED
    BY <1>7, <2>1
<1>9. ASSUME NEW m \in DOMAIN graph, NEW n \in DOMAIN graph, graph[m].id = graph[n].id
      PROVE  m = n
  <2>1. CASE m \in Survivors(patch) /\ n \in Survivors(patch)
    BY <1>1, <1>5, <1>6, <1>9, <2>1
  <2>2. CASE m \in Installed(patch) /\ n \in Installed(patch)
    BY <1>3, <1>5, <1>6, <1>9, <2>2
  <2>3. CASE m \in Survivors(patch) /\ n \in Installed(patch)
    BY <1>1, <1>3, <1>4, <1>5, <1>6, <1>9, <2>3
  <2>4. CASE m \in Installed(patch) /\ n \in Survivors(patch)
    BY <1>1, <1>3, <1>4, <1>5, <1>6, <1>9, <2>4
  <2> QED
    BY <1>5, <2>1, <2>2, <2>3, <2>4
<1>10. \A n \in DOMAIN graph : graph[n].id < next_id + count
  <2> SUFFICES ASSUME NEW n \in DOMAIN graph PROVE graph[n].id < next_id + count
    OBVIOUS
  <2>1. CASE n \in Survivors(patch)
    <3>1. graph[n].id = nodes[n].id /\ nodes[n].id \in Nat /\ nodes[n].id < next_id
      BY <1>1, <1>5, <1>6, <2>1
    <3> QED
      BY <1>1, <1>2, <3>1
  <2>2. CASE n \in Installed(patch)
    BY <1>3, <1>4, <1>5, <1>6, <2>2
  <2> QED
    BY <1>5, <2>1, <2>2
<1>11. \A n \in Survivors(patch) : /\ n \in DOMAIN nodes /\ n \in DOMAIN graph
                                   /\ graph[n].id = nodes[n].id
                                   /\ graph[n].kind = nodes[n].kind
  BY <1>5, <1>6
<1>12. \A n \in DOMAIN graph \ Survivors(patch) : graph[n].id \in MintedIds(count)
  BY <1>3, <1>5, <1>6
<1>13. \A id \in MintedIds(count) : \E n \in DOMAIN graph : graph[n].id = id
  BY <1>3, <1>5, <1>6
<1> QED
  BY <1>2, <1>5, <1>8, <1>9, <1>10, <1>11, <1>12, <1>13

-----------------------------------------------------------------------------
(* The slots of a diff.                                                     *)

\* The freelist with the slots of the dead instances pushed on it.
FreeList(dead) == alloc.freelist \o [i \in DOMAIN dead |-> alloc.pool_map[dead[i]]]

\* A walk over the dead instances meets each of them exactly once.
LEMMA WalkOfDead ==
  ASSUME PlannerInv, NEW ids, NEW dead \in SetToSeqs(DOMAIN alloc.pool_map \ ids)
  PROVE  /\ dead \in Seq(DOMAIN alloc.pool_map \ ids)
         /\ DOMAIN dead = 1 .. Len(dead) /\ Len(dead) \in Nat
         /\ \A i \in 1 .. Len(dead) : dead[i] \in DOMAIN alloc.pool_map \ ids
         /\ \A i, j \in 1 .. Len(dead) : dead[i] = dead[j] => i = j
         /\ \A id \in DOMAIN alloc.pool_map \ ids : \E i \in 1 .. Len(dead) : dead[i] = id
<1> DEFINE gone == DOMAIN alloc.pool_map \ ids
<1>1. IsFiniteSet(gone)
  <2> DEFINE instances == {nodes[n].id : n \in DOMAIN nodes}
             instance  == [n \in DOMAIN nodes |-> nodes[n].id]
  <2>1. gone \in SUBSET instances
    BY DEF PlannerInv, SlotsPartitioned
  <2>2. IsFiniteSet(DOMAIN nodes)
    BY PlannerTypes, FiniteNodes, FS_Subset DEF PlannerInv
  <2>3. instance \in Surjection(DOMAIN nodes, instances)
    BY DEF Surjection
  <2>4. IsFiniteSet(instances)
    BY <2>2, <2>3, FS_Surjection
  <2> QED
    BY <2>1, <2>4, FS_Subset
<1>2. Cardinality(gone) \in Nat
  BY <1>1, FS_CardinalityType
<1>3. /\ dead \in [1 .. Cardinality(gone) -> gone]
      /\ \A i, j \in 1 .. Cardinality(gone) : dead[i] = dead[j] => i = j
  BY DEF SetToSeqs
<1>4. dead \in Injection(1 .. Cardinality(gone), gone)
  BY <1>3 DEF Injection, IsInjective
<1>5. Cardinality(1 .. Cardinality(gone)) = Cardinality(gone)
  BY <1>2, FS_Interval
<1>6. dead \in Surjection(1 .. Cardinality(gone), gone)
  BY <1>1, <1>4, <1>5, FS_Injection
<1>7. \A id \in gone : \E i \in 1 .. Cardinality(gone) : dead[i] = id
  BY <1>6 DEF Surjection
<1>8. dead \in Seq(gone)
  BY <1>2, <1>3, FunctionIsSeq
<1>9. Len(dead) \in Nat /\ DOMAIN dead = 1 .. Len(dead)
  BY <1>8, LenProperties
<1>10. 1 .. Len(dead) = 1 .. Cardinality(gone)
  BY <1>3, <1>9
<1> HIDE DEF gone
<1>11. /\ dead \in Seq(gone) /\ DOMAIN dead = 1 .. Len(dead) /\ Len(dead) \in Nat
       /\ \A i \in 1 .. Len(dead) : dead[i] \in gone
       /\ \A i, j \in 1 .. Len(dead) : dead[i] = dead[j] => i = j
       /\ \A id \in gone : \E i \in 1 .. Len(dead) : dead[i] = id
  BY <1>3, <1>7, <1>8, <1>9, <1>10
<1> QED
  BY <1>11 DEF gone

\* SlotsPartitioned, index by index.
LEMMA SlotsUnfolded ==
  ASSUME PlannerInv
  PROVE  /\ \A a, b \in DOMAIN alloc.pool_map :
              alloc.pool_map[a] = alloc.pool_map[b] => a = b
         /\ \A i, j \in DOMAIN alloc.freelist :
              alloc.freelist[i] = alloc.freelist[j] => i = j
         /\ \A a \in DOMAIN alloc.pool_map : \A i \in DOMAIN alloc.freelist :
              alloc.pool_map[a] # alloc.freelist[i]
         /\ \A a \in DOMAIN alloc.pool_map : alloc.pool_map[a] \in 0 .. alloc.next_hwm - 1
         /\ \A i \in DOMAIN alloc.freelist : alloc.freelist[i] \in 0 .. alloc.next_hwm - 1
         /\ \A s \in 0 .. alloc.next_hwm - 1 :
              \/ \E a \in DOMAIN alloc.pool_map : alloc.pool_map[a] = s
              \/ \E i \in DOMAIN alloc.freelist : alloc.freelist[i] = s
<1>1. SlotsPartitioned
  BY DEF PlannerInv
<1>2. /\ \A a, b \in DOMAIN alloc.pool_map :
           alloc.pool_map[a] = alloc.pool_map[b] => a = b
      /\ \A i, j \in DOMAIN alloc.freelist :
           alloc.freelist[i] = alloc.freelist[j] => i = j
  BY <1>1 DEF SlotsPartitioned, IsInjective
<1>3. \A a \in DOMAIN alloc.pool_map : \A i \in DOMAIN alloc.freelist :
        alloc.pool_map[a] # alloc.freelist[i]
  BY <1>1 DEF SlotsPartitioned, Range, ToSet
<1>4. /\ \A a \in DOMAIN alloc.pool_map : alloc.pool_map[a] \in 0 .. alloc.next_hwm - 1
      /\ \A i \in DOMAIN alloc.freelist : alloc.freelist[i] \in 0 .. alloc.next_hwm - 1
  BY <1>1 DEF SlotsPartitioned, Range, ToSet
<1>5. \A s \in 0 .. alloc.next_hwm - 1 :
        \/ \E a \in DOMAIN alloc.pool_map : alloc.pool_map[a] = s
        \/ \E i \in DOMAIN alloc.freelist : alloc.freelist[i] = s
  BY <1>1 DEF SlotsPartitioned, Range, ToSet
<1> QED
  BY <1>2, <1>3, <1>4, <1>5

\* The entries of two sequences put together.
LEMMA Entries ==
  ASSUME NEW S, NEW list \in Seq(S), NEW pushed \in Seq(S)
  PROVE  /\ list \o pushed \in Seq(S)
         /\ \A i \in 1 .. Len(list) :
              i \in 1 .. Len(list \o pushed) /\ (list \o pushed)[i] = list[i]
         /\ \A k \in 1 .. Len(pushed) :
              /\ Len(list) + k \in 1 .. Len(list \o pushed)
              /\ (list \o pushed)[Len(list) + k] = pushed[k]
         /\ \A i \in 1 .. Len(list \o pushed) :
              \/ i \in 1 .. Len(list) /\ (list \o pushed)[i] = list[i]
              \/ \E k \in 1 .. Len(pushed) :
                   i = Len(list) + k /\ (list \o pushed)[i] = pushed[k]
<1>1. Len(list) \in Nat /\ Len(pushed) \in Nat
  BY LenProperties
<1>2. /\ list \o pushed \in Seq(S) /\ Len(list \o pushed) = Len(list) + Len(pushed)
      /\ \A i \in 1 .. Len(list) + Len(pushed) :
           (list \o pushed)[i] = IF i <= Len(list) THEN list[i] ELSE pushed[i - Len(list)]
  BY ConcatProperties
<1>3. ASSUME NEW i \in 1 .. Len(list)
      PROVE  i \in 1 .. Len(list \o pushed) /\ (list \o pushed)[i] = list[i]
  BY <1>1, <1>2
<1>4. ASSUME NEW k \in 1 .. Len(pushed)
      PROVE  /\ Len(list) + k \in 1 .. Len(list \o pushed)
             /\ (list \o pushed)[Len(list) + k] = pushed[k]
  BY <1>1, <1>2
<1>5. ASSUME NEW i \in 1 .. Len(list \o pushed)
      PROVE  \/ i \in 1 .. Len(list) /\ (list \o pushed)[i] = list[i]
             \/ \E k \in 1 .. Len(pushed) :
                  i = Len(list) + k /\ (list \o pushed)[i] = pushed[k]
  <2>1. CASE i <= Len(list)
    BY <1>1, <1>2, <2>1
  <2>2. CASE i > Len(list)
    <3>1. i - Len(list) \in 1 .. Len(pushed) /\ i = Len(list) + (i - Len(list))
      BY <1>1, <1>2, <2>2
    <3>2. (list \o pushed)[i] = pushed[i - Len(list)]
      BY <1>1, <1>2, <2>2
    <3> QED
      BY <3>1, <3>2
  <2> QED
    BY <1>1, <1>2, <2>1, <2>2
<1> QED
  BY <1>2, <1>3, <1>4, <1>5

\* Every entry of the concatenation is an entry of one of the two.
LEMMA EntryOfEither ==
  ASSUME NEW S, NEW list \in Seq(S), NEW pushed \in Seq(S),
         NEW m \in 1 .. Len(list \o pushed)
  PROVE  \/ \E k \in 1 .. Len(list) : (list \o pushed)[m] = list[k]
         \/ \E k \in 1 .. Len(pushed) : (list \o pushed)[m] = pushed[k]
  BY Entries

\* Entries of two sequences without duplicates and without common entries are
\* distinct in their concatenation.
LEMMA DistinctEntries ==
  ASSUME NEW S, NEW list \in Seq(S), NEW pushed \in Seq(S),
         \A i, j \in 1 .. Len(list) : list[i] = list[j] => i = j,
         \A i, j \in 1 .. Len(pushed) : pushed[i] = pushed[j] => i = j,
         \A i \in 1 .. Len(list) : \A j \in 1 .. Len(pushed) : list[i] # pushed[j],
         NEW i \in 1 .. Len(list \o pushed), NEW j \in 1 .. Len(list \o pushed),
         (list \o pushed)[i] = (list \o pushed)[j]
  PROVE  i = j
<1>0. \A m \in 1 .. Len(list \o pushed) :
        \/ m \in 1 .. Len(list) /\ (list \o pushed)[m] = list[m]
        \/ \E k \in 1 .. Len(pushed) :
             m = Len(list) + k /\ (list \o pushed)[m] = pushed[k]
  BY Entries
<1>1. CASE i \in 1 .. Len(list) /\ (list \o pushed)[i] = list[i]
  <2>1. CASE j \in 1 .. Len(list) /\ (list \o pushed)[j] = list[j]
    BY <1>1, <2>1
  <2>2. CASE \E k \in 1 .. Len(pushed) :
               j = Len(list) + k /\ (list \o pushed)[j] = pushed[k]
    BY <1>1, <2>2
  <2> QED
    BY <1>0, <2>1, <2>2
<1>2. CASE \E k \in 1 .. Len(pushed) :
             i = Len(list) + k /\ (list \o pushed)[i] = pushed[k]
  <2>1. CASE j \in 1 .. Len(list) /\ (list \o pushed)[j] = list[j]
    BY <1>2, <2>1
  <2>2. CASE \E k \in 1 .. Len(pushed) :
               j = Len(list) + k /\ (list \o pushed)[j] = pushed[k]
    BY <1>2, <2>2
  <2> QED
    BY <1>0, <2>1, <2>2
<1> QED
  BY <1>0, <1>1, <1>2

\* `free` lists slots below `hwm`, each once, and none that the instances of
\* `ids` among the live ones keep; `map` gives each live instance its own slot.
FreeApart(free, hwm, Live, map, ids) ==
  /\ free \in Seq(Nat) /\ hwm \in Nat /\ map \in [Live -> Nat]
  /\ \A i, j \in 1 .. Len(free) : free[i] = free[j] => i = j
  /\ \A i \in 1 .. Len(free) : free[i] < hwm
  /\ \A i \in 1 .. Len(free) : \A a \in ids \cap Live : free[i] # map[a]
  /\ \A a, b \in Live : map[a] = map[b] => a = b
  /\ \A a \in Live : map[a] < hwm

\* Every slot below `hwm` is free or kept by an instance of `ids`.
FreeOrKept(free, hwm, Live, map, ids) ==
  \A s \in 0 .. hwm - 1 : \/ \E a \in ids \cap Live : map[a] = s
                          \/ \E i \in 1 .. Len(free) : free[i] = s

\* The slots free for a diff are those below the high-water mark that no
\* surviving instance keeps, each once.
LEMMA FreeSlots ==
  ASSUME PlannerInv, NEW ids, NEW dead \in SetToSeqs(DOMAIN alloc.pool_map \ ids)
  PROVE  /\ FreeList(dead) \in Seq(Slots)
         /\ FreeApart(FreeList(dead), alloc.next_hwm, DOMAIN alloc.pool_map,
                      alloc.pool_map, ids)
         /\ FreeOrKept(FreeList(dead), alloc.next_hwm, DOMAIN alloc.pool_map,
                       alloc.pool_map, ids)
<1> DEFINE pushed == [i \in DOMAIN dead |-> alloc.pool_map[dead[i]]]
<1>1. /\ alloc.pool_map \in [DOMAIN alloc.pool_map -> Slots]
      /\ alloc.freelist \in Seq(Slots)
      /\ alloc.next_hwm \in Nat
      /\ Slots \subseteq Nat
  BY PlannerTypes DEF PlannerInv, Slots
<1>2. /\ alloc.pool_map \in [DOMAIN alloc.pool_map -> Nat]
      /\ alloc.freelist \in Seq(Nat)
      /\ DOMAIN alloc.freelist = 1 .. Len(alloc.freelist)
  BY <1>1, SeqMonotonic, LenProperties
<1>3. /\ dead \in [1 .. Len(dead) -> DOMAIN alloc.pool_map \ ids]
      /\ DOMAIN dead = 1 .. Len(dead) /\ Len(dead) \in Nat
  BY WalkOfDead, LenProperties
<1>4. pushed \in [1 .. Len(dead) -> Slots]
  BY <1>1, <1>3
<1>5. /\ pushed \in Seq(Slots) /\ Len(pushed) = Len(dead)
      /\ \A i \in 1 .. Len(dead) : pushed[i] = alloc.pool_map[dead[i]]
  BY <1>3, <1>4, FunctionIsSeq
<1>6. FreeList(dead) = alloc.freelist \o pushed
  BY DEF FreeList
<1> HIDE DEF pushed
<1>7. pushed \in Seq(Nat)
  BY <1>1, <1>5, SeqMonotonic
<1>8. FreeList(dead) \in Seq(Slots)
  BY <1>1, <1>5, <1>6, ConcatProperties
<1>9. /\ \A a, b \in DOMAIN alloc.pool_map :
           alloc.pool_map[a] = alloc.pool_map[b] => a = b
      /\ \A i, j \in 1 .. Len(alloc.freelist) :
           alloc.freelist[i] = alloc.freelist[j] => i = j
      /\ \A a \in DOMAIN alloc.pool_map : \A i \in 1 .. Len(alloc.freelist) :
           alloc.pool_map[a] # alloc.freelist[i]
      /\ \A a \in DOMAIN alloc.pool_map : alloc.pool_map[a] \in 0 .. alloc.next_hwm - 1
      /\ \A i \in 1 .. Len(alloc.freelist) : alloc.freelist[i] \in 0 .. alloc.next_hwm - 1
  BY <1>2, SlotsUnfolded
<1>10. \A i, j \in 1 .. Len(pushed) : pushed[i] = pushed[j] => i = j
  <2>1. \A i, j \in 1 .. Len(dead) : dead[i] = dead[j] => i = j
    BY WalkOfDead
  <2> QED
    BY <1>3, <1>5, <1>9, <2>1
<1>11. \A i \in 1 .. Len(alloc.freelist) : \A j \in 1 .. Len(pushed) :
         alloc.freelist[i] # pushed[j]
  BY <1>3, <1>5, <1>9
<1>12. \A i, j \in 1 .. Len(FreeList(dead)) : FreeList(dead)[i] = FreeList(dead)[j] => i = j
  <2>1. \A i, j \in 1 .. Len(alloc.freelist \o pushed) :
          (alloc.freelist \o pushed)[i] = (alloc.freelist \o pushed)[j] => i = j
    <3>1. alloc.freelist \in Seq(Slots) /\ pushed \in Seq(Slots)
      BY <1>1, <1>5
    <3>2. \A i, j \in 1 .. Len(alloc.freelist) :
            alloc.freelist[i] = alloc.freelist[j] => i = j
      BY <1>9
    <3> QED
      BY <1>10, <1>11, <3>1, <3>2, DistinctEntries
  <2> QED
    BY <1>6, <2>1
<1>13. ASSUME NEW i \in 1 .. Len(FreeList(dead))
       PROVE  \/ \E k \in 1 .. Len(alloc.freelist) : FreeList(dead)[i] = alloc.freelist[k]
              \/ \E k \in 1 .. Len(dead) : FreeList(dead)[i] = alloc.pool_map[dead[k]]
  <2>1. alloc.freelist \in Seq(Slots) /\ pushed \in Seq(Slots)
    BY <1>1, <1>5
  <2>2. i \in 1 .. Len(alloc.freelist \o pushed)
    BY <1>6
  <2>3. \/ \E k \in 1 .. Len(alloc.freelist) : (alloc.freelist \o pushed)[i] = alloc.freelist[k]
        \/ \E k \in 1 .. Len(pushed) : (alloc.freelist \o pushed)[i] = pushed[k]
    BY <2>1, <2>2, EntryOfEither, SMTT(90)
  <2> QED
    BY <1>5, <1>6, <2>3
<1>14. ASSUME NEW i \in 1 .. Len(FreeList(dead)) PROVE FreeList(dead)[i] < alloc.next_hwm
  <2>1. CASE \E k \in 1 .. Len(alloc.freelist) : FreeList(dead)[i] = alloc.freelist[k]
    BY <1>1, <1>9, <2>1
  <2>2. CASE \E k \in 1 .. Len(dead) : FreeList(dead)[i] = alloc.pool_map[dead[k]]
    <3>1. PICK k \in 1 .. Len(dead) : FreeList(dead)[i] = alloc.pool_map[dead[k]]
      BY <2>2
    <3>2. dead[k] \in DOMAIN alloc.pool_map
      BY <1>3
    <3> QED
      BY <1>1, <1>9, <3>1, <3>2
  <2> QED
    BY <1>13, <2>1, <2>2
<1>15. \A i \in 1 .. Len(FreeList(dead)) : \A a \in ids \cap DOMAIN alloc.pool_map :
         FreeList(dead)[i] # alloc.pool_map[a]
  BY <1>3, <1>9, <1>13
<1>16. ASSUME NEW s \in 0 .. alloc.next_hwm - 1
       PROVE  \/ \E a \in ids \cap DOMAIN alloc.pool_map : alloc.pool_map[a] = s
              \/ \E i \in 1 .. Len(FreeList(dead)) : FreeList(dead)[i] = s
  <2>1. CASE \E a \in DOMAIN alloc.pool_map : alloc.pool_map[a] = s
    <3>1. PICK a \in DOMAIN alloc.pool_map : alloc.pool_map[a] = s
      BY <2>1
    <3>2. CASE a \notin ids
      <4>1. PICK k \in 1 .. Len(dead) : dead[k] = a
        <5>1. \A id \in DOMAIN alloc.pool_map \ ids : \E i \in 1 .. Len(dead) : dead[i] = id
          BY WalkOfDead
        <5> QED
          BY <3>2, <5>1
      <4>2. pushed[k] = s /\ k \in 1 .. Len(pushed)
        BY <1>5, <3>1, <4>1
      <4>3. \A m \in 1 .. Len(pushed) :
              /\ Len(alloc.freelist) + m \in 1 .. Len(alloc.freelist \o pushed)
              /\ (alloc.freelist \o pushed)[Len(alloc.freelist) + m] = pushed[m]
        BY <1>1, <1>5, Entries
      <4> QED
        BY <1>6, <4>2, <4>3
    <3> QED
      BY <3>1, <3>2
  <2>2. CASE \E i \in 1 .. Len(alloc.freelist) : alloc.freelist[i] = s
    BY <1>1, <1>5, <1>6, <2>2, Entries
  <2>3. \/ \E a \in DOMAIN alloc.pool_map : alloc.pool_map[a] = s
        \/ \E i \in 1 .. Len(alloc.freelist) : alloc.freelist[i] = s
    BY <1>2, SlotsUnfolded
  <2> QED
    BY <2>1, <2>2, <2>3
<1>17. \A a \in DOMAIN alloc.pool_map : alloc.pool_map[a] < alloc.next_hwm
  BY <1>1, <1>9
<1>18. FreeList(dead) \in Seq(Nat)
  BY <1>1, <1>8, SeqMonotonic
<1>19. FreeApart(FreeList(dead), alloc.next_hwm, DOMAIN alloc.pool_map, alloc.pool_map, ids)
  BY <1>1, <1>2, <1>9, <1>12, <1>14, <1>15, <1>17, <1>18 DEF FreeApart
<1>20. FreeOrKept(FreeList(dead), alloc.next_hwm, DOMAIN alloc.pool_map, alloc.pool_map, ids)
  BY <1>16 DEF FreeOrKept
<1> QED
  BY <1>8, <1>19, <1>20

-----------------------------------------------------------------------------
(* The slots after a diff.                                                  *)

\* The part of the freelist that a diff keeps.
LEMMA KeptSlots ==
  ASSUME NEW S, NEW free \in Seq(S), NEW count \in Nat
  PROVE  /\ Kept(free, count) \in Seq(S)
         /\ Len(Kept(free, count)) = Len(free) - Reused(free, count)
         /\ Len(Kept(free, count)) \in 0 .. Len(free)
         /\ \A i \in 1 .. Len(Kept(free, count)) : Kept(free, count)[i] = free[i]
<1>1. Len(free) \in Nat /\ \A i \in 1 .. Len(free) : free[i] \in S
  BY LenProperties, ElementOfSeq
<1>2. Reused(free, count) \in 0 .. Len(free)
  BY <1>1 DEF Reused
<1> DEFINE n == Len(free) - Reused(free, count)
<1>3. n \in 0 .. Len(free) /\ n \in Int /\ 1 \in Int /\ 1 .. n \subseteq 1 .. Len(free)
  BY <1>1, <1>2
<1> HIDE DEF n
<1>4. /\ SubSeq(free, 1, n) \in Seq(S)
      /\ Len(SubSeq(free, 1, n)) = IF 1 <= n THEN n - 1 + 1 ELSE 0
      /\ \A i \in 1 .. n - 1 + 1 : SubSeq(free, 1, n)[i] = free[1 + i - 1]
  BY <1>1, <1>3, SubSeqProperties
<1>5. Len(SubSeq(free, 1, n)) = n
  BY <1>1, <1>3, <1>4
<1>6. \A i \in 1 .. n : SubSeq(free, 1, n)[i] = free[i]
  BY <1>1, <1>3, <1>4
<1> QED
  BY <1>3, <1>4, <1>5, <1>6 DEF Kept, n

\* The slot map after a diff, from the slot map of the live instances before it.
NewMap(ids, Live, map, free, hwm, turn) ==
  [id \in ids |-> IF id \in Live THEN map[id] ELSE Acquired(free, hwm, turn[id])]

\* The slot map and the freelist after a diff: no slot is given twice, none is
\* both mapped and free.  Live instances keep the slots `map` gives them; the
\* instances that are not live take their turns.
LEMMA DiffDistinct ==
  ASSUME NEW count \in Nat, NEW free, NEW hwm, NEW Live, NEW map, NEW ids,
         FreeApart(free, hwm, Live, map, ids),
         NEW turn \in Bijection(ids \ Live, 1 .. count)
  PROVE  /\ NewMap(ids, Live, map, free, hwm, turn) \in [ids -> 0 .. NewHwm(free, hwm, count) - 1]
         /\ \A a, b \in ids : NewMap(ids, Live, map, free, hwm, turn)[a]
                                = NewMap(ids, Live, map, free, hwm, turn)[b] => a = b
         /\ \A i, j \in 1 .. Len(Kept(free, count)) :
              Kept(free, count)[i] = Kept(free, count)[j] => i = j
         /\ \A i \in 1 .. Len(Kept(free, count)) :
              Kept(free, count)[i] \in 0 .. NewHwm(free, hwm, count) - 1
         /\ \A a \in ids : \A i \in 1 .. Len(Kept(free, count)) :
              NewMap(ids, Live, map, free, hwm, turn)[a] # Kept(free, count)[i]
<1>0. /\ free \in Seq(Nat) /\ hwm \in Nat /\ map \in [Live -> Nat]
      /\ \A i, j \in 1 .. Len(free) : free[i] = free[j] => i = j
      /\ \A i \in 1 .. Len(free) : free[i] < hwm
      /\ \A i \in 1 .. Len(free) : \A a \in ids \cap Live : free[i] # map[a]
      /\ \A a, b \in Live : map[a] = map[b] => a = b
      /\ \A a \in Live : map[a] < hwm
  BY DEF FreeApart
<1> DEFINE new == NewMap(ids, Live, map, free, hwm, turn)
           top == NewHwm(free, hwm, count)
           last == Len(free) - Reused(free, count)
           slot(j) == Acquired(free, hwm, j)
<1>1. /\ top \in Nat /\ top >= hwm
      /\ \A j \in 1 .. count : slot(j) \in 0 .. top - 1
      /\ \A j, k \in 1 .. count : slot(j) = slot(k) => j = k
      /\ \A j \in 1 .. count :
           slot(j) >= hwm \/ \E i \in 1 .. Len(free) : i > last /\ slot(j) = free[i]
  BY <1>0, AcquiredSlots
<1>2. /\ Len(free) \in Nat /\ Len(Kept(free, count)) = last
      /\ last \in 0 .. Len(free)
      /\ \A i \in 1 .. last : Kept(free, count)[i] = free[i]
      /\ \A i \in 1 .. Len(free) : free[i] \in Nat
  BY <1>0, KeptSlots, LenProperties, ElementOfSeq
<1>3. /\ turn \in [ids \ Live -> 1 .. count]
      /\ \A a, b \in ids \ Live : turn[a] = turn[b] => a = b
  BY DEF Bijection, Injection, IsInjective
<1>4. \A a \in ids \cap Live : new[a] = map[a] /\ map[a] \in 0 .. hwm - 1
  BY <1>0 DEF NewMap
<1>5. \A a \in ids \ Live : new[a] = slot(turn[a]) /\ turn[a] \in 1 .. count
  BY <1>3 DEF NewMap
<1>6. new = [a \in ids |-> new[a]]
  BY DEF NewMap
<1> DEFINE kept == Kept(free, count)
<1> HIDE DEF new, top, last, slot, kept
<1>7. ASSUME NEW a \in ids
      PROVE  new[a] \in 0 .. top - 1
  BY <1>0, <1>1, <1>4, <1>5
<1>8. ASSUME NEW a \in ids \cap Live, NEW b \in ids \ Live
      PROVE  new[a] # new[b]
  <2>1. slot(turn[b]) >= hwm
        \/ \E i \in 1 .. Len(free) : i > last /\ slot(turn[b]) = free[i]
    BY <1>1, <1>5
  <2>2. CASE slot(turn[b]) >= hwm
    BY <1>0, <1>4, <1>5, <2>2
  <2>3. CASE \E i \in 1 .. Len(free) : i > last /\ slot(turn[b]) = free[i]
    BY <1>0, <1>4, <1>5, <2>3
  <2> QED
    BY <2>1, <2>2, <2>3
<1>9. ASSUME NEW a \in ids, NEW b \in ids, new[a] = new[b]
      PROVE  a = b
  <2>1. CASE a \in Live /\ b \in Live
    BY <1>0, <1>4, <1>9, <2>1
  <2>2. CASE a \notin Live /\ b \notin Live
    BY <1>1, <1>3, <1>5, <1>9, <2>2
  <2>3. CASE a \in Live /\ b \notin Live
    BY <1>8, <1>9, <2>3
  <2>4. CASE a \notin Live /\ b \in Live
    BY <1>8, <1>9, <2>4
  <2> QED
    BY <2>1, <2>2, <2>3, <2>4
<1>10. ASSUME NEW a \in ids, NEW i \in 1 .. last
      PROVE  new[a] # free[i]
  <2>1. CASE a \in Live
    BY <1>0, <1>2, <1>4, <2>1
  <2>2. CASE a \notin Live
    <3>1. slot(turn[a]) >= hwm
          \/ \E k \in 1 .. Len(free) : k > last /\ slot(turn[a]) = free[k]
      BY <1>1, <1>5, <2>2
    <3>2. i \in 1 .. Len(free) /\ free[i] < hwm /\ free[i] \in Nat
      BY <1>0, <1>2
    <3>3. CASE slot(turn[a]) >= hwm
      BY <1>0, <1>5, <2>2, <3>2, <3>3
    <3>4. CASE \E k \in 1 .. Len(free) : k > last /\ slot(turn[a]) = free[k]
      BY <1>0, <1>2, <1>5, <2>2, <3>2, <3>4
    <3> QED
      BY <3>1, <3>3, <3>4
  <2> QED
    BY <2>1, <2>2
<1>11. \A i \in 1 .. last : i \in 1 .. Len(free) /\ free[i] \in 0 .. top - 1
  BY <1>0, <1>1, <1>2
<1>12. new \in [ids -> 0 .. top - 1]
  BY <1>7, <1>6
<1>13. /\ Len(kept) = last /\ Len(free) \in Nat /\ last \in 0 .. Len(free)
       /\ \A i \in 1 .. last : kept[i] = free[i]
  BY <1>2 DEF kept
<1>14. \A i, j \in 1 .. Len(kept) : kept[i] = kept[j] => i = j
  BY <1>0, <1>11, <1>13
<1>15. \A i \in 1 .. Len(kept) : kept[i] \in 0 .. top - 1
  BY <1>11, <1>13
<1>16. \A a \in ids : \A i \in 1 .. Len(kept) : new[a] # kept[i]
  BY <1>10, <1>13
<1> QED
  BY <1>9, <1>12, <1>14, <1>15, <1>16 DEF new, top, kept

\* Every slot below the new high-water mark is mapped or kept free.
LEMMA DiffCovers ==
  ASSUME NEW count \in Nat, NEW free, NEW hwm, NEW Live, NEW map, NEW ids,
         FreeApart(free, hwm, Live, map, ids), FreeOrKept(free, hwm, Live, map, ids),
         NEW turn \in Bijection(ids \ Live, 1 .. count),
         NEW s \in 0 .. NewHwm(free, hwm, count) - 1
  PROVE  \/ \E a \in ids : NewMap(ids, Live, map, free, hwm, turn)[a] = s
         \/ \E i \in 1 .. Len(Kept(free, count)) : Kept(free, count)[i] = s
<1> DEFINE new == NewMap(ids, Live, map, free, hwm, turn)
<1>0. /\ free \in Seq(Nat) /\ hwm \in Nat
      /\ \A i, j \in 1 .. Len(free) : free[i] = free[j] => i = j
      /\ \A i \in 1 .. Len(free) : free[i] < hwm
      /\ \A t \in 0 .. hwm - 1 : \/ \E a \in ids \cap Live : map[a] = t
                                 \/ \E i \in 1 .. Len(free) : free[i] = t
  BY DEF FreeApart, FreeOrKept
<1>1. /\ NewHwm(free, hwm, count) \in Nat
      /\ \A i \in 1 .. Len(free) : i > Len(free) - Reused(free, count) =>
           \E j \in 1 .. count : Acquired(free, hwm, j) = free[i]
      /\ \A t \in hwm .. NewHwm(free, hwm, count) - 1 :
           \E j \in 1 .. count : Acquired(free, hwm, j) = t
  BY <1>0, AcquiredSlots
<1>2. ASSUME NEW j \in 1 .. count
      PROVE  \E a \in ids : new[a] = Acquired(free, hwm, j)
  <2>1. PICK a \in ids \ Live : turn[a] = j
    BY DEF Bijection, Surjection
  <2> QED
    BY <2>1 DEF NewMap
<1>3. CASE s >= hwm
  <2>1. s \in hwm .. NewHwm(free, hwm, count) - 1
    BY <1>0, <1>1, <1>3
  <2>2. PICK j \in 1 .. count : Acquired(free, hwm, j) = s
    BY <1>1, <2>1
  <2> QED
    BY <1>2, <2>2
<1>4. CASE \E a \in ids \cap Live : map[a] = s
  BY <1>4 DEF NewMap
<1>5. CASE \E i \in 1 .. Len(free) : free[i] = s
  <2>1. PICK i \in 1 .. Len(free) : free[i] = s
    BY <1>5
  <2>2. CASE i > Len(free) - Reused(free, count)
    <3>1. PICK j \in 1 .. count : Acquired(free, hwm, j) = free[i]
      BY <1>1, <2>2
    <3> QED
      BY <1>2, <2>1, <3>1
  <2>3. CASE i <= Len(free) - Reused(free, count)
    <3>1. i \in 1 .. Len(Kept(free, count)) /\ Kept(free, count)[i] = free[i]
      BY <1>0, <2>3, KeptSlots
    <3> QED
      BY <2>1, <3>1
  <2>4. Len(free) \in Nat /\ Len(free) - Reused(free, count) \in Int
    BY <1>0, LenProperties, KeptSlots
  <2> QED
    BY <2>2, <2>3, <2>4
<1>6. s >= hwm \/ s \in 0 .. hwm - 1
  BY <1>0, <1>1
<1>7. CASE s \in 0 .. hwm - 1
  BY <1>0, <1>4, <1>5, <1>7
<1> QED
  BY <1>3, <1>6, <1>7

\* A diff, its fields named.
LEMMA DiffFields ==
  ASSUME PlannerInv, NEW count \in Nat, NEW ids, NEW dead,
         NEW turn \in Bijection(MintedIds(count), 1 .. count)
  PROVE  Diff(ids, dead, turn) =
           [pool_map |-> NewMap(ids, DOMAIN alloc.pool_map, alloc.pool_map,
                                FreeList(dead), alloc.next_hwm, turn),
            freelist |-> Kept(FreeList(dead), count),
            next_hwm |-> NewHwm(FreeList(dead), alloc.next_hwm, count)]
<1>1. DOMAIN turn = MintedIds(count)
  BY DEF Bijection, Injection
<1>2. next_id \in Int /\ next_id + count - 1 \in Int
  BY PlannerTypes DEF PlannerInv
<1>3. Cardinality(MintedIds(count)) = count
  <2>1. Cardinality(next_id .. next_id + count - 1) =
          IF next_id > next_id + count - 1 THEN 0 ELSE (next_id + count - 1) - next_id + 1
    BY <1>2, FS_Interval
  <2>2. CASE count = 0
    BY <1>2, <2>1, <2>2 DEF MintedIds
  <2>3. CASE count > 0
    BY <1>2, <2>1, <2>3 DEF MintedIds
  <2> QED
    BY <2>2, <2>3
<1>4. Cardinality(DOMAIN turn) = count
  BY <1>1, <1>3
<1> QED
  BY <1>4, Zenon DEF Diff, FreeList, Kept, NewHwm, Reused, NewMap

\* The allocation `d` serves exactly the instances `ids`: the slots below its
\* high-water mark are each mapped once or free once, and instances that were
\* allocated before keep their slots.
Allocates(d, ids) ==
  /\ d \in [pool_map : PartialMaps(InstanceIds, Slots),
            freelist : Seq(Slots), next_hwm : 0 .. PoolCapacity]
  /\ DOMAIN d.pool_map = ids
  /\ IsInjective(d.pool_map)
  /\ IsInjective(d.freelist)
  /\ Range(d.pool_map) \cap ToSet(d.freelist) = {}
  /\ Range(d.pool_map) \cup ToSet(d.freelist) = 0 .. d.next_hwm - 1
  /\ \A id \in ids \cap DOMAIN alloc.pool_map : d.pool_map[id] = alloc.pool_map[id]

\* A diff that fits the pool leaves the slots partitioned, whatever the order in
\* which the two hash tables are walked.
LEMMA DiffOk ==
  ASSUME PlannerInv, NEW count \in Nat, NEW ids \in SUBSET InstanceIds,
         MintedIds(count) = ids \ DOMAIN alloc.pool_map,
         NEW dead \in SetToSeqs(DOMAIN alloc.pool_map \ ids),
         NEW turn \in Bijection(MintedIds(count), 1 .. count),
         Diff(ids, dead, turn).next_hwm <= PoolCapacity
  PROVE  Allocates(Diff(ids, dead, turn), ids)
<1> DEFINE free == FreeList(dead)
           hwm  == alloc.next_hwm
           Live == DOMAIN alloc.pool_map
           map  == alloc.pool_map
           new  == NewMap(ids, Live, map, free, hwm, turn)
           kept == Kept(free, count)
           top  == NewHwm(free, hwm, count)
<1>1. Diff(ids, dead, turn) = [pool_map |-> new, freelist |-> kept, next_hwm |-> top]
  BY DiffFields, Zenon
<1>2. /\ free \in Seq(Slots)
      /\ FreeApart(free, hwm, Live, map, ids)
      /\ FreeOrKept(free, hwm, Live, map, ids)
  BY FreeSlots
<1>3. hwm \in Nat /\ PoolCapacity \in Nat
  BY PlannerTypes DEF PlannerInv
<1>4. turn \in Bijection(ids \ Live, 1 .. count)
  OBVIOUS
<1> HIDE DEF free, hwm, Live, map, kept, top
<1>5. /\ new \in [ids -> 0 .. top - 1]
      /\ \A a, b \in ids : new[a] = new[b] => a = b
      /\ \A i, j \in 1 .. Len(kept) : kept[i] = kept[j] => i = j
      /\ \A i \in 1 .. Len(kept) : kept[i] \in 0 .. top - 1
      /\ \A a \in ids : \A i \in 1 .. Len(kept) : new[a] # kept[i]
  BY <1>2, <1>4, DiffDistinct DEF new, kept, top
<1>6. \A s \in 0 .. top - 1 : \/ \E a \in ids : new[a] = s
                              \/ \E i \in 1 .. Len(kept) : kept[i] = s
  BY <1>2, <1>4, DiffCovers DEF new, kept, top
<1>7. /\ kept \in Seq(Slots) /\ DOMAIN kept = 1 .. Len(kept)
  BY <1>2, KeptSlots, LenProperties DEF kept
<1>8. top \in Nat
  BY <1>2, AcquiredSlots DEF top, FreeApart
<1>9. \A id \in ids \cap Live : new[id] = map[id]
  BY DEF NewMap
<1> HIDE DEF new
<1>10. top <= PoolCapacity
  BY <1>1
<1>11. new \in PartialMaps(InstanceIds, Slots)
  <2>1. 0 .. top - 1 \subseteq Slots
    BY <1>3, <1>8, <1>10 DEF Slots
  <2>2. new \in [ids -> Slots]
    BY <1>5, <2>1
  <2> QED
    BY <2>2, PartialMapIntro
<1>12. DOMAIN new = ids /\ IsInjective(new) /\ IsInjective(kept)
  BY <1>5, <1>7 DEF IsInjective
<1>13. Range(new) \cap ToSet(kept) = {}
  BY <1>5, <1>7, <1>12 DEF Range, ToSet
<1>14. Range(new) \cup ToSet(kept) = 0 .. top - 1
  <2>1. Range(new) \subseteq 0 .. top - 1
    BY <1>5, <1>12 DEF Range
  <2>2. ToSet(kept) \subseteq 0 .. top - 1
    BY <1>5, <1>7 DEF ToSet
  <2>3. 0 .. top - 1 \subseteq Range(new) \cup ToSet(kept)
    BY <1>6, <1>7, <1>12 DEF Range, ToSet
  <2> QED
    BY <2>1, <2>2, <2>3
<1> QED
  BY <1>1, <1>3, <1>7, <1>8, <1>9, <1>10, <1>11, <1>12, <1>13, <1>14
     DEF Live, map, Allocates

-----------------------------------------------------------------------------
(* Types of the planner's view and of plans.                                *)

\* The planner's view of the pool holds the module of every node, at the slot
\* of the node's instance.
LEMMA MirrorOf ==
  ASSUME NEW graph, graph \in [DOMAIN graph -> Modules],
         NEW map \in PartialMaps(InstanceIds, Slots),
         DOMAIN map = {graph[n].id : n \in DOMAIN graph},
         IsInjective(map),
         \A m, n \in DOMAIN graph : graph[m].id = graph[n].id => m = n
  PROVE  /\ Mirror(graph, map) \in PartialMaps(Slots, Modules)
         /\ DOMAIN Mirror(graph, map) = {map[graph[n].id] : n \in DOMAIN graph}
         /\ \A n \in DOMAIN graph : Mirror(graph, map)[map[graph[n].id]] = graph[n]
<1> DEFINE D == {map[graph[n].id] : n \in DOMAIN graph}
           node(s) == CHOOSE n \in DOMAIN graph : map[graph[n].id] = s
<1>1. Mirror(graph, map) = [s \in D |-> graph[node(s)]]
  BY DEF Mirror
<1>2. map \in [DOMAIN map -> Slots]
  BY PartialMapElim
<1>3. \A n \in DOMAIN graph : graph[n].id \in DOMAIN map /\ map[graph[n].id] \in Slots
  BY <1>2
<1>4. \A s \in D : node(s) \in DOMAIN graph /\ map[graph[node(s)].id] = s
  OBVIOUS
<1>5. \A n \in DOMAIN graph : node(map[graph[n].id]) = n
  <2> SUFFICES ASSUME NEW n \in DOMAIN graph PROVE node(map[graph[n].id]) = n
    OBVIOUS
  <2>1. /\ node(map[graph[n].id]) \in DOMAIN graph
        /\ map[graph[node(map[graph[n].id])].id] = map[graph[n].id]
    BY <1>4
  <2>2. graph[node(map[graph[n].id])].id = graph[n].id
    BY <1>3, <2>1 DEF IsInjective
  <2> QED
    BY <2>1, <2>2
<1> HIDE DEF node
<1>6. Mirror(graph, map) \in [D -> Modules]
  BY <1>1, <1>4
<1>7. D \in SUBSET Slots
  BY <1>3
<1>8. Mirror(graph, map) \in PartialMaps(Slots, Modules)
  BY <1>6, <1>7, PartialMapIntro
<1>9. \A n \in DOMAIN graph : Mirror(graph, map)[map[graph[n].id]] = graph[n]
  BY <1>1, <1>5
<1> QED
  BY <1>6, <1>8, <1>9

\* A plan between two views of the pool is well typed.
LEMMA PlanForType ==
  ASSUME NEW before \in PartialMaps(Slots, Modules),
         NEW after \in PartialMaps(Slots, Modules),
         NEW survivors, NEW dead \in SUBSET Slots
  PROVE  PlanFor(before, after, survivors, dead) \in Plans
<1> DEFINE new == NewModules(before, after, survivors)
           U == {t \in DOMAIN after : /\ after[t].id \in survivors
                                      /\ before[t].settings # after[t].settings}
           updates == [s \in U |-> after[s].settings]
<1>1. DOMAIN after \in SUBSET Slots /\ after \in [DOMAIN after -> Modules]
  BY PartialMapElim
<1>2. new \in PartialMaps(Slots, Modules)
  <2> DEFINE N == {t \in DOMAIN after : after[t].id \notin survivors}
  <2>1. new \in [N -> Modules] /\ N \in SUBSET Slots
    BY <1>1 DEF NewModules
  <2> QED
    BY <2>1, PartialMapIntro
<1>3. updates \in PartialMaps(Slots, Settings)
  <2>1. updates \in [U -> Settings] /\ U \in SUBSET Slots
    BY <1>1 DEF Modules
  <2> QED
    BY <2>1, PartialMapIntro
<1>4. 0 \in 0 .. MaxReloads
  BY BoundsAssumption
<1> HIDE DEF new, updates
<1>5. PlanFor(before, after, survivors, dead) =
        [target |-> after, generation |-> 0, tombstones |-> dead,
         new_modules |-> new, updates |-> updates, active_indices |-> DOMAIN after]
  BY DEF PlanFor, new, updates
<1> QED
  BY <1>1, <1>2, <1>3, <1>4, <1>5 DEF Plans

\* Applying a plan keeps the pool well typed.
LEMMA ApplyType ==
  ASSUME NEW p \in PartialMaps(Slots, Modules), NEW link \in Plans
  PROVE  Apply(p, link) \in PartialMaps(Slots, Modules)
<1> DEFINE new == link.new_modules
           up  == link.updates
           t   == Tombstone(p, link.tombstones)
           i   == Install(t, new)
<1>1. /\ DOMAIN p \in SUBSET Slots /\ p \in [DOMAIN p -> Modules]
      /\ DOMAIN new \in SUBSET Slots /\ new \in [DOMAIN new -> Modules]
      /\ DOMAIN up \in SUBSET Slots /\ up \in [DOMAIN up -> Settings]
  BY PartialMapElim DEF Plans
<1>2. DOMAIN t \in SUBSET Slots /\ t \in [DOMAIN t -> Modules]
  BY <1>1 DEF Tombstone, Restrict
<1> HIDE DEF t, new, up
<1>3. DOMAIN i \in SUBSET Slots /\ i \in [DOMAIN i -> Modules]
  BY <1>1, <1>2 DEF Install
<1> HIDE DEF i
<1>4. \A s \in DOMAIN i : s \in DOMAIN up => [i[s] EXCEPT !.settings = up[s]] \in Modules
  BY <1>1, <1>3 DEF Modules
<1>5. Update(i, up) \in [DOMAIN i -> Modules]
  BY <1>3, <1>4 DEF Update
<1>6. Update(i, up) \in PartialMaps(Slots, Modules)
  BY <1>3, <1>5, PartialMapIntro
<1> QED
  BY <1>6 DEF Apply, i, t, new, up

-----------------------------------------------------------------------------
(* One compilation, its choices named.                                      *)

\* Number of instances a patch mints; ids of a graph's instances; the ids whose
\* nodes are gone.
Count(patch) == Cardinality(Installed(patch))
IdsOf(graph) == {graph[n].id : n \in DOMAIN graph}
Gone(graph)  == DOMAIN alloc.pool_map \ IdsOf(graph)

\* Compile with its four choices made: the patch, the ids minted for it, and the
\* orders in which the two hash tables are walked.
CompileWith(patch, minted, dead, turn) ==
  LET graph == Classify(patch, minted)
      diff  == Diff(IdsOf(graph), dead, turn)
  IN  /\ outgoing = <<>>
      /\ generation < MaxReloads
      /\ next_id + Count(patch) - 1 <= MaxInstances
      /\ diff.next_hwm <= PoolCapacity
      /\ nodes' = graph
      /\ alloc' = diff
      /\ outgoing' = <<PlanFor(Mirror(nodes, alloc.pool_map), Mirror(graph, diff.pool_map),
                               IdsOf(graph) \ MintedIds(Count(patch)),
                               {alloc.pool_map[id] : id \in Gone(graph)})>>
      /\ next_id' = next_id + Count(patch)
      /\ UNCHANGED <<generation, plan_ring, audioVars>>

\* A compilation makes its choices in this order.
LEMMA CompileChoices ==
  ASSUME Compile
  PROVE  \E patch \in Patches :
           \E minted \in Bijection(Installed(patch), MintedIds(Count(patch))) :
             \E dead \in SetToSeqs(Gone(Classify(patch, minted))),
                turn \in Bijection(MintedIds(Count(patch)), 1 .. Count(patch)) :
               CompileWith(patch, minted, dead, turn)
<1>1. PICK patch \in Patches :
        /\ outgoing = <<>>
        /\ generation < MaxReloads
        /\ next_id + Count(patch) - 1 <= MaxInstances
        /\ \E minted \in Bijection(Installed(patch), MintedIds(Count(patch))) :
             \E dead \in SetToSeqs(Gone(Classify(patch, minted))),
                turn \in Bijection(MintedIds(Count(patch)), 1 .. Count(patch)) :
               LET graph == Classify(patch, minted)
                   diff  == Diff(IdsOf(graph), dead, turn)
               IN  /\ diff.next_hwm <= PoolCapacity
                   /\ nodes' = graph
                   /\ alloc' = diff
                   /\ outgoing' = <<PlanFor(Mirror(nodes, alloc.pool_map),
                                            Mirror(graph, diff.pool_map),
                                            IdsOf(graph) \ MintedIds(Count(patch)),
                                            {alloc.pool_map[id] : id \in Gone(graph)})>>
        /\ next_id' = next_id + Count(patch)
        /\ UNCHANGED <<generation, plan_ring, audioVars>>
  BY Zenon DEF Compile, Count, IdsOf, Gone
<1>2. PICK minted \in Bijection(Installed(patch), MintedIds(Count(patch))) :
        \E dead \in SetToSeqs(Gone(Classify(patch, minted))),
           turn \in Bijection(MintedIds(Count(patch)), 1 .. Count(patch)) :
          CompileWith(patch, minted, dead, turn)
  BY <1>1, Zenon DEF CompileWith
<1> QED
  BY <1>2

\* What a compilation does to the planner: the graph is well typed and its nodes
\* have instances of their own; survivors keep instance and kind; the new slot
\* map gives every instance a slot of its own, survivors the one they had.
LEMMA Compiled ==
  ASSUME PlannerInv, NEW patch \in Patches,
         NEW minted \in Bijection(Installed(patch), MintedIds(Count(patch))),
         NEW dead \in SetToSeqs(Gone(Classify(patch, minted))),
         NEW turn \in Bijection(MintedIds(Count(patch)), 1 .. Count(patch)),
         CompileWith(patch, minted, dead, turn)
  PROVE  /\ Count(patch) \in Nat /\ next_id' \in 1 .. MaxInstances + 1
         /\ nodes' \in [DOMAIN nodes' -> Modules] /\ DOMAIN nodes' \in SUBSET NodeIds
         /\ \A m, n \in DOMAIN nodes' : nodes'[m].id = nodes'[n].id => m = n
         /\ \A n \in DOMAIN nodes' : nodes'[n].id < next_id'
         /\ \A n \in DOMAIN nodes' :
              \/ /\ n \in DOMAIN nodes /\ nodes'[n].id = nodes[n].id
                 /\ nodes'[n].kind = nodes[n].kind
              \/ nodes'[n].id \in MintedIds(Count(patch))
         /\ MintedIds(Count(patch)) = IdsOf(nodes') \ DOMAIN alloc.pool_map
         /\ alloc' \in [pool_map : PartialMaps(InstanceIds, Slots),
                        freelist : Seq(Slots), next_hwm : 0 .. PoolCapacity]
         /\ SlotsPartitioned'
         /\ \A id \in IdsOf(nodes') \cap DOMAIN alloc.pool_map :
              alloc'.pool_map[id] = alloc.pool_map[id]
<1> DEFINE graph == Classify(patch, minted)
           count == Count(patch)
           ids   == IdsOf(graph)
           diff  == Diff(ids, dead, turn)
<1>1. /\ next_id + count - 1 <= MaxInstances
      /\ diff.next_hwm <= PoolCapacity
      /\ nodes' = graph /\ alloc' = diff /\ next_id' = next_id + count
  BY DEF CompileWith
<1>2. /\ next_id \in 1 .. MaxInstances + 1 /\ MaxInstances \in Nat
      /\ nodes \in [DOMAIN nodes -> Modules]
  BY PlannerTypes DEF PlannerInv
<1>3. /\ count \in Nat /\ DOMAIN graph \in SUBSET NodeIds
      /\ graph \in [DOMAIN graph -> Modules]
      /\ \A m, n \in DOMAIN graph : graph[m].id = graph[n].id => m = n
      /\ \A n \in DOMAIN graph : graph[n].id < next_id + count
      /\ \A n \in Survivors(patch) : /\ n \in DOMAIN nodes /\ n \in DOMAIN graph
                                     /\ graph[n].id = nodes[n].id
                                     /\ graph[n].kind = nodes[n].kind
      /\ \A n \in DOMAIN graph \ Survivors(patch) : graph[n].id \in MintedIds(count)
      /\ \A id \in MintedIds(count) : \E n \in DOMAIN graph : graph[n].id = id
  BY <1>1, ClassifiedGraph DEF Count
<1> HIDE DEF graph, count
<1>4. next_id' \in 1 .. MaxInstances + 1
  BY <1>1, <1>2, <1>3
<1>5. /\ DOMAIN alloc.pool_map = {nodes[n].id : n \in DOMAIN nodes}
      /\ \A n \in DOMAIN nodes : nodes[n].id < next_id
  BY DEF PlannerInv, SlotsPartitioned, InstancesDistinct
<1>6. MintedIds(count) = ids \ DOMAIN alloc.pool_map
  <2>1. \A id \in MintedIds(count) : id >= next_id /\ id \in Nat
    BY <1>2, <1>3 DEF MintedIds
  <2>2. \A id \in DOMAIN alloc.pool_map : id \in Nat /\ id < next_id
    BY <1>2, <1>5 DEF Modules, InstanceIds
  <2>3. MintedIds(count) \subseteq ids
    BY <1>3 DEF IdsOf
  <2>4. MintedIds(count) \cap DOMAIN alloc.pool_map = {}
    BY <1>2, <2>1, <2>2
  <2>5. \A id \in ids : id \in MintedIds(count) \/ id \in DOMAIN alloc.pool_map
    BY <1>3, <1>5 DEF IdsOf
  <2> QED
    BY <2>3, <2>4, <2>5
<1>7. ids \in SUBSET InstanceIds
  BY <1>3 DEF IdsOf, Modules
<1>8. /\ dead \in SetToSeqs(DOMAIN alloc.pool_map \ ids)
      /\ turn \in Bijection(MintedIds(count), 1 .. count)
  BY DEF Gone, graph, count
<1> HIDE DEF ids
<1>9. Allocates(diff, ids)
  BY <1>1, <1>3, <1>6, <1>7, <1>8, DiffOk
<1> HIDE DEF diff
<1>10. SlotsPartitioned'
  BY <1>1, <1>9 DEF SlotsPartitioned, Allocates, ids, IdsOf
<1>11. \A n \in DOMAIN graph :
         \/ /\ n \in DOMAIN nodes /\ graph[n].id = nodes[n].id
            /\ graph[n].kind = nodes[n].kind
         \/ graph[n].id \in MintedIds(count)
  BY <1>3
<1>12. IdsOf(nodes') = ids
  BY <1>1 DEF ids, IdsOf
<1> QED
  BY <1>1, <1>3, <1>4, <1>6, <1>9, <1>10, <1>11, <1>12 DEF count, Allocates

-----------------------------------------------------------------------------
(* The planner's invariant is inductive.                                    *)

\* The plan a compilation returns is well typed.
LEMMA CompiledPlan ==
  ASSUME PlannerInv, NEW patch \in Patches,
         NEW minted \in Bijection(Installed(patch), MintedIds(Count(patch))),
         NEW dead \in SetToSeqs(Gone(Classify(patch, minted))),
         NEW turn \in Bijection(MintedIds(Count(patch)), 1 .. Count(patch)),
         CompileWith(patch, minted, dead, turn)
  PROVE  /\ outgoing' = <<PlanFor(Mirror(nodes, alloc.pool_map),
                                  Mirror(nodes', alloc'.pool_map),
                                  IdsOf(nodes') \ MintedIds(Count(patch)),
                                  {alloc.pool_map[id] : id \in Gone(nodes')})>>
         /\ outgoing' \in Seq(Plans) /\ Len(outgoing') = 1
<1>1. outgoing' = <<PlanFor(Mirror(nodes, alloc.pool_map),
                            Mirror(nodes', alloc'.pool_map),
                            IdsOf(nodes') \ MintedIds(Count(patch)),
                            {alloc.pool_map[id] : id \in Gone(nodes')})>>
  BY Zenon DEF CompileWith
<1>2. /\ nodes \in [DOMAIN nodes -> Modules]
      /\ alloc.pool_map \in PartialMaps(InstanceIds, Slots)
      /\ alloc.pool_map \in [DOMAIN alloc.pool_map -> Slots]
  BY PlannerTypes DEF PlannerInv, TypeOK
<1>3. Mirror(nodes, alloc.pool_map) \in PartialMaps(Slots, Modules)
  BY <1>2, MirrorOf DEF PlannerInv, SlotsPartitioned, InstancesDistinct
<1>4. /\ nodes' \in [DOMAIN nodes' -> Modules]
      /\ alloc'.pool_map \in PartialMaps(InstanceIds, Slots)
      /\ DOMAIN alloc'.pool_map = {nodes'[n].id : n \in DOMAIN nodes'}
      /\ IsInjective(alloc'.pool_map)
      /\ \A m, n \in DOMAIN nodes' : nodes'[m].id = nodes'[n].id => m = n
  BY Compiled DEF SlotsPartitioned
<1>5. Mirror(nodes', alloc'.pool_map) \in PartialMaps(Slots, Modules)
  BY <1>4, MirrorOf
<1>6. {alloc.pool_map[id] : id \in Gone(nodes')} \in SUBSET Slots
  BY <1>2 DEF Gone
<1> DEFINE link == PlanFor(Mirror(nodes, alloc.pool_map),
                           Mirror(nodes', alloc'.pool_map),
                           IdsOf(nodes') \ MintedIds(Count(patch)),
                           {alloc.pool_map[id] : id \in Gone(nodes')})
<1>7. link \in Plans
  BY <1>3, <1>5, <1>6, PlanForType
<1> HIDE DEF link
<1>8. <<link>> \in Seq(Plans) /\ Len(<<link>>) = 1
  BY <1>7
<1> QED
  BY <1>1, <1>8 DEF link

\* An empty patch: no instance, no slot, nothing free.
LEMMA InitPlanner ==
  ASSUME Init
  PROVE  PlannerInv
<1>1. EmptyMap \in PartialMaps(NodeIds, Modules)
      /\ EmptyMap \in PartialMaps(InstanceIds, Slots)
      /\ EmptyMap \in PartialMaps(Slots, Modules)
  <2>1. \A S, T : EmptyMap \in PartialMaps(S, T)
    <3> SUFFICES ASSUME NEW S, NEW T PROVE EmptyMap \in PartialMaps(S, T)
      OBVIOUS
    <3>1. EmptyMap \in [{} -> T] /\ {} \in SUBSET S
      BY DEF EmptyMap
    <3> QED
      BY <3>1, PartialMapIntro
  <2> QED
    BY <2>1
<1>2. /\ MaxInstances \in Nat /\ MaxReloads \in Nat /\ PoolCapacity \in Nat
      /\ PlanRing \in Nat \ {0}
  BY BoundsAssumption, CapacityAssumption, PlanRingAssumption
<1>3. TypeOK
  BY <1>1, <1>2 DEF Init, TypeOK
<1>4. DOMAIN EmptyMap = {}
  BY DEF EmptyMap
<1>5. DOMAIN <<>> = {}
  OBVIOUS
<1>6. SlotsPartitioned
  <2>1. Range(EmptyMap) = {} /\ IsInjective(EmptyMap)
    BY <1>4 DEF Range, IsInjective
  <2>2. ToSet(<<>>) = {} /\ IsInjective(<<>>)
    BY <1>5 DEF ToSet, IsInjective
  <2>3. 0 .. 0 - 1 = {}
    OBVIOUS
  <2>4. {nodes[n].id : n \in DOMAIN nodes} = {}
    BY <1>4 DEF Init
  <2> QED
    BY <1>4, <2>1, <2>2, <2>3, <2>4 DEF Init, SlotsPartitioned
<1>7. InstancesDistinct
  BY <1>4 DEF Init, InstancesDistinct
<1>8. StampsLeft
  BY <1>2 DEF Init, StampsLeft
<1> QED
  BY <1>3, <1>6, <1>7, <1>8 DEF PlannerInv

\* A successful compilation commits a consistent planner state.
LEMMA CompilePlanner ==
  ASSUME PlannerInv, Compile
  PROVE  PlannerInv'
<1>1. PICK patch \in Patches :
        \E minted \in Bijection(Installed(patch), MintedIds(Count(patch))) :
          \E dead \in SetToSeqs(Gone(Classify(patch, minted))),
             turn \in Bijection(MintedIds(Count(patch)), 1 .. Count(patch)) :
            CompileWith(patch, minted, dead, turn)
  BY CompileChoices
<1>2. PICK minted \in Bijection(Installed(patch), MintedIds(Count(patch))) :
        \E dead \in SetToSeqs(Gone(Classify(patch, minted))),
           turn \in Bijection(MintedIds(Count(patch)), 1 .. Count(patch)) :
          CompileWith(patch, minted, dead, turn)
  BY <1>1
<1>3. PICK dead \in SetToSeqs(Gone(Classify(patch, minted))),
           turn \in Bijection(MintedIds(Count(patch)), 1 .. Count(patch)) :
        CompileWith(patch, minted, dead, turn)
  BY <1>2
<1>4. /\ outgoing = <<>> /\ generation < MaxReloads
      /\ UNCHANGED <<generation, plan_ring, pool, active, adopted>>
  BY <1>3 DEF CompileWith, audioVars
<1>5. TypeOK
  BY DEF PlannerInv
<1>6. outgoing' \in Seq(Plans) /\ Len(outgoing') = 1
  BY <1>3, CompiledPlan
<1>7. /\ nodes' \in [DOMAIN nodes' -> Modules] /\ DOMAIN nodes' \in SUBSET NodeIds
      /\ next_id' \in 1 .. MaxInstances + 1
      /\ alloc' \in [pool_map : PartialMaps(InstanceIds, Slots),
                     freelist : Seq(Slots), next_hwm : 0 .. PoolCapacity]
      /\ SlotsPartitioned'
      /\ InstancesDistinct'
  BY <1>3, Compiled DEF InstancesDistinct
<1>8. nodes' \in PartialMaps(NodeIds, Modules)
  BY <1>7, PartialMapIntro
<1>9. TypeOK'
  BY <1>4, <1>5, <1>6, <1>7, <1>8 DEF TypeOK
<1>10. StampsLeft'
  BY <1>4, <1>5, <1>6, BoundsAssumption DEF TypeOK, StampsLeft
<1> QED
  BY <1>7, <1>9, <1>10 DEF PlannerInv

\* A failed build only uses up instance ids.
LEMMA CompileFailsPlanner ==
  ASSUME PlannerInv, CompileFails
  PROVE  PlannerInv'
<1>1. PICK patch \in Patches :
        \E spent \in 1 .. Cardinality(Installed(patch)) :
          next_id + spent - 1 <= MaxInstances /\ next_id' = next_id + spent
  BY DEF CompileFails
<1> PICK spent \in 1 .. Cardinality(Installed(patch)) :
      next_id + spent - 1 <= MaxInstances /\ next_id' = next_id + spent
  BY <1>1
<1>2. UNCHANGED <<nodes, alloc, generation, outgoing, plan_ring, pool, active, adopted>>
  BY DEF CompileFails, ringVars, audioVars
<1>3. TypeOK /\ next_id \in 1 .. MaxInstances + 1 /\ MaxInstances \in Nat
  BY PlannerTypes DEF PlannerInv
<1>4. spent \in Nat /\ spent >= 1
  BY FinitePatch
<1>5. next_id' \in 1 .. MaxInstances + 1 /\ next_id' > next_id
  BY <1>3, <1>4
<1>6. TypeOK'
  BY <1>2, <1>3, <1>5 DEF TypeOK
<1>7. SlotsPartitioned'
  BY <1>2 DEF PlannerInv, SlotsPartitioned
<1>8. InstancesDistinct'
  <2>1. \A n \in DOMAIN nodes : nodes[n].id \in Int /\ nodes[n].id < next_id
    BY PlannerTypes DEF PlannerInv, InstancesDistinct, Modules, InstanceIds
  <2>2. \A n \in DOMAIN nodes : nodes[n].id < next_id'
    BY <1>3, <1>5, <2>1
  <2> QED
    BY <1>2, <2>2 DEF PlannerInv, InstancesDistinct
<1>9. StampsLeft'
  BY <1>2 DEF PlannerInv, StampsLeft
<1> QED
  BY <1>6, <1>7, <1>8, <1>9 DEF PlannerInv

\* The plan a push places is the one it was given, stamped.
Stamped == [Head(outgoing) EXCEPT !.generation = generation + 1]

\* A push moves the one plan at hand, stamped, to the end of the ring.
LEMMA PushedPlan ==
  ASSUME PlannerInv, Push
  PROVE  /\ Stamped \in Plans /\ Head(outgoing) \in Plans
         /\ generation' = generation + 1 /\ generation' \in 0 .. MaxReloads
         /\ plan_ring' = Append(plan_ring, Stamped)
         /\ plan_ring' \in Seq(Plans) /\ Len(plan_ring') = Len(plan_ring) + 1
         /\ Len(plan_ring') <= PlanRing
         /\ outgoing = <<Head(outgoing)>> /\ outgoing' = <<>>
         /\ UNCHANGED <<nodes, alloc, next_id, pool, active, adopted>>
<1>1. /\ outgoing # <<>> /\ Len(plan_ring) < PlanRing
      /\ generation' = generation + 1 /\ outgoing' = <<>>
      /\ plan_ring' = Append(plan_ring, Stamped)
      /\ UNCHANGED <<nodes, alloc, next_id, pool, active, adopted>>
  BY DEF Push, Stamped, plannerVars, audioVars
<1>2. /\ outgoing \in Seq(Plans) /\ Len(outgoing) <= 1
      /\ plan_ring \in Seq(Plans) /\ Len(plan_ring) \in Nat
      /\ generation \in 0 .. MaxReloads /\ generation + Len(outgoing) <= MaxReloads
      /\ MaxReloads \in Nat /\ PlanRing \in Nat
  BY BoundsAssumption, PlanRingAssumption DEF PlannerInv, TypeOK, StampsLeft
<1>3. Len(outgoing) = 1 /\ Head(outgoing) \in Plans
  <2>1. outgoing \in Seq(Plans) /\ outgoing # <<>>
    BY <1>1, <1>2
  <2>2. Len(outgoing) \in Nat \ {0}
    BY <2>1, EmptySeq
  <2>3. Head(outgoing) \in Plans
    BY <2>1, HeadTailProperties
  <2>4. Len(outgoing) <= 1
    BY <1>2
  <2>5. Len(outgoing) = 1
    <3> \A k \in Nat \ {0} : k <= 1 => k = 1
      OBVIOUS
    <3> QED
      BY <2>2, <2>4, Zenon
  <2> QED
    BY <2>3, <2>5
<1>4. generation + 1 \in 0 .. MaxReloads
  BY <1>2, <1>3
<1>5. Stamped \in Plans
  BY <1>3, <1>4 DEF Stamped, Plans
<1>6. plan_ring' \in Seq(Plans) /\ Len(plan_ring') = Len(plan_ring) + 1
  BY <1>1, <1>2, <1>5, AppendProperties
<1>7. outgoing = <<Head(outgoing)>>
  BY <1>2, <1>3
<1> QED
  BY <1>1, <1>2, <1>3, <1>4, <1>5, <1>6, <1>7

\* A push does not touch the planner.
LEMMA PushPlanner ==
  ASSUME PlannerInv, Push
  PROVE  PlannerInv'
<1>1. /\ generation' \in 0 .. MaxReloads /\ outgoing' = <<>>
      /\ plan_ring' \in Seq(Plans) /\ Len(plan_ring') <= PlanRing
      /\ UNCHANGED <<nodes, alloc, next_id, pool, active, adopted>>
  BY PushedPlan
<1>2. <<>> \in Seq(Plans) /\ Len(<<>>) = 0
  BY EmptySeq
<1>3. TypeOK'
  BY <1>1, <1>2 DEF PlannerInv, TypeOK
<1>4. SlotsPartitioned'
  BY <1>1 DEF PlannerInv, SlotsPartitioned
<1>5. InstancesDistinct'
  BY <1>1 DEF PlannerInv, InstancesDistinct
<1>6. StampsLeft'
  <2>1. Len(outgoing') = 0
    BY <1>1, <1>2
  <2>2. generation' \in Int /\ generation' <= MaxReloads
    BY <1>1, BoundsAssumption
  <2> QED
    BY <2>1, <2>2 DEF StampsLeft
<1> QED
  BY <1>3, <1>4, <1>5, <1>6 DEF PlannerInv

\* An adoption does not touch the planner, and keeps the pool well typed.
LEMMA AdoptPlanner ==
  ASSUME PlannerInv, Adopt
  PROVE  PlannerInv'
<1>1. /\ plan_ring # <<>>
      /\ pool' = Apply(pool, Head(plan_ring))
      /\ active' = Head(plan_ring).active_indices
      /\ adopted' = Head(plan_ring).generation
      /\ plan_ring' = Tail(plan_ring)
      /\ UNCHANGED <<nodes, alloc, next_id, generation, outgoing>>
  BY DEF Adopt, plannerVars
<1>2. plan_ring \in Seq(Plans) /\ Len(plan_ring) \in Nat /\ PlanRing \in Nat
      /\ Len(plan_ring) <= PlanRing /\ pool \in PartialMaps(Slots, Modules)
  BY PlanRingAssumption DEF PlannerInv, TypeOK
<1>3. /\ Head(plan_ring) \in Plans /\ Tail(plan_ring) \in Seq(Plans)
      /\ Len(Tail(plan_ring)) = Len(plan_ring) - 1
  BY <1>1, <1>2, HeadTailProperties
<1>4. pool' \in PartialMaps(Slots, Modules)
  BY <1>1, <1>2, <1>3, ApplyType
<1>5. active' \in SUBSET Slots /\ adopted' \in 0 .. MaxReloads
  BY <1>1, <1>3 DEF Plans
<1>6. Len(plan_ring') <= PlanRing
  BY <1>1, <1>2, <1>3
<1>7. TypeOK'
  BY <1>1, <1>3, <1>4, <1>5, <1>6 DEF PlannerInv, TypeOK
<1>8. SlotsPartitioned'
  BY <1>1 DEF PlannerInv, SlotsPartitioned
<1>9. InstancesDistinct'
  BY <1>1 DEF PlannerInv, InstancesDistinct
<1>10. StampsLeft'
  BY <1>1 DEF PlannerInv, StampsLeft
<1> QED
  BY <1>7, <1>8, <1>9, <1>10 DEF PlannerInv

\* The planner's invariant holds in every reachable state.
THEOREM PlannerInvariant == Spec => []PlannerInv
<1>1. Init => PlannerInv
  BY InitPlanner
<1>2. PlannerInv /\ [Next]_vars => PlannerInv'
  <2> SUFFICES ASSUME PlannerInv, [Next]_vars PROVE PlannerInv'
    OBVIOUS
  <2>1. CASE Compile
    BY <2>1, CompilePlanner
  <2>2. CASE CompileFails
    BY <2>2, CompileFailsPlanner
  <2>3. CASE Push
    BY <2>3, PushPlanner
  <2>4. CASE Adopt
    BY <2>4, AdoptPlanner
  <2>5. CASE UNCHANGED vars
    BY <2>5 DEF vars, PlannerInv, TypeOK, SlotsPartitioned, InstancesDistinct, StampsLeft
  <2> QED
    BY <2>1, <2>2, <2>3, <2>4, <2>5 DEF Next
<1> QED
  BY <1>1, <1>2, PTL DEF Spec

\* Every variable keeps its type, for every pool size, ring and patch.
THEOREM TypeCorrect == Spec => []TypeOK
<1>1. PlannerInv => TypeOK
  BY DEF PlannerInv
<1> QED
  BY <1>1, PlannerInvariant, PTL

\* ModuleAllocState never maps a slot twice, never loses one, and never leaves a
\* mapped slot on the freelist, whatever order its hash tables are walked in.
THEOREM SlotsArePartitioned == Spec => []SlotsPartitioned
<1>1. PlannerInv => SlotsPartitioned
  BY DEF PlannerInv
<1> QED
  BY <1>1, PlannerInvariant, PTL

\* No two nodes share an instance, and every instance in use was minted.
THEOREM InstancesAreDistinct == Spec => []InstancesDistinct
<1>1. PlannerInv => InstancesDistinct
  BY DEF PlannerInv
<1> QED
  BY <1>1, PlannerInvariant, PTL

-----------------------------------------------------------------------------
(* The chain: every plan on its way is a delta from the pool it will meet   *)
(* to the pool the planner intends.  One delta first.                       *)

\* Applied to the pool `p`, a plan (a link of the chain) fits and yields its target.
Good(p, link) ==
  /\ Fits(p, link)
  /\ Apply(p, link) = link.target
  /\ link.active_indices = DOMAIN link.target

\* Between two views of the pool, modules that survive stay where they are with
\* the same kind, and the slots of all others are `dead`.
Delta(before, after, survivors, dead) ==
  /\ before \in [DOMAIN before -> Modules] /\ after \in [DOMAIN after -> Modules]
  /\ dead \subseteq DOMAIN before
  /\ \A s \in DOMAIN after : after[s].id \in survivors =>
       /\ s \in DOMAIN before /\ s \notin dead
       /\ before[s].id = after[s].id /\ before[s].kind = after[s].kind
  /\ \A s \in DOMAIN before : s \notin dead =>
       s \in DOMAIN after /\ after[s].id \in survivors

\* The plan for such a delta is good.
LEMMA DeltaIsGood ==
  ASSUME NEW before, NEW after, NEW survivors, NEW dead,
         Delta(before, after, survivors, dead)
  PROVE  /\ Good(before, PlanFor(before, after, survivors, dead))
         /\ PlanFor(before, after, survivors, dead).target = after
<1> DEFINE A == DOMAIN before
           B == DOMAIN after
<1>0. /\ before \in [A -> Modules] /\ after \in [B -> Modules] /\ dead \subseteq A
      /\ \A s \in B : after[s].id \in survivors =>
           /\ s \in A /\ s \notin dead
           /\ before[s].id = after[s].id /\ before[s].kind = after[s].kind
      /\ \A s \in A : s \notin dead => s \in B /\ after[s].id \in survivors
  BY DEF Delta
<1> HIDE DEF A, B
<1> DEFINE link == PlanFor(before, after, survivors, dead)
           N    == {t \in B : after[t].id \notin survivors}
           U    == {t \in B : /\ after[t].id \in survivors
                              /\ before[t].settings # after[t].settings}
<1>1. /\ link.target = after
      /\ link.tombstones = dead /\ link.active_indices = B
      /\ link.new_modules = [s \in N |-> after[s]]
      /\ link.updates = [s \in U |-> after[s].settings]
  BY <1>0, Zenon DEF PlanFor, NewModules, B
<1> HIDE DEF link
<1>2. Tombstone(before, link.tombstones) = [s \in A \ dead |-> before[s]]
  BY <1>0, <1>1 DEF Tombstone, Restrict
<1>3. Install(Tombstone(before, link.tombstones), link.new_modules)
        = [s \in (A \ dead) \cup N |-> IF s \in N THEN after[s] ELSE before[s]]
  BY <1>1, <1>2 DEF Install
<1>4. (A \ dead) \cup N = B
  BY <1>0
<1> DEFINE mid == [s \in B |-> IF s \in N THEN after[s] ELSE before[s]]
<1>5. Apply(before, link)
        = [s \in B |-> IF s \in U THEN [mid[s] EXCEPT !.settings = after[s].settings]
                       ELSE mid[s]]
  BY <1>0, <1>1, <1>3, <1>4 DEF Apply, Update
<1>6. ASSUME NEW s \in B
      PROVE  (IF s \in U THEN [mid[s] EXCEPT !.settings = after[s].settings] ELSE mid[s])
               = after[s]
  <2>1. after[s] \in Modules
    BY <1>0
  <2>2. CASE s \in N
    BY <2>2
  <2>3. CASE s \notin N
    <3>1. /\ s \in A /\ before[s] \in Modules /\ mid[s] = before[s]
          /\ before[s].id = after[s].id /\ before[s].kind = after[s].kind
      BY <1>0, <2>3
    <3>2. CASE s \in U
      <4>1. [mid[s] EXCEPT !.settings = after[s].settings]
              = [id |-> before[s].id, kind |-> before[s].kind, settings |-> after[s].settings]
        BY <3>1 DEF Modules
      <4>2. after[s] = [id |-> after[s].id, kind |-> after[s].kind,
                        settings |-> after[s].settings]
        BY <2>1 DEF Modules
      <4> QED
        BY <3>1, <3>2, <4>1, <4>2
    <3>3. CASE s \notin U
      <4>1. before[s].settings = after[s].settings
        BY <2>3, <3>3
      <4>2. before[s] = after[s]
        BY <2>1, <3>1, <4>1 DEF Modules
      <4> QED
        BY <3>1, <3>3, <4>2
    <3> QED
      BY <3>2, <3>3
  <2> QED
    BY <2>2, <2>3
<1> HIDE DEF mid
<1>7. Apply(before, link) = after
  BY <1>0, <1>5, <1>6
<1>8. Fits(before, link)
  <2>1. link.tombstones \subseteq DOMAIN before
    BY <1>0, <1>1
  <2>2. DOMAIN link.new_modules \cap (DOMAIN before \ link.tombstones) = {}
    BY <1>0, <1>1
  <2>3. DOMAIN link.updates \subseteq DOMAIN before \ link.tombstones
    BY <1>0, <1>1
  <2>4. link.active_indices = DOMAIN Apply(before, link)
    BY <1>0, <1>1, <1>7
  <2> QED
    BY <2>1, <2>2, <2>3, <2>4 DEF Fits
<1>9. link.active_indices = DOMAIN link.target
  BY <1>0, <1>1
<1> QED
  BY <1>1, <1>7, <1>8, <1>9 DEF link, Good

\* The plan a compilation returns is a good delta from the planner's mirror
\* before it to the planner's mirror after it.
LEMMA CompiledDelta ==
  ASSUME PlannerInv, NEW patch \in Patches,
         NEW minted \in Bijection(Installed(patch), MintedIds(Count(patch))),
         NEW dead \in SetToSeqs(Gone(Classify(patch, minted))),
         NEW turn \in Bijection(MintedIds(Count(patch)), 1 .. Count(patch)),
         CompileWith(patch, minted, dead, turn)
  PROVE  /\ Len(outgoing') = 1
         /\ Head(outgoing').target = Mirror(nodes', alloc'.pool_map)
         /\ Good(Mirror(nodes, alloc.pool_map), Head(outgoing'))
<1> DEFINE before    == Mirror(nodes, alloc.pool_map)
           after     == Mirror(nodes', alloc'.pool_map)
           survivors == IdsOf(nodes') \ MintedIds(Count(patch))
           gone      == {alloc.pool_map[id] : id \in Gone(nodes')}
<1>1. outgoing' = <<PlanFor(before, after, survivors, gone)>>
  BY CompiledPlan
<1>2. /\ nodes \in [DOMAIN nodes -> Modules]
      /\ alloc.pool_map \in PartialMaps(InstanceIds, Slots)
      /\ DOMAIN alloc.pool_map = {nodes[n].id : n \in DOMAIN nodes}
      /\ IsInjective(alloc.pool_map)
      /\ \A m, n \in DOMAIN nodes : nodes[m].id = nodes[n].id => m = n
  BY PlannerTypes DEF PlannerInv, TypeOK, SlotsPartitioned, InstancesDistinct
<1>3. /\ before \in PartialMaps(Slots, Modules)
      /\ DOMAIN before = {alloc.pool_map[nodes[n].id] : n \in DOMAIN nodes}
      /\ \A n \in DOMAIN nodes : before[alloc.pool_map[nodes[n].id]] = nodes[n]
  BY <1>2, MirrorOf
<1>4. /\ nodes' \in [DOMAIN nodes' -> Modules]
      /\ alloc'.pool_map \in PartialMaps(InstanceIds, Slots)
      /\ DOMAIN alloc'.pool_map = {nodes'[n].id : n \in DOMAIN nodes'}
      /\ IsInjective(alloc'.pool_map)
      /\ \A m, n \in DOMAIN nodes' : nodes'[m].id = nodes'[n].id => m = n
  BY Compiled DEF SlotsPartitioned
<1>5. /\ after \in PartialMaps(Slots, Modules)
      /\ DOMAIN after = {alloc'.pool_map[nodes'[n].id] : n \in DOMAIN nodes'}
      /\ \A n \in DOMAIN nodes' : after[alloc'.pool_map[nodes'[n].id]] = nodes'[n]
  BY <1>4, MirrorOf
<1>6. /\ \A n \in DOMAIN nodes' :
           \/ /\ n \in DOMAIN nodes /\ nodes'[n].id = nodes[n].id
              /\ nodes'[n].kind = nodes[n].kind
           \/ nodes'[n].id \in MintedIds(Count(patch))
      /\ MintedIds(Count(patch)) = IdsOf(nodes') \ DOMAIN alloc.pool_map
      /\ \A id \in IdsOf(nodes') \cap DOMAIN alloc.pool_map :
           alloc'.pool_map[id] = alloc.pool_map[id]
  BY Compiled
<1>7. survivors = IdsOf(nodes') \cap DOMAIN alloc.pool_map
  BY <1>6
<1>8. /\ before \in [DOMAIN before -> Modules]
      /\ after \in [DOMAIN after -> Modules]
  BY <1>3, <1>5, PartialMapElim
<1> HIDE DEF before, after, survivors
<1>9. gone \subseteq DOMAIN before
  BY <1>2, <1>3 DEF Gone
<1>10. ASSUME NEW s \in DOMAIN after, after[s].id \in survivors
       PROVE  /\ s \in DOMAIN before /\ s \notin gone
              /\ before[s].id = after[s].id /\ before[s].kind = after[s].kind
  <2>1. PICK n \in DOMAIN nodes' : s = alloc'.pool_map[nodes'[n].id] /\ after[s] = nodes'[n]
    BY <1>5
  <2>2. /\ n \in DOMAIN nodes /\ nodes'[n].id = nodes[n].id /\ nodes'[n].kind = nodes[n].kind
        /\ nodes[n].id \in IdsOf(nodes') /\ nodes[n].id \in DOMAIN alloc.pool_map
    BY <1>6, <1>7, <1>10, <2>1
  <2>3. s = alloc.pool_map[nodes[n].id]
    BY <1>6, <2>1, <2>2
  <2>4. s \in DOMAIN before /\ before[s] = nodes[n]
    BY <1>3, <2>2, <2>3
  <2>5. s \notin gone
    BY <1>2, <2>2, <2>3 DEF Gone, IsInjective
  <2> QED
    BY <2>1, <2>2, <2>4, <2>5
<1>11. ASSUME NEW s \in DOMAIN before, s \notin gone
       PROVE  s \in DOMAIN after /\ after[s].id \in survivors
  <2>1. PICK m \in DOMAIN nodes : s = alloc.pool_map[nodes[m].id]
    BY <1>3
  <2>2. nodes[m].id \in DOMAIN alloc.pool_map /\ nodes[m].id \in IdsOf(nodes')
    BY <1>2, <1>11, <2>1 DEF Gone
  <2>3. PICK n \in DOMAIN nodes' : nodes'[n].id = nodes[m].id
    BY <2>2 DEF IdsOf
  <2>4. alloc'.pool_map[nodes'[n].id] = s
    BY <1>6, <2>1, <2>2, <2>3
  <2> QED
    BY <1>5, <1>7, <2>2, <2>3, <2>4
<1> HIDE DEF gone
<1>12. /\ Good(before, PlanFor(before, after, survivors, gone))
       /\ PlanFor(before, after, survivors, gone).target = after
  <2>1. Delta(before, after, survivors, gone)
    BY <1>8, <1>9, <1>10, <1>11 DEF Delta
  <2> QED
    BY <2>1, DeltaIsGood
<1>13. Len(outgoing') = 1 /\ Head(outgoing') = PlanFor(before, after, survivors, gone)
  BY <1>1
<1> QED
  BY <1>12, <1>13 DEF before, after

-----------------------------------------------------------------------------
(* The chain, from a pool p, its live slots a and its plan's stamp k.       *)

\* The pool that the plan at position i of the ring will meet.
PoolMet(p, i) == IF i = 1 THEN p ELSE plan_ring[i - 1].target

\* The pool once every plan in the ring is adopted.
Believed(p) == IF plan_ring = <<>> THEN p ELSE plan_ring[Len(plan_ring)].target

\* Each plan is good for the pool its predecessor leaves; the planner's mirror is
\* what the last plan leaves; the stamps count on from the adopted one.
RingChained(p, k) ==
  \A i \in 1 .. Len(plan_ring) : /\ Good(PoolMet(p, i), plan_ring[i])
                                 /\ plan_ring[i].generation = k + i
Mirrored(p) ==
  /\ outgoing = <<>> => Mirror(nodes, alloc.pool_map) = Believed(p)
  /\ outgoing # <<>> => /\ Good(Believed(p), Head(outgoing))
                        /\ Head(outgoing).target = Mirror(nodes, alloc.pool_map)

Chained(p, a, k) ==
  /\ RingChained(p, k)
  /\ Mirrored(p)
  /\ generation = k + Len(plan_ring)
  /\ a = DOMAIN p

ChainInv == Chained(pool, active, adopted)

\* The chain is empty at first: empty mirror, empty pool.
LEMMA InitChain ==
  ASSUME Init
  PROVE  ChainInv
<1>1. DOMAIN EmptyMap = {} /\ Len(<<>>) = 0
  BY DEF EmptyMap
<1>2. RingChained(pool, adopted)
  BY <1>1 DEF Init, RingChained
<1>3. Mirror(EmptyMap, EmptyMap) = EmptyMap
  <2>1. {EmptyMap[EmptyMap[n].id] : n \in DOMAIN EmptyMap} = {}
    BY <1>1
  <2> QED
    BY <2>1 DEF Mirror, EmptyMap
<1>4. Mirrored(pool)
  BY <1>3 DEF Init, Mirrored, Believed
<1> QED
  BY <1>1, <1>2, <1>4 DEF Init, ChainInv, Chained

\* A compilation adds a plan that fits what the last one leaves.
LEMMA CompileChain ==
  ASSUME PlannerInv, Compile, NEW p, NEW a, NEW k, Chained(p, a, k)
  PROVE  Chained(p, a, k)'
<1>1. PICK patch \in Patches :
        \E minted \in Bijection(Installed(patch), MintedIds(Count(patch))) :
          \E dead \in SetToSeqs(Gone(Classify(patch, minted))),
             turn \in Bijection(MintedIds(Count(patch)), 1 .. Count(patch)) :
            CompileWith(patch, minted, dead, turn)
  BY CompileChoices
<1>2. PICK minted \in Bijection(Installed(patch), MintedIds(Count(patch))) :
        \E dead \in SetToSeqs(Gone(Classify(patch, minted))),
           turn \in Bijection(MintedIds(Count(patch)), 1 .. Count(patch)) :
          CompileWith(patch, minted, dead, turn)
  BY <1>1
<1>3. PICK dead \in SetToSeqs(Gone(Classify(patch, minted))),
           turn \in Bijection(MintedIds(Count(patch)), 1 .. Count(patch)) :
        CompileWith(patch, minted, dead, turn)
  BY <1>2
<1>4. /\ outgoing = <<>>
      /\ UNCHANGED <<generation, plan_ring, pool, active, adopted>>
  BY <1>3 DEF CompileWith, audioVars
<1>5. /\ Len(outgoing') = 1
      /\ Head(outgoing').target = Mirror(nodes', alloc'.pool_map)
      /\ Good(Mirror(nodes, alloc.pool_map), Head(outgoing'))
  BY <1>3, CompiledDelta
<1>6. Mirror(nodes, alloc.pool_map) = Believed(p) /\ Believed(p)' = Believed(p)
  BY <1>4 DEF Chained, Mirrored, Believed
<1>7. outgoing' # <<>>
  <2>1. Len(<<>>) = 0
    OBVIOUS
  <2>2. Len(outgoing') # 0
    BY <1>5
  <2> QED
    BY <2>1, <2>2, Zenon
<1>8. Mirrored(p)'
  BY <1>5, <1>6, <1>7 DEF Mirrored
<1>9. RingChained(p, k)'
  BY <1>4 DEF Chained, RingChained, PoolMet
<1> QED
  BY <1>4, <1>8, <1>9 DEF Chained

\* A step that leaves rings and mirror alone leaves the chain alone.
LEMMA IdleChain ==
  ASSUME NEW p, NEW a, NEW k, Chained(p, a, k),
         UNCHANGED <<nodes, alloc, generation, outgoing, plan_ring>>
  PROVE  Chained(p, a, k)'
BY DEF Chained, RingChained, Mirrored, PoolMet, Believed

\* A push makes the plan at hand the last link of the ring.
LEMMA PushChain ==
  ASSUME PlannerInv, Push, NEW p, NEW a, NEW k \in Nat, Chained(p, a, k)
  PROVE  Chained(p, a, k)'
<1>1. /\ Stamped \in Plans /\ Head(outgoing) \in Plans
      /\ generation' = generation + 1
      /\ plan_ring' = Append(plan_ring, Stamped)
      /\ Len(plan_ring') = Len(plan_ring) + 1
      /\ outgoing = <<Head(outgoing)>> /\ outgoing' = <<>>
      /\ UNCHANGED <<nodes, alloc, next_id, pool, active, adopted>>
  BY PushedPlan
<1>2. /\ plan_ring \in Seq(Plans) /\ Len(plan_ring) \in Nat
      /\ generation \in Nat
  BY DEF PlannerInv, TypeOK
<1>3. /\ \A i \in 1 .. Len(plan_ring) : plan_ring'[i] = plan_ring[i]
      /\ plan_ring'[Len(plan_ring) + 1] = Stamped
      /\ plan_ring' # <<>>
  BY <1>1, <1>2, AppendProperties
<1>4. /\ Stamped.generation = generation + 1
      /\ Stamped.target = Head(outgoing).target
      /\ Stamped.tombstones = Head(outgoing).tombstones
      /\ Stamped.new_modules = Head(outgoing).new_modules
      /\ Stamped.updates = Head(outgoing).updates
      /\ Stamped.active_indices = Head(outgoing).active_indices
  BY <1>1 DEF Stamped, Plans
<1>5. outgoing # <<>>
  BY DEF Push
<1>6. /\ Good(Believed(p), Head(outgoing))
      /\ Head(outgoing).target = Mirror(nodes, alloc.pool_map)
  BY <1>5 DEF Chained, Mirrored
<1>7. Good(Believed(p), Stamped)
  BY <1>4, <1>6 DEF Good, Fits, Apply
<1>8. generation = k + Len(plan_ring)
  BY DEF Chained
<1>9. RingChained(p, k)'
  <2> SUFFICES ASSUME NEW i \in 1 .. Len(plan_ring) + 1
               PROVE  /\ Good(PoolMet(p, i)', plan_ring'[i])
                      /\ plan_ring'[i].generation = k + i
    BY <1>1 DEF RingChained
  <2>1. PoolMet(p, i)' = IF i = 1 THEN p ELSE plan_ring'[i - 1].target
    BY <1>1 DEF PoolMet
  <2>2. CASE i \in 1 .. Len(plan_ring)
    <3>1. /\ Good(PoolMet(p, i), plan_ring[i])
          /\ plan_ring[i].generation = k + i
      BY <2>2 DEF Chained, RingChained
    <3>2. i # 1 => i - 1 \in 1 .. Len(plan_ring)
      BY <1>2, <2>2
    <3>3. PoolMet(p, i)' = PoolMet(p, i)
      BY <1>3, <2>1, <3>2 DEF PoolMet
    <3> QED
      BY <1>3, <2>2, <3>1, <3>3
  <2>3. CASE i = Len(plan_ring) + 1
    <3>1. plan_ring'[i] = Stamped
      BY <1>3, <2>3
    <3>2. Stamped.generation = k + i
      BY <1>2, <1>4, <1>8, <2>3
    <3>3. PoolMet(p, i)' = Believed(p)
      <4>1. CASE plan_ring = <<>>
        BY <1>2, <2>1, <2>3, <4>1 DEF Believed
      <4>2. CASE plan_ring # <<>>
        <5>1. Len(plan_ring) \in Nat \ {0}
          BY <1>2, <4>2, EmptySeq
        <5>2. i # 1 /\ i - 1 = Len(plan_ring) /\ Len(plan_ring) \in 1 .. Len(plan_ring)
          BY <2>3, <5>1
        <5>3. plan_ring'[i - 1] = plan_ring[Len(plan_ring)]
          BY <1>3, <5>2
        <5> QED
          BY <2>1, <4>2, <5>2, <5>3 DEF Believed
      <4> QED
        BY <4>1, <4>2
    <3> QED
      BY <1>7, <3>1, <3>2, <3>3
  <2> QED
    BY <1>2, <2>2, <2>3
<1>10. Believed(p)' = Stamped.target
  BY <1>1, <1>3 DEF Believed
<1>11. Mirrored(p)'
  BY <1>1, <1>4, <1>6, <1>10 DEF Mirrored
<1>12. generation' = k + Len(plan_ring')
  BY <1>1, <1>2, <1>8
<1>13. a = DOMAIN p
  BY DEF Chained
<1> QED
  BY <1>9, <1>11, <1>12, <1>13 DEF Chained

\* The plan at the head of the ring is good for the pool it meets; taken off the
\* ring, its target is where the chain goes on.
LEMMA TakeChain ==
  ASSUME PlannerInv, NEW p, NEW a, NEW k \in Nat, Chained(p, a, k), plan_ring # <<>>,
         NEW link, link = Head(plan_ring), plan_ring' = Tail(plan_ring),
         UNCHANGED <<nodes, alloc, generation, outgoing>>
  PROVE  /\ Good(p, link) /\ link.generation = k + 1
         /\ Chained(link.target, link.active_indices, link.generation)'
<1>2. plan_ring \in Seq(Plans) /\ generation \in Nat
  BY DEF PlannerInv, TypeOK
<1>3. Len(plan_ring) \in Nat \ {0}
  BY <1>2, EmptySeq
<1>4. /\ plan_ring' \in Seq(Plans) /\ Len(plan_ring') = Len(plan_ring) - 1
      /\ \A i \in 1 .. Len(plan_ring') : plan_ring'[i] = plan_ring[i + 1]
  BY <1>2, HeadTailProperties
<1>5. link = plan_ring[1]
  BY <1>2
<1>6. \A i \in 1 .. Len(plan_ring) : /\ Good(PoolMet(p, i), plan_ring[i])
                                     /\ plan_ring[i].generation = k + i
  BY DEF Chained, RingChained
<1>7. Good(p, link) /\ link.generation = k + 1
  <2>1. 1 \in 1 .. Len(plan_ring)
    BY <1>3
  <2>2. PoolMet(p, 1) = p
    BY DEF PoolMet
  <2> QED
    BY <1>5, <1>6, <2>1, <2>2
<1>8. link.active_indices = DOMAIN link.target
  BY <1>7 DEF Good
<1>9. RingChained(link.target, link.generation)'
  <2> SUFFICES ASSUME NEW i \in 1 .. Len(plan_ring')
               PROVE  /\ Good(PoolMet(link.target, i)', plan_ring'[i])
                      /\ plan_ring'[i].generation = link.generation + i
    BY DEF RingChained
  <2>1. i \in Nat /\ i >= 1 /\ i + 1 \in 1 .. Len(plan_ring)
    BY <1>3, <1>4
  <2>2. /\ Good(PoolMet(p, i + 1), plan_ring[i + 1])
        /\ plan_ring[i + 1].generation = k + (i + 1)
    BY <1>6, <2>1
  <2>3. plan_ring'[i] = plan_ring[i + 1]
    BY <1>4
  <2>4. PoolMet(link.target, i)' = PoolMet(p, i + 1)
    <3>1. PoolMet(p, i + 1) = plan_ring[i].target
      <4>1. i + 1 # 1 /\ (i + 1) - 1 = i
        BY <2>1
      <4> QED
        BY <4>1 DEF PoolMet
    <3>2. PoolMet(link.target, i)' = IF i = 1 THEN link.target ELSE plan_ring'[i - 1].target
      BY DEF PoolMet
    <3>3. CASE i = 1
      BY <1>5, <3>1, <3>2, <3>3
    <3>4. CASE i # 1
      <4>1. i - 1 \in 1 .. Len(plan_ring') /\ (i - 1) + 1 = i
        BY <1>4, <2>1, <3>4
      <4>2. plan_ring'[i - 1] = plan_ring[i]
        BY <1>4, <4>1
      <4> QED
        BY <3>1, <3>2, <3>4, <4>2
    <3> QED
      BY <3>3, <3>4
  <2>5. link.generation + i = k + (i + 1)
    BY <1>7, <2>1
  <2> QED
    BY <2>2, <2>3, <2>4, <2>5
<1>10. Believed(link.target)' = Believed(p)
  <2>1. Believed(p) = plan_ring[Len(plan_ring)].target
    BY DEF Believed
  <2>2. CASE plan_ring' = <<>>
    <3>1. Len(plan_ring') = 0
      BY <1>4, <2>2, EmptySeq
    <3>2. Len(plan_ring) = 1
      BY <1>3, <1>4, <3>1
    <3> QED
      BY <1>5, <2>1, <2>2, <3>2 DEF Believed
  <2>3. CASE plan_ring' # <<>>
    <3>1. Len(plan_ring') \in Nat \ {0}
      BY <1>4, <2>3, EmptySeq
    <3>2. Len(plan_ring') \in 1 .. Len(plan_ring') /\ Len(plan_ring') + 1 = Len(plan_ring)
      BY <1>3, <1>4, <3>1
    <3>3. plan_ring'[Len(plan_ring')] = plan_ring[Len(plan_ring)]
      BY <1>4, <3>2
    <3> QED
      BY <2>1, <2>3, <3>3 DEF Believed
  <2> QED
    BY <2>2, <2>3
<1>11. Mirrored(link.target)'
  BY <1>10 DEF Chained, Mirrored
<1>12. generation' = link.generation + Len(plan_ring')
  <2>1. generation = k + Len(plan_ring)
    BY DEF Chained
  <2> QED
    BY <1>2, <1>3, <1>4, <1>7, <2>1
<1> QED
  BY <1>7, <1>8, <1>9, <1>11, <1>12 DEF Chained

\* An adoption turns the target of the first link into the pool.
LEMMA AdoptChain ==
  ASSUME PlannerInv, ChainInv, Adopt
  PROVE  /\ ChainInv'
         /\ adopted' = adopted + 1
<1> PICK link : link = Head(plan_ring)
  OBVIOUS
<1>1. /\ plan_ring # <<>>
      /\ pool' = Apply(pool, link)
      /\ active' = link.active_indices
      /\ adopted' = link.generation
      /\ plan_ring' = Tail(plan_ring)
      /\ UNCHANGED <<nodes, alloc, next_id, generation, outgoing>>
  BY DEF Adopt, plannerVars
<1>2. adopted \in Nat
  BY DEF PlannerInv, TypeOK
<1>3. /\ Good(pool, link) /\ link.generation = adopted + 1
      /\ Chained(link.target, link.active_indices, link.generation)'
  BY <1>1, <1>2, TakeChain DEF ChainInv
<1>4. pool' = link.target
  BY <1>1, <1>3 DEF Good
<1> QED
  BY <1>1, <1>3, <1>4 DEF ChainInv

\* A step that leaves the pool alone keeps the invariant with the chain.
LEMMA ChainStep ==
  ASSUME PlannerInv, ChainInv, Compile \/ Push \/ CompileFails \/ UNCHANGED vars
  PROVE  ChainInv'
<1> PICK p, a, k : p = pool /\ a = active /\ k = adopted
  OBVIOUS
<1>1. k \in Nat /\ Chained(p, a, k)
  BY DEF PlannerInv, TypeOK, ChainInv
<1>2. UNCHANGED <<pool, active, adopted>>
  BY DEF Compile, Push, CompileFails, audioVars, vars
<1>3. Chained(p, a, k)'
  <2>1. CASE Compile
    BY <1>1, <2>1, CompileChain
  <2>2. CASE Push
    BY <1>1, <2>2, PushChain
  <2>3. CASE CompileFails
    BY <1>1, <2>3, IdleChain DEF CompileFails, ringVars
  <2>4. CASE UNCHANGED vars
    BY <1>1, <2>4, IdleChain DEF vars
  <2> QED
    BY <2>1, <2>2, <2>3, <2>4
<1> QED
  BY <1>2, <1>3 DEF ChainInv

\* The chain of plans holds in every reachable state.
THEOREM ChainInvariant == Spec => []ChainInv
<1>1. Init => ChainInv
  BY InitChain
<1>2. PlannerInv /\ ChainInv /\ [Next]_vars => ChainInv'
  <2> SUFFICES ASSUME PlannerInv, ChainInv, [Next]_vars PROVE ChainInv'
    OBVIOUS
  <2>1. CASE Adopt
    BY <2>1, AdoptChain
  <2>2. CASE Compile \/ Push \/ CompileFails \/ UNCHANGED vars
    BY <2>2, ChainStep
  <2> QED
    BY <2>1, <2>2 DEF Next
<1> QED
  BY <1>1, <1>2, PlannerInvariant, PTL DEF Spec

\* The plan at the head of the ring fits the pool it meets: the delta that the
\* planner computed several reloads ago is right when it is applied.
THEOREM PlansFit == Spec => []NextPlanFits
<1>1. PlannerInv /\ ChainInv => NextPlanFits
  <2> SUFFICES ASSUME PlannerInv, ChainInv, plan_ring # <<>>
               PROVE  Fits(pool, Head(plan_ring))
    BY DEF NextPlanFits
  <2>1. plan_ring \in Seq(Plans)
    BY DEF PlannerInv, TypeOK
  <2>2. Len(plan_ring) \in Nat \ {0}
    BY <2>1, EmptySeq
  <2>3. 1 \in 1 .. Len(plan_ring) /\ PoolMet(pool, 1) = pool
    BY <2>2 DEF PoolMet
  <2>4. Good(pool, plan_ring[1])
    BY <2>3 DEF ChainInv, Chained, RingChained
  <2>5. Head(plan_ring) = plan_ring[1]
    BY <2>1
  <2> QED
    BY <2>4, <2>5 DEF Good
<1> QED
  BY <1>1, PlannerInvariant, ChainInvariant, PTL

\* No adoption resolves a pointer into an unpopulated slot, the condition under
\* which PtrArray::rebuild panics on the audio thread.
THEOREM RebuildsResolve == Spec => []RebuildResolves
<1>1. NextPlanFits => RebuildResolves
  BY DEF NextPlanFits, RebuildResolves, Fits
<1> QED
  BY <1>1, PlansFit, PTL

\* Whenever nothing is in flight, the planner's belief about the audio thread's
\* pool is the pool.
THEOREM MirrorIsPool == Spec => []MirrorMatchesPool
<1>1. ChainInv => MirrorMatchesPool
  BY DEF ChainInv, Chained, Mirrored, Believed, MirrorMatchesPool
<1> QED
  BY <1>1, ChainInvariant, PTL

\* Plans run in the order they were stamped, none skipped.
THEOREM AdoptsInOrder == Spec => AdoptedInOrder
<1>1. PlannerInv /\ ChainInv /\ [Next]_vars
        => [adopted' # adopted => adopted' = adopted + 1]_vars
  <2> SUFFICES ASSUME PlannerInv, ChainInv, Next, adopted' # adopted
               PROVE  adopted' = adopted + 1
    OBVIOUS
  <2>1. CASE Adopt
    BY <2>1, AdoptChain
  <2>2. CASE Push
    BY <2>2 DEF Push, audioVars
  <2>3. CASE CompileFails
    BY <2>3 DEF CompileFails, audioVars
  <2>4. CASE Compile
    BY <2>4 DEF Compile, audioVars
  <2> QED
    BY <2>1, <2>2, <2>3, <2>4 DEF Next
<1> QED
  BY <1>1, PlannerInvariant, ChainInvariant, PTL DEF Spec, AdoptedInOrder

-----------------------------------------------------------------------------
(* The refinement: every step of planner, ring and audio thread is a step   *)
(* of the reload the musician is promised, or none.  First the queue that   *)
(* the plans on their way stand for.                                        *)

\* The sets of modules that a sequence of plans stands for.
QueueOf(plans) == [i \in DOMAIN plans |-> Range(plans[i].target)]

\* The modules of a plan's target.
LEMMA TargetModules ==
  ASSUME NEW link \in Plans
  PROVE  Range(link.target) \in SUBSET Modules
<1>1. link.target \in PartialMaps(Slots, Modules)
  BY DEF Plans
<1>2. link.target \in [DOMAIN link.target -> Modules]
  BY <1>1, PartialMapElim
<1> QED
  BY <1>2 DEF Range

\* A queue is as long as the plans it stands for, and in their order.
LEMMA QueueIsSeq ==
  ASSUME NEW plans \in Seq(Plans)
  PROVE  /\ QueueOf(plans) \in Seq(SUBSET Modules)
         /\ Len(QueueOf(plans)) = Len(plans)
         /\ \A i \in 1 .. Len(plans) : QueueOf(plans)[i] = Range(plans[i].target)
<1>1. Len(plans) \in Nat /\ DOMAIN plans = 1 .. Len(plans)
  BY LenProperties
<1>2. \A i \in 1 .. Len(plans) : Range(plans[i].target) \in SUBSET Modules
  BY ElementOfSeq, TargetModules
<1>3. QueueOf(plans) \in [1 .. Len(plans) -> SUBSET Modules]
  BY <1>1, <1>2 DEF QueueOf
<1>4. \A i \in 1 .. Len(plans) : QueueOf(plans)[i] = Range(plans[i].target)
  BY <1>1 DEF QueueOf
<1> QED
  BY <1>1, <1>3, <1>4, FunctionIsSeq

\* A plan more, a set more.
LEMMA QueueAppend ==
  ASSUME NEW plans \in Seq(Plans), NEW link \in Plans
  PROVE  QueueOf(Append(plans, link)) = Append(QueueOf(plans), Range(link.target))
<1> DEFINE more == Append(plans, link)
           q    == QueueOf(plans)
           r    == Append(q, Range(link.target))
<1>1. /\ more \in Seq(Plans) /\ Len(more) = Len(plans) + 1
      /\ \A i \in 1 .. Len(plans) : more[i] = plans[i]
      /\ more[Len(plans) + 1] = link
  BY AppendProperties
<1>2. /\ q \in Seq(SUBSET Modules) /\ Len(q) = Len(plans) /\ Len(plans) \in Nat
      /\ \A i \in 1 .. Len(plans) : q[i] = Range(plans[i].target)
  BY QueueIsSeq, LenProperties
<1>3. /\ QueueOf(more) \in Seq(SUBSET Modules) /\ Len(QueueOf(more)) = Len(more)
      /\ \A i \in 1 .. Len(more) : QueueOf(more)[i] = Range(more[i].target)
  BY <1>1, QueueIsSeq
<1> HIDE DEF more, q
<1>4. Range(link.target) \in SUBSET Modules
  BY TargetModules
<1>5. /\ r \in Seq(SUBSET Modules) /\ Len(r) = Len(q) + 1
      /\ \A i \in 1 .. Len(q) : r[i] = q[i]
      /\ r[Len(q) + 1] = Range(link.target)
  BY <1>2, <1>4, AppendProperties
<1> HIDE DEF r
<1>6. ASSUME NEW i \in 1 .. Len(plans) + 1 PROVE QueueOf(more)[i] = r[i]
  <2>1. CASE i \in 1 .. Len(plans)
    BY <1>1, <1>2, <1>3, <1>5, <2>1
  <2>2. CASE i = Len(plans) + 1
    BY <1>1, <1>2, <1>3, <1>5, <2>2
  <2> QED
    BY <1>2, <2>1, <2>2
<1>7. QueueOf(more) = r
  BY <1>1, <1>2, <1>3, <1>5, <1>6, SeqEqual
<1> QED
  BY <1>7 DEF more, q, r

\* The first plan gone, the first set gone.
LEMMA QueueTail ==
  ASSUME NEW plans \in Seq(Plans), plans # <<>>
  PROVE  /\ QueueOf(plans) # <<>>
         /\ Head(QueueOf(plans)) = Range(plans[1].target)
         /\ QueueOf(Tail(plans)) = Tail(QueueOf(plans))
<1> DEFINE q    == QueueOf(plans)
           rest == Tail(plans)
<1>1. /\ q \in Seq(SUBSET Modules) /\ Len(q) = Len(plans)
      /\ \A i \in 1 .. Len(plans) : q[i] = Range(plans[i].target)
  BY QueueIsSeq
<1>2. Len(plans) \in Nat \ {0}
  BY EmptySeq
<1>3. /\ rest \in Seq(Plans) /\ Len(rest) = Len(plans) - 1
      /\ \A i \in 1 .. Len(rest) : rest[i] = plans[i + 1]
  BY HeadTailProperties
<1>4. /\ QueueOf(rest) \in Seq(SUBSET Modules) /\ Len(QueueOf(rest)) = Len(rest)
      /\ \A i \in 1 .. Len(rest) : QueueOf(rest)[i] = Range(rest[i].target)
  BY <1>3, QueueIsSeq
<1> HIDE DEF q, rest
<1>5. q # <<>>
  <2>1. Len(q) # 0
    BY <1>1, <1>2
  <2> QED
    BY <2>1, EmptySeq
<1>6. Head(q) = q[1]
  BY <1>1, <1>5
<1>7. /\ Tail(q) \in Seq(SUBSET Modules) /\ Len(Tail(q)) = Len(q) - 1
      /\ \A i \in 1 .. Len(Tail(q)) : Tail(q)[i] = q[i + 1]
  BY <1>1, <1>5, HeadTailProperties
<1>8. ASSUME NEW i \in 1 .. Len(rest) PROVE QueueOf(rest)[i] = Tail(q)[i]
  <2>1. i + 1 \in 1 .. Len(plans) /\ i \in 1 .. Len(Tail(q))
    BY <1>1, <1>2, <1>3, <1>7
  <2> QED
    BY <1>1, <1>3, <1>4, <1>7, <2>1
<1>9. QueueOf(rest) = Tail(q)
  BY <1>1, <1>3, <1>4, <1>7, <1>8, SeqEqual
<1>10. q[1] = Range(plans[1].target)
  BY <1>1, <1>2
<1> QED
  BY <1>5, <1>6, <1>9, <1>10 DEF q, rest

\* The plans on their way are a sequence of plans.
LEMMA PendingPlans ==
  ASSUME PlannerInv
  PROVE  /\ pending \in Seq(Plans) /\ plan_ring \in Seq(Plans) /\ outgoing \in Seq(Plans)
         /\ QueueOf(pending) = [i \in DOMAIN pending |-> Range(pending[i].target)]
<1>1. plan_ring \in Seq(Plans) /\ outgoing \in Seq(Plans)
  BY DEF PlannerInv, TypeOK
<1> QED
  BY <1>1, ConcatProperties DEF pending, QueueOf

-----------------------------------------------------------------------------
(* Step by step.                                                            *)

\* Nothing built, nothing running.
LEMMA InitReload ==
  ASSUME Init
  PROVE  Promise!Init
<1>1. /\ nodes = EmptyMap /\ next_id = 1 /\ generation = 0 /\ outgoing = <<>>
      /\ plan_ring = <<>> /\ pool = EmptyMap /\ active = {}
  BY DEF Init
<1>2. nodes = [n \in {} |-> n]
  BY <1>1 DEF EmptyMap
<1>3. 1 .. next_id - 1 = {} /\ generation + Len(outgoing) = 0
  BY <1>1
<1>4. pending = <<>>
  BY <1>1 DEF pending
<1>5. [i \in DOMAIN pending |-> Range(pending[i].target)] = <<>>
  <2>1. DOMAIN pending = {}
    BY <1>4
  <2> QED
    BY <2>1
<1>6. {pool[s] : s \in active} = {}
  BY <1>1
<1> QED
  BY <1>2, <1>3, <1>5, <1>6 DEF Promise!Init

\* A compilation is a reload with the classified graph.
LEMMA CompileReload ==
  ASSUME PlannerInv, PlannerInv', Compile
  PROVE  Promise!Reload
<1>1. PICK patch \in Patches :
        \E minted \in Bijection(Installed(patch), MintedIds(Count(patch))) :
          \E dead \in SetToSeqs(Gone(Classify(patch, minted))),
             turn \in Bijection(MintedIds(Count(patch)), 1 .. Count(patch)) :
            CompileWith(patch, minted, dead, turn)
  BY CompileChoices
<1>2. PICK minted \in Bijection(Installed(patch), MintedIds(Count(patch))) :
        \E dead \in SetToSeqs(Gone(Classify(patch, minted))),
           turn \in Bijection(MintedIds(Count(patch)), 1 .. Count(patch)) :
          CompileWith(patch, minted, dead, turn)
  BY <1>1
<1>3. PICK dead \in SetToSeqs(Gone(Classify(patch, minted))),
           turn \in Bijection(MintedIds(Count(patch)), 1 .. Count(patch)) :
        CompileWith(patch, minted, dead, turn)
  BY <1>2
<1> DEFINE count == Count(patch)
<1>4. /\ outgoing = <<>> /\ generation < MaxReloads
      /\ next_id + count - 1 <= MaxInstances
      /\ nodes' = Classify(patch, minted)
      /\ next_id' = next_id + count
      /\ UNCHANGED <<generation, plan_ring, pool, active, adopted>>
  BY <1>3 DEF CompileWith, audioVars
<1>5. /\ count \in Nat /\ DOMAIN nodes' = DOMAIN patch
      /\ DOMAIN nodes' \in SUBSET NodeIds /\ nodes' \in [DOMAIN nodes' -> Modules]
      /\ \A m, n \in DOMAIN nodes' : nodes'[m].id = nodes'[n].id => m = n
      /\ \A n \in DOMAIN nodes' : nodes'[n].id < next_id + count
      /\ \A n \in Survivors(patch) : nodes'[n].id = nodes[n].id
      /\ \A n \in DOMAIN nodes' \ Survivors(patch) : nodes'[n].id \in MintedIds(count)
      /\ \A id \in MintedIds(count) : \E n \in DOMAIN nodes' : nodes'[n].id = id
  BY <1>4, ClassifiedGraph DEF Count
<1>6. \A n \in DOMAIN nodes' : nodes'[n].kind = patch[n].kind
  BY <1>4 DEF Classify
<1> HIDE DEF count
<1>7. next_id \in Nat /\ next_id >= 1 /\ MaxInstances \in Nat
      /\ generation \in Nat /\ Len(outgoing) = 0
  <2>1. Len(<<>>) = 0
    OBVIOUS
  <2> QED
    BY <1>4, <2>1, PlannerTypes DEF PlannerInv, TypeOK
<1>8. ASSUME NEW n \in DOMAIN nodes' PROVE Promise!KeepsOrRenews(nodes', n)
  <2>1. CASE n \in DOMAIN nodes /\ nodes[n].kind = nodes'[n].kind
    <3>1. n \in Survivors(patch)
      BY <1>5, <1>6, <1>8, <2>1 DEF Survivors
    <3> QED
      BY <1>5, <2>1, <3>1 DEF Promise!KeepsOrRenews
  <2>2. CASE ~(n \in DOMAIN nodes /\ nodes[n].kind = nodes'[n].kind)
    <3>1. n \notin Survivors(patch)
      BY <1>5, <1>6, <1>8, <2>2 DEF Survivors
    <3>2. nodes'[n].id \in MintedIds(count)
      BY <1>5, <1>8, <3>1
    <3>3. nodes'[n].id \notin 1 .. next_id - 1
      BY <1>7, <1>5, <3>2 DEF MintedIds
    <3> QED
      BY <2>2, <3>3 DEF Promise!KeepsOrRenews
  <2> QED
    BY <2>1, <2>2
<1>9. nodes' \in Promise!Graphs
  <2>1. Promise!Modules = Modules
    BY DEF Promise!Modules, Promise!InstanceIds, Modules, InstanceIds
  <2> QED
    BY <1>5, <2>1 DEF Promise!Graphs
<1>10. 1 .. next_id' - 1 = (1 .. next_id - 1) \cup {nodes'[n].id : n \in DOMAIN nodes'}
  <2>1. \A n \in DOMAIN nodes' : nodes'[n].id \in 1 .. next_id' - 1
    BY <1>4, <1>5, <1>7 DEF Modules, InstanceIds
  <2>2. ASSUME NEW k \in next_id .. next_id' - 1
        PROVE  k \in {nodes'[n].id : n \in DOMAIN nodes'}
    <3>1. k \in MintedIds(count)
      BY <1>4, <1>5, <1>7 DEF MintedIds
    <3> QED
      BY <1>5, <3>1
  <2> QED
    BY <1>4, <1>5, <1>7, <2>1, <2>2
<1>11. /\ outgoing' \in Seq(Plans) /\ Len(outgoing') = 1
       /\ Head(outgoing').target = Mirror(nodes', alloc'.pool_map)
  BY <1>3, CompiledDelta, CompiledPlan
<1>12. Head(outgoing') \in Plans /\ outgoing' = <<Head(outgoing')>>
  <2>1. PICK link : outgoing' = <<link>>
    BY <1>3, CompiledPlan
  <2>2. Head(outgoing') = link
    BY <2>1
  <2>3. link \in Plans
    BY <1>11, <2>1, <2>2, HeadTailProperties
  <2> QED
    BY <2>1, <2>2, <2>3
<1>13. Range(Mirror(nodes', alloc'.pool_map)) = {nodes'[n] : n \in DOMAIN nodes'}
  <2>1. /\ alloc'.pool_map \in PartialMaps(InstanceIds, Slots)
        /\ DOMAIN alloc'.pool_map = {nodes'[n].id : n \in DOMAIN nodes'}
        /\ IsInjective(alloc'.pool_map)
        /\ nodes' \in [DOMAIN nodes' -> Modules]
        /\ \A m, n \in DOMAIN nodes' : nodes'[m].id = nodes'[n].id => m = n
    BY <1>5 DEF PlannerInv, TypeOK, SlotsPartitioned
  <2>2. /\ DOMAIN Mirror(nodes', alloc'.pool_map)
             = {alloc'.pool_map[nodes'[n].id] : n \in DOMAIN nodes'}
        /\ \A n \in DOMAIN nodes' :
             Mirror(nodes', alloc'.pool_map)[alloc'.pool_map[nodes'[n].id]] = nodes'[n]
    BY <2>1, MirrorOf, Zenon
  <2> DEFINE view == Mirror(nodes', alloc'.pool_map)
             home(n) == alloc'.pool_map[nodes'[n].id]
  <2>3. /\ DOMAIN view = {home(n) : n \in DOMAIN nodes'}
        /\ \A n \in DOMAIN nodes' : view[home(n)] = nodes'[n]
    BY <2>2
  <2> HIDE DEF view, home
  <2>4. {view[s] : s \in DOMAIN view} = {nodes'[n] : n \in DOMAIN nodes'}
    BY <2>3
  <2> QED
    BY <2>4 DEF view, Range
<1>14. QueueOf(pending') = Append(QueueOf(pending), Promise!ModulesOf(nodes'))
  <2>1. plan_ring \in Seq(Plans)
    BY PendingPlans
  <2>2. pending = plan_ring
    BY <1>4, <2>1, ConcatEmptySeq DEF pending
  <2>3. pending' = Append(plan_ring, Head(outgoing'))
    BY <1>4, <1>12, <2>1, AppendIsConcat DEF pending
  <2> QED
    BY <1>11, <1>12, <1>13, <2>1, <2>2, <2>3, QueueAppend DEF Promise!ModulesOf
<1>15. /\ generation + Len(outgoing) < MaxReloads
       /\ generation' + Len(outgoing') = (generation + Len(outgoing)) + 1
  BY <1>4, <1>7, <1>11
<1>16. {pool'[s] : s \in active'} = {pool[s] : s \in active}
  BY <1>4
<1>17. Promise!DistinctInstances(nodes')
  BY <1>5 DEF Promise!DistinctInstances
<1> QED
  BY <1>8, <1>9, <1>10, <1>14, <1>15, <1>16, <1>17 DEF Promise!Reload, QueueOf

\* A failed compilation spends instance ids and changes nothing else.
LEMMA CompileFailsReload ==
  ASSUME PlannerInv, CompileFails
  PROVE  Promise!FailedBuild
<1>1. PICK patch \in Patches : \E spent \in 1 .. Cardinality(Installed(patch)) :
        /\ next_id + spent - 1 <= MaxInstances
        /\ next_id' = next_id + spent
        /\ UNCHANGED <<nodes, generation, outgoing, plan_ring, pool, active>>
  BY DEF CompileFails, ringVars, audioVars
<1>2. PICK spent \in 1 .. Cardinality(Installed(patch)) :
        /\ next_id + spent - 1 <= MaxInstances
        /\ next_id' = next_id + spent
        /\ UNCHANGED <<nodes, generation, outgoing, plan_ring, pool, active>>
  BY <1>1
<1>3. Cardinality(Installed(patch)) \in Nat
  BY FinitePatch
<1>4. next_id \in Nat /\ MaxInstances \in Nat
  BY PlannerTypes DEF PlannerInv
<1>5. /\ 1 .. next_id' - 1 \subseteq 1 .. MaxInstances
      /\ 1 .. next_id - 1 \subseteq 1 .. next_id' - 1
  BY <1>2, <1>3, <1>4
<1>6. pending' = pending
  BY <1>2 DEF pending
<1> QED
  BY <1>2, <1>5, <1>6 DEF Promise!FailedBuild, Promise!InstanceIds

\* A push moves a plan from the host's hand to the ring: the queue is the same.
LEMMA PushReload ==
  ASSUME PlannerInv, PlannerInv', Push
  PROVE  UNCHANGED Promise!vars
<1>1. /\ Stamped \in Plans /\ Head(outgoing) \in Plans
      /\ generation' = generation + 1
      /\ plan_ring' = Append(plan_ring, Stamped)
      /\ outgoing = <<Head(outgoing)>> /\ outgoing' = <<>>
      /\ UNCHANGED <<nodes, alloc, next_id, pool, active, adopted>>
  BY PushedPlan
<1>2. plan_ring \in Seq(Plans) /\ plan_ring' \in Seq(Plans) /\ generation \in Nat
  BY PendingPlans DEF PlannerInv, TypeOK
<1>3. pending = Append(plan_ring, Head(outgoing))
  BY <1>1, <1>2, AppendIsConcat DEF pending
<1>4. pending' = Append(plan_ring, Stamped)
  BY <1>1, <1>2, ConcatEmptySeq DEF pending
<1>5. Stamped.target = Head(outgoing).target
  BY <1>1 DEF Stamped, Plans
<1>6. QueueOf(pending') = QueueOf(pending)
  BY <1>1, <1>2, <1>3, <1>4, <1>5, QueueAppend
<1>7. Len(outgoing) = 1 /\ Len(outgoing') = 0
  <2>1. \A p : Len(<<p>>) = 1
    OBVIOUS
  <2>2. Len(<<>>) = 0
    OBVIOUS
  <2> QED
    BY <1>1, <2>1, <2>2
<1>8. generation' + Len(outgoing') = generation + Len(outgoing)
  BY <1>1, <1>2, <1>7
<1> QED
  BY <1>1, <1>6, <1>8 DEF Promise!vars, QueueOf

\* An adoption makes the head of the queue the running set.
LEMMA AdoptReload ==
  ASSUME PlannerInv, PlannerInv', ChainInv, Adopt
  PROVE  Promise!Adopt
<1>1. /\ plan_ring # <<>>
      /\ pool' = Apply(pool, Head(plan_ring))
      /\ active' = Head(plan_ring).active_indices
      /\ plan_ring' = Tail(plan_ring)
      /\ UNCHANGED <<nodes, alloc, next_id, generation, outgoing>>
  BY DEF Adopt, plannerVars
<1>2. /\ plan_ring \in Seq(Plans) /\ outgoing \in Seq(Plans) /\ pending \in Seq(Plans)
  BY PendingPlans
<1>3. Len(plan_ring) \in Nat \ {0}
  BY <1>1, <1>2, EmptySeq
<1>4. Head(plan_ring) = plan_ring[1]
  BY <1>1, <1>2
<1>5. Good(pool, plan_ring[1])
  <2>1. 1 \in 1 .. Len(plan_ring) /\ PoolMet(pool, 1) = pool
    BY <1>3 DEF PoolMet
  <2> QED
    BY <2>1 DEF ChainInv, Chained, RingChained
<1>6. pool' = plan_ring[1].target /\ active' = DOMAIN plan_ring[1].target
  BY <1>1, <1>4, <1>5 DEF Good
<1>7. pending # <<>> /\ pending[1] = plan_ring[1]
  <2>1. Len(outgoing) \in Nat
    BY <1>2, LenProperties
  <2>2. Len(pending) = Len(plan_ring) + Len(outgoing)
    BY <1>2, ConcatProperties DEF pending
  <2>3. 1 \in 1 .. Len(plan_ring) + Len(outgoing) /\ 1 <= Len(plan_ring)
    BY <1>3, <2>1
  <2>4. pending[1] = plan_ring[1]
    BY <1>2, <2>3, ConcatProperties DEF pending
  <2>5. Len(pending) # 0
    BY <1>3, <2>1, <2>2
  <2> QED
    BY <2>4, <2>5, EmptySeq
<1>8. pending' = Tail(pending)
  <2>1. pending' = Tail(plan_ring) \o outgoing
    BY <1>1 DEF pending
  <2> QED
    BY <1>1, <1>2, <2>1 DEF pending
<1>9. /\ QueueOf(pending) # <<>>
      /\ Head(QueueOf(pending)) = Range(plan_ring[1].target)
      /\ QueueOf(pending') = Tail(QueueOf(pending))
  BY <1>2, <1>7, <1>8, QueueTail
<1>10. {pool'[s] : s \in active'} = Range(plan_ring[1].target)
  BY <1>6 DEF Range
<1>11. generation' + Len(outgoing') = generation + Len(outgoing)
  BY <1>1
<1> QED
  BY <1>1, <1>9, <1>10, <1>11 DEF Promise!Adopt, QueueOf

\* The hot-reload protocol implements the reload the musician is promised: for
\* every patch, instance, pool and ring size, a node of unchanged kind keeps its
\* module, every other gets a new one, and patches take effect in order
\* (planner, plan ring and adoption together).
THEOREM ReloadImplemented == Spec => ImplementsReload
<1>1. Init => Promise!Init
  BY InitReload
<1>2. PlannerInv /\ PlannerInv' /\ ChainInv /\ [Next]_vars
        => [Promise!Next]_(Promise!vars)
  <2> SUFFICES ASSUME PlannerInv, PlannerInv', ChainInv, [Next]_vars
               PROVE  Promise!Next \/ UNCHANGED Promise!vars
    OBVIOUS
  <2>1. CASE Compile
    BY <2>1, CompileReload DEF Promise!Next
  <2>2. CASE CompileFails
    BY <2>2, CompileFailsReload DEF Promise!Next
  <2>3. CASE Push
    BY <2>3, PushReload
  <2>4. CASE Adopt
    BY <2>4, AdoptReload DEF Promise!Next
  <2>5. CASE UNCHANGED vars
    BY <2>5 DEF vars, Promise!vars, pending
  <2> QED
    BY <2>1, <2>2, <2>3, <2>4, <2>5 DEF Next
<1> QED
  BY <1>1, <1>2, PlannerInvariant, ChainInvariant, PTL
  DEF Spec, ImplementsReload, Promise!Spec

-----------------------------------------------------------------------------
(* The invariant of every host.                                             *)

\* No slot is both evicted and updated by one plan.
Frugal(p) == p.tombstones \cap DOMAIN p.updates = {}

PlansFrugal ==
  /\ outgoing # <<>> => Frugal(Head(outgoing))
  /\ \A i \in 1 .. Len(plan_ring) : Frugal(plan_ring[i])
  /\ plan # <<>> => Frugal(current)

\* What has been offered to the cleanup ring, waits to be, or may yet come up.
SwapBudget ==
  /\ pc = "idle" => outbox = 0 /\ handed = 0
  /\ pc = "tombstone" =>
       handed + outbox + 2 * Cardinality(todo) + Cardinality(DOMAIN current.updates)
         <= 2 * PoolCapacity
  /\ pc = "update" => /\ todo \subseteq DOMAIN current.updates
                      /\ handed + outbox + Cardinality(todo) <= 2 * PoolCapacity
  /\ pc = "host_control" => handed + outbox <= 2 * PoolCapacity + 1
  /\ pc = "monitor" => handed + outbox <= 2 * PoolCapacity + 2
  /\ pc = "return" => handed + outbox <= 2 * PoolCapacity + 3

\* No pointer is resolved while the pool changes.
PointersInv == NoDanglingPointers /\ (pc \in {"tombstone", "update"} => active = {})

\* After the rebuild of a pool that was not lost the engine runs.
HaltInv == pc \in {"host_control", "monitor", "return"} /\ ~lost => ~halted

\* Nothing is adopted once the stream has stopped; the cleanup thread ends after
\* it, with the ring empty; HostRuntime::drop returns after the thread.
ShutdownInv ==
  /\ stream = "stopped" => pc = "idle"
  /\ cleanup = "exited" => stream = "stopped" /\ cleanup_ring = 0
  /\ runtime = "dropped" => cleanup = "exited"

AdoptionInv ==
  /\ PlannerInv /\ ATypeOK /\ PlansFrugal
  /\ SwapBudget /\ PointersInv /\ HaltInv /\ ShutdownInv

-----------------------------------------------------------------------------
(* Where every plan is adopted.                                             *)

\* What is left of the plan being adopted is a good plan for the pool as it is.
Ahead ==
  /\ pc = "tombstone" => Good(pool, [current EXCEPT !.tombstones = todo])
  /\ pc = "update" => /\ Update(pool, Restrict(current.updates, todo)) = current.target
                      /\ todo \subseteq DOMAIN current.updates /\ todo \subseteq DOMAIN pool
                      /\ current.active_indices = DOMAIN pool
  /\ pc \in {"host_control", "monitor", "return"} =>
       /\ pool = current.target /\ active = current.active_indices
       /\ adopted = current.generation

TargetPool   == IF Adopting THEN current.target ELSE pool
TargetActive == IF Adopting THEN current.active_indices ELSE active
TargetStamp  == IF Adopting THEN current.generation ELSE adopted

ReliableInv ==
  /\ Chained(TargetPool, TargetActive, TargetStamp)
  /\ Ahead
  /\ ~lost

-----------------------------------------------------------------------------
(* Types of the pool in mid-adoption, and the size of a plan.               *)

LEMMA TombstoneType ==
  ASSUME NEW p \in PartialMaps(Slots, Modules), NEW S
  PROVE  Tombstone(p, S) \in PartialMaps(Slots, Modules)
<1>1. DOMAIN p \in SUBSET Slots /\ p \in [DOMAIN p -> Modules]
  BY PartialMapElim
<1>2. Tombstone(p, S) \in [DOMAIN p \ S -> Modules] /\ DOMAIN p \ S \in SUBSET Slots
  BY <1>1 DEF Tombstone, Restrict
<1> HIDE DEF Slots
<1> QED BY <1>2, PartialMapIntro

LEMMA InstallType ==
  ASSUME NEW p \in PartialMaps(Slots, Modules), NEW new \in PartialMaps(Slots, Modules)
  PROVE  Install(p, new) \in PartialMaps(Slots, Modules)
<1>1. /\ DOMAIN p \in SUBSET Slots /\ p \in [DOMAIN p -> Modules]
      /\ DOMAIN new \in SUBSET Slots /\ new \in [DOMAIN new -> Modules]
  BY PartialMapElim
<1>2. /\ Install(p, new) \in [DOMAIN p \cup DOMAIN new -> Modules]
      /\ DOMAIN p \cup DOMAIN new \in SUBSET Slots
  BY <1>1 DEF Install
<1> QED BY <1>2, PartialMapIntro

LEMMA UpdateType ==
  ASSUME NEW p \in PartialMaps(Slots, Modules), NEW up,
         \A s \in DOMAIN up : up[s] \in Settings
  PROVE  Update(p, up) \in PartialMaps(Slots, Modules)
<1>1. DOMAIN p \in SUBSET Slots /\ p \in [DOMAIN p -> Modules]
  BY PartialMapElim
<1>2. \A s \in DOMAIN p : s \in DOMAIN up => [p[s] EXCEPT !.settings = up[s]] \in Modules
  BY <1>1 DEF Modules
<1>3. Update(p, up) \in [DOMAIN p -> Modules]
  BY <1>1, <1>2 DEF Update
<1> QED BY <1>1, <1>3, PartialMapIntro

\* The plan being adopted.
LEMMA CurrentPlan ==
  ASSUME ATypeOK, pc # "idle"
  PROVE  /\ plan # <<>> /\ current \in Plans
         /\ current.tombstones \in SUBSET Slots
         /\ current.new_modules \in PartialMaps(Slots, Modules)
         /\ current.updates \in PartialMaps(Slots, Settings)
         /\ DOMAIN current.updates \in SUBSET Slots
         /\ \A s \in DOMAIN current.updates : current.updates[s] \in Settings
         /\ current.active_indices \in SUBSET Slots
         /\ current.generation \in 0 .. MaxReloads
<1>1. plan \in Seq(Plans) /\ plan # <<>>
  BY DEF ATypeOK
<1>2. current \in Plans
  <2>1. Len(plan) \in Nat \ {0}
    BY <1>1, EmptySeq
  <2>2. 1 \in 1 .. Len(plan)
    BY <2>1
  <2> QED BY <1>1, <2>2, ElementOfSeq DEF current
<1>3. /\ current.tombstones \in SUBSET Slots
      /\ current.new_modules \in PartialMaps(Slots, Modules)
      /\ current.updates \in PartialMaps(Slots, Settings)
      /\ current.active_indices \in SUBSET Slots
      /\ current.generation \in 0 .. MaxReloads
  BY <1>2 DEF Plans
<1>4. DOMAIN current.updates \in SUBSET Slots
      /\ current.updates \in [DOMAIN current.updates -> Settings]
  BY <1>3, PartialMapElim
<1> QED BY <1>1, <1>2, <1>3, <1>4

\* A set of slots is finite; two disjoint ones are no more than the pool.
LEMMA SlotSets ==
  ASSUME NEW A \in SUBSET Slots
  PROVE  /\ IsFiniteSet(A) /\ Cardinality(A) \in Nat
         /\ \A s \in A : Cardinality(A \ {s}) = Cardinality(A) - 1
         /\ \A B \in SUBSET Slots : A \cap B = {} =>
              Cardinality(A) + Cardinality(B) <= PoolCapacity
<1>1. IsFiniteSet(Slots) /\ Cardinality(Slots) = PoolCapacity
  BY CapacityAssumption, FS_Interval DEF Slots
<1>2. \A S \in SUBSET Slots : IsFiniteSet(S) /\ Cardinality(S) \in Nat
  BY <1>1, FS_Subset, FS_CardinalityType
<1>3. \A s \in A : Cardinality(A \ {s}) = Cardinality(A) - 1
  BY <1>2, FS_RemoveElement
<1>4. ASSUME NEW B \in SUBSET Slots, A \cap B = {}
      PROVE  Cardinality(A) + Cardinality(B) <= PoolCapacity
  <2>1. Cardinality(A \cup B) = Cardinality(A) + Cardinality(B) - Cardinality(A \cap B)
    BY <1>2, FS_Union
  <2>2. Cardinality(A \cap B) = 0
    BY <1>4, FS_EmptySet
  <2>3. Cardinality(A \cup B) <= PoolCapacity
    <3>1. A \cup B \in SUBSET Slots
      OBVIOUS
    <3> QED BY <1>1, <3>1, FS_Subset
  <2>4. Cardinality(A) \in Nat /\ Cardinality(B) \in Nat
    BY <1>2
  <2> QED BY <2>1, <2>2, <2>3, <2>4
<1> QED BY <1>2, <1>3, <1>4

-----------------------------------------------------------------------------
(* The control thread.                                                      *)

\* A compiled plan does not update what it evicts.
LEMMA CompiledFrugal ==
  ASSUME PlannerInv, Compile
  PROVE  Frugal(Head(outgoing'))
<1>1. PICK patch \in Patches :
        \E minted \in Bijection(Installed(patch), MintedIds(Count(patch))) :
          \E dead \in SetToSeqs(Gone(Classify(patch, minted))),
             turn \in Bijection(MintedIds(Count(patch)), 1 .. Count(patch)) :
            CompileWith(patch, minted, dead, turn)
  BY CompileChoices
<1>2. PICK minted \in Bijection(Installed(patch), MintedIds(Count(patch))) :
        \E dead \in SetToSeqs(Gone(Classify(patch, minted))),
           turn \in Bijection(MintedIds(Count(patch)), 1 .. Count(patch)) :
          CompileWith(patch, minted, dead, turn)
  BY <1>1
<1>3. PICK dead \in SetToSeqs(Gone(Classify(patch, minted))),
           turn \in Bijection(MintedIds(Count(patch)), 1 .. Count(patch)) :
        CompileWith(patch, minted, dead, turn)
  BY <1>2
<1>4. Good(Mirror(nodes, alloc.pool_map), Head(outgoing'))
  BY <1>3, CompiledDelta
<1> QED BY <1>4 DEF Good, Fits, Frugal

\* A step of the control thread touches no state of an adoption.
LEMMA ControlStep ==
  ASSUME AdoptionInv, Build \/ PushOk \/ PushDropped
  PROVE  AdoptionInv'
<1>1. /\ UNCHANGED <<pool, active, adopted, lost, pc, plan, todo, outbox, handed, previous_plan,
                     cleanup_ring, halted, panics, stream, cleanup, runtime>>
      /\ PlannerInv /\ ATypeOK /\ PlansFrugal /\ SwapBudget /\ PointersInv /\ HaltInv
      /\ ShutdownInv
  <2>1. CASE Build
    BY <2>1 DEF AdoptionInv, Build, Compile, CompileFails, audioVars, adoptionVars, faultVars,
                hostVars
  <2>2. CASE PushOk
    BY <2>2 DEF AdoptionInv, PushOk, Push, audioVars, adoptionVars, faultVars, hostVars
  <2>3. CASE PushDropped
    BY <2>3 DEF AdoptionInv, PushDropped, audioVars, adoptionVars, faultVars, hostVars
  <2> QED BY <2>1, <2>2, <2>3
<1>2. PlannerInv'
  <2>1. CASE Build
    BY <1>1, <2>1, CompilePlanner, CompileFailsPlanner DEF Build
  <2>2. CASE PushOk
    BY <1>1, <2>2, PushPlanner DEF PushOk
  <2>3. CASE PushDropped
    <3>1. /\ outgoing # <<>> /\ outgoing' = <<>> /\ generation' = generation + 1
          /\ UNCHANGED <<nodes, alloc, next_id, plan_ring, pool, active, adopted>>
      BY <2>3 DEF PushDropped, plannerVars, audioVars
    <3>2. /\ outgoing \in Seq(Plans) /\ generation \in 0 .. MaxReloads
          /\ generation + Len(outgoing) <= MaxReloads /\ MaxReloads \in Nat
      BY <1>1, BoundsAssumption DEF PlannerInv, TypeOK, StampsLeft
    <3>3. Len(outgoing) \in Nat \ {0}
      BY <3>1, <3>2, EmptySeq
    <3>4. generation' \in 0 .. MaxReloads /\ generation' + 0 <= MaxReloads
      BY <3>1, <3>2, <3>3
    <3>5. <<>> \in Seq(Plans) /\ Len(<<>>) = 0
      BY EmptySeq
    <3>6. TypeOK'
      BY <1>1, <3>1, <3>4, <3>5 DEF PlannerInv, TypeOK
    <3>7. SlotsPartitioned' /\ InstancesDistinct'
      BY <1>1, <3>1 DEF PlannerInv, SlotsPartitioned, InstancesDistinct
    <3>8. StampsLeft'
      BY <3>1, <3>4, <3>5 DEF StampsLeft
    <3> QED BY <3>6, <3>7, <3>8 DEF PlannerInv
  <2> QED BY <2>1, <2>2, <2>3
<1>3. ATypeOK'
  BY <1>1, <1>2 DEF PlannerInv, ATypeOK
<1>4. PlansFrugal'
  <2>1. CASE Build /\ Compile
    <3>1. UNCHANGED plan_ring
      BY <2>1 DEF Compile
    <3>2. Frugal(Head(outgoing'))
      BY <1>1, <2>1, CompiledFrugal
    <3> QED BY <1>1, <3>1, <3>2 DEF PlansFrugal, current
  <2>2. CASE Build /\ CompileFails
    <3>1. UNCHANGED <<outgoing, plan_ring>>
      BY <2>2 DEF CompileFails, ringVars
    <3> QED BY <1>1, <3>1 DEF PlansFrugal, current
  <2>3. CASE PushOk
    <3>1. /\ Stamped \in Plans /\ Head(outgoing) \in Plans /\ outgoing' = <<>>
          /\ plan_ring' = Append(plan_ring, Stamped)
          /\ Len(plan_ring') = Len(plan_ring) + 1 /\ plan_ring \in Seq(Plans)
          /\ outgoing # <<>>
      BY <1>1, <2>3, PushedPlan DEF PushOk, PlannerInv, TypeOK, Push
    <3>2. Stamped.tombstones = Head(outgoing).tombstones
          /\ Stamped.updates = Head(outgoing).updates
      BY <3>1 DEF Stamped, Plans
    <3>3. Frugal(Stamped)
      BY <1>1, <3>1, <3>2 DEF PlansFrugal, Frugal
    <3>4. \A i \in 1 .. Len(plan_ring') :
            plan_ring'[i] = Stamped \/ (i \in 1 .. Len(plan_ring) /\ plan_ring'[i] = plan_ring[i])
      BY <3>1, AppendProperties
    <3>5. \A i \in 1 .. Len(plan_ring') : Frugal(plan_ring'[i])
      BY <1>1, <3>3, <3>4 DEF PlansFrugal
    <3> QED BY <1>1, <3>1, <3>5 DEF PlansFrugal, current
  <2>4. CASE PushDropped
    BY <1>1, <2>4 DEF PlansFrugal, PushDropped, current
  <2> QED BY <2>1, <2>2, <2>3, <2>4 DEF Build
<1>5. SwapBudget'
  BY <1>1 DEF SwapBudget, current
<1>6. PointersInv' /\ HaltInv' /\ ShutdownInv'
  BY <1>1 DEF PointersInv, NoDanglingPointers, HaltInv, ShutdownInv
<1> QED BY <1>2, <1>3, <1>4, <1>5, <1>6 DEF AdoptionInv

-----------------------------------------------------------------------------
(* The audio callback.                                                      *)

\* An audio step that keeps the types of what it touches keeps the planner's
\* invariant.
LEMMA AudioPlanner ==
  ASSUME PlannerInv, UNCHANGED controlVars,
         plan_ring' \in Seq(Plans), Len(plan_ring') <= PlanRing,
         pool' \in PartialMaps(Slots, Modules), active' \in SUBSET Slots,
         adopted' \in 0 .. MaxReloads
  PROVE  PlannerInv'
<1>1. UNCHANGED <<nodes, alloc, next_id, generation, outgoing>>
  BY DEF controlVars, plannerVars
<1>2. TypeOK'
  BY <1>1 DEF PlannerInv, TypeOK
<1>3. SlotsPartitioned' /\ InstancesDistinct' /\ StampsLeft'
  BY <1>1 DEF PlannerInv, SlotsPartitioned, InstancesDistinct, StampsLeft
<1> QED BY <1>2, <1>3 DEF PlannerInv

\* No step makes up a plan.
LEMMA SamePlans ==
  ASSUME PlansFrugal, UNCHANGED <<outgoing, plan_ring>>, plan' \in {plan, <<>>}
  PROVE  PlansFrugal'
  BY DEF PlansFrugal, current

\* The quantities of the budget.
LEMMA BudgetTypes ==
  ASSUME AdoptionInv
  PROVE  /\ handed \in Nat /\ outbox \in 0 .. 2 /\ PoolCapacity \in Nat
         /\ todo \in SUBSET Slots /\ Cardinality(todo) \in Nat
         /\ pc # "idle" => Cardinality(DOMAIN current.updates) \in Nat
<1>1. handed \in Nat /\ outbox \in 0 .. 2 /\ todo \in SUBSET Slots /\ ATypeOK
  BY DEF AdoptionInv, ATypeOK
<1>2. pc # "idle" => DOMAIN current.updates \in SUBSET Slots
  BY <1>1, CurrentPlan
<1> QED BY <1>1, <1>2, SlotSets, CapacityAssumption

LEMMA PopStep ==
  ASSUME AdoptionInv, Pop
  PROVE  AdoptionInv'
<1> PICK p : p = Head(plan_ring)
  OBVIOUS
<1>1. /\ stream = "playing" /\ pc = "idle" /\ plan_ring # <<>>
      /\ plan' = <<p>> /\ plan_ring' = Tail(plan_ring) /\ todo' = p.tombstones
      /\ active' = {} /\ pc' = "tombstone"
      /\ UNCHANGED controlVars
      /\ UNCHANGED <<pool, adopted, lost, outbox, handed, previous_plan, cleanup_ring,
                     halted, panics, stream, cleanup, runtime>>
  BY DEF Pop, StalePointers, faultVars, hostVars
<1>2. /\ PlannerInv /\ ATypeOK /\ PlansFrugal /\ SwapBudget /\ ShutdownInv
      /\ plan_ring \in Seq(Plans) /\ Len(plan_ring) \in Nat /\ Len(plan_ring) <= PlanRing
      /\ PlanRing \in Nat
  BY PlanRingAssumption DEF AdoptionInv, PlannerInv, TypeOK
<1>3. /\ Len(plan_ring) \in Nat \ {0} /\ p \in Plans /\ p = plan_ring[1]
      /\ plan_ring' \in Seq(Plans) /\ Len(plan_ring') = Len(plan_ring) - 1
      /\ \A i \in 1 .. Len(plan_ring') : plan_ring'[i] = plan_ring[i + 1]
  BY <1>1, <1>2, EmptySeq, HeadTailProperties
<1>4. p.tombstones \in SUBSET Slots /\ DOMAIN p.updates \in SUBSET Slots
  BY <1>3, PartialMapElim DEF Plans
<1>5. PlannerInv'
  <2>1. Len(plan_ring') <= PlanRing
    BY <1>2, <1>3
  <2>2. /\ pool' \in PartialMaps(Slots, Modules) /\ active' \in SUBSET Slots
        /\ adopted' \in 0 .. MaxReloads
    BY <1>1, <1>2 DEF PlannerInv, TypeOK
  <2> QED BY <1>1, <1>2, <1>3, <2>1, <2>2, AudioPlanner
<1>6. current' = p /\ plan' # <<>> /\ plan' \in Seq(Plans) /\ Len(plan') = 1
  BY <1>1, <1>3 DEF current
<1>7. ATypeOK'
  BY <1>1, <1>2, <1>4, <1>5, <1>6 DEF ATypeOK, PlannerInv
<1>8. \A i \in 1 .. Len(plan_ring) : Frugal(plan_ring[i])
  BY <1>2 DEF PlansFrugal
<1>9. Frugal(p)
  <2>1. 1 \in 1 .. Len(plan_ring)
    BY <1>3
  <2> QED BY <1>3, <1>8, <2>1
<1>10. PlansFrugal'
  <2>1. \A i \in 1 .. Len(plan_ring') : i + 1 \in 1 .. Len(plan_ring)
    BY <1>3
  <2>2. \A i \in 1 .. Len(plan_ring') : Frugal(plan_ring'[i])
    BY <1>3, <1>8, <2>1
  <2>3. outgoing' = outgoing
    BY <1>1 DEF controlVars
  <2> QED BY <1>2, <1>6, <1>9, <2>2, <2>3 DEF PlansFrugal
<1>11. SwapBudget'
  <2>1. /\ Cardinality(p.tombstones) + Cardinality(DOMAIN p.updates) <= PoolCapacity
        /\ Cardinality(p.tombstones) \in Nat /\ Cardinality(DOMAIN p.updates) \in Nat
        /\ PoolCapacity \in Nat
    BY <1>4, <1>9, SlotSets, CapacityAssumption DEF Frugal
  <2>2. handed' = 0 /\ outbox' = 0
    BY <1>1, <1>2 DEF SwapBudget
  <2>3. handed' + outbox' + 2 * Cardinality(todo') + Cardinality(DOMAIN p.updates)
          <= 2 * PoolCapacity
    BY <1>1, <2>1, <2>2
  <2> QED BY <1>1, <1>6, <2>3 DEF SwapBudget
<1>12. PointersInv' /\ HaltInv' /\ ShutdownInv'
  BY <1>1, <1>2 DEF PointersInv, NoDanglingPointers, HaltInv, ShutdownInv
<1> QED BY <1>5, <1>7, <1>10, <1>11, <1>12 DEF AdoptionInv

LEMMA HandOffStep ==
  ASSUME AdoptionInv, HandOff
  PROVE  AdoptionInv'
<1>1. /\ outbox > 0 /\ cleanup_ring' = Offered /\ outbox' = outbox - 1 /\ handed' = handed + 1
      /\ UNCHANGED vars
      /\ UNCHANGED <<lost, pc, plan, todo, previous_plan, halted, panics, stream, cleanup,
                     runtime>>
      /\ PlannerInv /\ ATypeOK /\ PlansFrugal /\ SwapBudget /\ PointersInv /\ HaltInv
      /\ ShutdownInv
  BY DEF HandOff, AdoptionInv, faultVars, hostVars
<1>2. UNCHANGED <<nodes, alloc, next_id, generation, outgoing, plan_ring, pool, active, adopted>>
  BY <1>1 DEF vars
<1>3. PlannerInv'
  BY <1>1, <1>2 DEF PlannerInv, TypeOK, SlotsPartitioned, InstancesDistinct, StampsLeft
<1>4. handed \in Nat /\ outbox \in 0 .. 2
  BY BudgetTypes
<1>5. pc # "idle"
  BY <1>1, <1>4 DEF SwapBudget
<1>6. cleanup_ring' \in 0 .. CleanupRing /\ outbox' \in 0 .. 2 /\ handed' \in Nat
  <2>1. cleanup_ring \in 0 .. CleanupRing /\ CleanupRing \in Nat
    BY <1>1, AdoptionAssumption DEF ATypeOK
  <2> QED BY <1>1, <1>4, <2>1 DEF Offered
<1>7. ATypeOK'
  BY <1>1, <1>3, <1>6 DEF ATypeOK, PlannerInv
<1>8. PlansFrugal' /\ PointersInv' /\ HaltInv'
  BY <1>1, <1>2 DEF PlansFrugal, current, PointersInv, NoDanglingPointers, HaltInv
<1>9. SwapBudget'
  <2>1. handed' + outbox' = handed + outbox
    BY <1>1, <1>4
  <2> QED BY <1>1, <1>5, <2>1 DEF SwapBudget, current
<1>10. ShutdownInv'
  BY <1>1, <1>5 DEF ShutdownInv
<1> QED BY <1>3, <1>7, <1>8, <1>9, <1>10 DEF AdoptionInv

LEMMA TombstoneSlotStep ==
  ASSUME AdoptionInv, TombstoneSlot
  PROVE  AdoptionInv'
<1>1. PICK s \in todo :
        /\ todo' = todo \ {s} /\ pool' = Tombstone(pool, {s})
        /\ outbox' = IF s \in DOMAIN pool THEN 2 ELSE 0
  BY DEF TombstoneSlot, Remaining
<1>2. /\ pc = "tombstone" /\ outbox = 0 /\ UNCHANGED controlVars
      /\ UNCHANGED <<plan_ring, active, adopted, lost, pc, plan, handed, previous_plan,
                     cleanup_ring, halted, panics, stream, cleanup, runtime>>
      /\ PlannerInv /\ ATypeOK /\ PlansFrugal /\ SwapBudget /\ PointersInv /\ ShutdownInv
  BY DEF AdoptionInv, TombstoneSlot, faultVars, hostVars
<1>3. PlannerInv'
  <2>1. pool' \in PartialMaps(Slots, Modules)
    BY <1>1, <1>2, TombstoneType DEF PlannerInv, TypeOK
  <2> QED BY <1>2, <2>1, AudioPlanner DEF PlannerInv, TypeOK
<1>4. /\ handed \in Nat /\ PoolCapacity \in Nat /\ Cardinality(todo) \in Nat
      /\ Cardinality(DOMAIN current.updates) \in Nat /\ todo \in SUBSET Slots
  BY <1>2, BudgetTypes
<1>5. Cardinality(todo') = Cardinality(todo) - 1
  BY <1>1, <1>4, SlotSets
<1>6. outbox' \in 0 .. 2 /\ todo' \in SUBSET Slots
  BY <1>1, <1>4
<1>7. ATypeOK'
  BY <1>2, <1>3, <1>6 DEF ATypeOK, PlannerInv
<1>8. PlansFrugal'
  BY <1>2, SamePlans DEF controlVars
<1>9. SwapBudget'
  <2>1. handed + outbox + 2 * Cardinality(todo) + Cardinality(DOMAIN current.updates)
          <= 2 * PoolCapacity
    BY <1>2 DEF SwapBudget
  <2>2. handed' + outbox' + 2 * Cardinality(todo') + Cardinality(DOMAIN current.updates)
          <= 2 * PoolCapacity
    BY <1>2, <1>4, <1>5, <1>6, <2>1
  <2> QED BY <1>2, <2>2 DEF SwapBudget, current
<1>10. PointersInv' /\ HaltInv' /\ ShutdownInv'
  BY <1>2 DEF PointersInv, NoDanglingPointers, HaltInv, ShutdownInv
<1> QED BY <1>3, <1>7, <1>8, <1>9, <1>10 DEF AdoptionInv

LEMMA InstallModulesStep ==
  ASSUME AdoptionInv, InstallModules
  PROVE  AdoptionInv'
<1>1. /\ pc = "tombstone" /\ outbox = 0 /\ todo = {} /\ pc' = "update"
      /\ pool' = Install(pool, current.new_modules) /\ todo' = DOMAIN current.updates
      /\ UNCHANGED controlVars
      /\ UNCHANGED <<plan_ring, active, adopted, lost, plan, outbox, handed, previous_plan,
                     cleanup_ring, halted, panics, stream, cleanup, runtime>>
      /\ PlannerInv /\ ATypeOK /\ PlansFrugal /\ SwapBudget /\ PointersInv /\ ShutdownInv
  BY DEF AdoptionInv, InstallModules, faultVars, hostVars
<1>2. /\ current.new_modules \in PartialMaps(Slots, Modules)
      /\ DOMAIN current.updates \in SUBSET Slots /\ plan # <<>>
  BY <1>1, CurrentPlan
<1>3. PlannerInv'
  <2>1. pool' \in PartialMaps(Slots, Modules)
    BY <1>1, <1>2, InstallType DEF PlannerInv, TypeOK
  <2> QED BY <1>1, <2>1, AudioPlanner DEF PlannerInv, TypeOK
<1>4. ATypeOK'
  BY <1>1, <1>2, <1>3 DEF ATypeOK, PlannerInv
<1>5. PlansFrugal'
  BY <1>1, SamePlans DEF controlVars
<1>6. SwapBudget'
  <2>1. /\ handed \in Nat /\ PoolCapacity \in Nat /\ Cardinality(DOMAIN current.updates) \in Nat
    BY <1>1, BudgetTypes
  <2>2. handed + outbox + 2 * Cardinality({}) + Cardinality(DOMAIN current.updates)
          <= 2 * PoolCapacity
    BY <1>1 DEF SwapBudget
  <2>3. handed + outbox + Cardinality(DOMAIN current.updates) <= 2 * PoolCapacity
    BY <1>1, <2>1, <2>2, FS_EmptySet
  <2>4. handed' + outbox' + Cardinality(todo') <= 2 * PoolCapacity
    BY <1>1, <2>3
  <2> QED BY <1>1, <2>4 DEF SwapBudget, current
<1>7. PointersInv' /\ HaltInv' /\ ShutdownInv'
  BY <1>1 DEF PointersInv, NoDanglingPointers, HaltInv, ShutdownInv
<1> QED BY <1>3, <1>4, <1>5, <1>6, <1>7 DEF AdoptionInv

LEMMA UpdateModuleStep ==
  ASSUME AdoptionInv, UpdateModule
  PROVE  AdoptionInv'
<1>1. PICK s \in todo :
        /\ todo' = todo \ {s} /\ pool' = Update(pool, Restrict(current.updates, {s}))
        /\ outbox' \in IF s \in DOMAIN pool THEN {0, 1} ELSE {0}
  BY DEF UpdateModule, Remaining
<1>2. /\ pc = "update" /\ outbox = 0 /\ UNCHANGED controlVars
      /\ UNCHANGED <<plan_ring, active, adopted, lost, pc, plan, handed, previous_plan,
                     cleanup_ring, halted, panics, stream, cleanup, runtime>>
      /\ PlannerInv /\ ATypeOK /\ PlansFrugal /\ SwapBudget /\ PointersInv /\ ShutdownInv
  BY DEF AdoptionInv, UpdateModule, faultVars, hostVars
<1>3. /\ todo \subseteq DOMAIN current.updates
      /\ handed + outbox + Cardinality(todo) <= 2 * PoolCapacity
  BY <1>2 DEF SwapBudget
<1>4. PlannerInv'
  <2>1. \A t \in DOMAIN Restrict(current.updates, {s}) :
          Restrict(current.updates, {s})[t] \in Settings
    BY <1>2, <1>3, CurrentPlan DEF Restrict
  <2>2. pool' \in PartialMaps(Slots, Modules)
    BY <1>1, <1>2, <2>1, UpdateType DEF PlannerInv, TypeOK
  <2> QED BY <1>2, <2>2, AudioPlanner DEF PlannerInv, TypeOK
<1>5. handed \in Nat /\ PoolCapacity \in Nat /\ Cardinality(todo) \in Nat /\ todo \in SUBSET Slots
  BY <1>2, BudgetTypes
<1>6. Cardinality(todo') = Cardinality(todo) - 1
  BY <1>1, <1>5, SlotSets
<1>7. outbox' \in 0 .. 1 /\ outbox' \in 0 .. 2 /\ todo' \in SUBSET Slots
  BY <1>1, <1>5
<1>8. ATypeOK'
  BY <1>2, <1>4, <1>7 DEF ATypeOK, PlannerInv
<1>9. PlansFrugal'
  BY <1>2, SamePlans DEF controlVars
<1>10. SwapBudget'
  <2>1. handed' + outbox' + Cardinality(todo') <= 2 * PoolCapacity
    BY <1>2, <1>3, <1>5, <1>6, <1>7
  <2>2. todo' \subseteq DOMAIN current.updates
    BY <1>1, <1>3
  <2> QED BY <1>2, <2>1, <2>2 DEF SwapBudget, current
<1>11. PointersInv' /\ HaltInv' /\ ShutdownInv'
  BY <1>2 DEF PointersInv, NoDanglingPointers, HaltInv, ShutdownInv
<1> QED BY <1>4, <1>8, <1>9, <1>10, <1>11 DEF AdoptionInv

LEMMA RebuildStep ==
  ASSUME AdoptionInv, Rebuild
  PROVE  AdoptionInv'
<1>1. /\ pc = "update" /\ outbox = 0 /\ todo = {} /\ pc' = "host_control"
      /\ current.active_indices \subseteq DOMAIN pool
      /\ active' = current.active_indices /\ adopted' = current.generation
      /\ halted' = IF lost THEN halted ELSE FALSE
      /\ outbox' = IF previous_plan THEN 1 ELSE 0
      /\ previous_plan' = TRUE
      /\ UNCHANGED controlVars
      /\ UNCHANGED <<plan_ring, pool, lost, plan, todo, handed, cleanup_ring, panics, stream,
                     cleanup, runtime>>
      /\ PlannerInv /\ ATypeOK /\ PlansFrugal /\ SwapBudget /\ ShutdownInv
  BY DEF AdoptionInv, Rebuild, HaltAfterRebuild, hostVars
<1>2. /\ current.active_indices \in SUBSET Slots /\ current.generation \in 0 .. MaxReloads
      /\ plan # <<>>
  BY <1>1, CurrentPlan
<1>3. PlannerInv'
  BY <1>1, <1>2, AudioPlanner DEF PlannerInv, TypeOK
<1>4. outbox' \in 0 .. 1 /\ outbox' \in 0 .. 2 /\ halted' \in BOOLEAN
  <2>1. outbox' = 0 \/ outbox' = 1
    BY <1>1
  <2>2. halted \in BOOLEAN
    BY <1>1, Zenon DEF ATypeOK
  <2>3. halted' \in BOOLEAN
    BY <1>1, <2>2, Zenon
  <2>4. outbox' \in 0 .. 1 /\ outbox' \in 0 .. 2
    BY <2>1
  <2> QED BY <2>3, <2>4
<1>5. ATypeOK'
  BY <1>1, <1>2, <1>3, <1>4 DEF ATypeOK, PlannerInv
<1>6. PlansFrugal'
  BY <1>1, SamePlans DEF controlVars
<1>7. SwapBudget'
  <2>1. handed \in Nat /\ PoolCapacity \in Nat /\ Cardinality(todo) \in Nat
    BY BudgetTypes
  <2>2. handed + outbox + Cardinality(todo) <= 2 * PoolCapacity
    BY <1>1 DEF SwapBudget
  <2>3. handed' + outbox' <= 2 * PoolCapacity + 1
    BY <1>1, <1>4, <2>1, <2>2
  <2> QED BY <1>1, <2>3 DEF SwapBudget
<1>8. PointersInv' /\ HaltInv' /\ ShutdownInv'
  BY <1>1 DEF PointersInv, NoDanglingPointers, HaltInv, ShutdownInv
<1> QED BY <1>3, <1>5, <1>6, <1>7, <1>8 DEF AdoptionInv

\* What follows the rebuild: at most one value more to offer, twice.
LEMMA AfterRebuildStep ==
  ASSUME AdoptionInv, NoHostControl \/ HostControl \/ MonitorMetadata
  PROVE  AdoptionInv'
<1>1. /\ \/ pc = "host_control" /\ pc' = "monitor"
         \/ pc = "monitor" /\ pc' = "return"
      /\ outbox = 0 /\ outbox' \in {0, 1}
      /\ UNCHANGED vars
      /\ UNCHANGED <<lost, plan, todo, handed, previous_plan, cleanup_ring, halted, panics,
                     stream, cleanup, runtime>>
  BY DEF NoHostControl, HostControl, MonitorMetadata, faultVars, hostVars
<1>2. /\ PlannerInv /\ ATypeOK /\ PlansFrugal /\ SwapBudget /\ PointersInv /\ HaltInv
      /\ ShutdownInv
      /\ UNCHANGED <<nodes, alloc, next_id, generation, outgoing, plan_ring, pool, active, adopted>>
  BY <1>1 DEF AdoptionInv, vars
<1>3. PlannerInv'
  BY <1>2 DEF PlannerInv, TypeOK, SlotsPartitioned, InstancesDistinct, StampsLeft
<1>4. ATypeOK'
  BY <1>1, <1>2, <1>3 DEF ATypeOK, PlannerInv
<1>5. PlansFrugal' /\ PointersInv' /\ HaltInv' /\ ShutdownInv'
  BY <1>1, <1>2 DEF PlansFrugal, current, PointersInv, NoDanglingPointers, HaltInv, ShutdownInv
<1>6. SwapBudget'
  <2>1. handed \in Nat /\ PoolCapacity \in Nat
    BY BudgetTypes
  <2>2. /\ pc = "host_control" => handed + outbox <= 2 * PoolCapacity + 1
        /\ pc = "monitor" => handed + outbox <= 2 * PoolCapacity + 2
    BY <1>2 DEF SwapBudget
  <2>3. handed' = handed /\ outbox = 0 /\ (outbox' = 0 \/ outbox' = 1)
    BY <1>1
  <2>4. CASE pc = "host_control" /\ pc' = "monitor"
    <3>1. handed' + outbox' <= 2 * PoolCapacity + 2
      BY <2>1, <2>2, <2>3, <2>4
    <3> QED BY <2>4, <3>1 DEF SwapBudget
  <2>5. CASE pc = "monitor" /\ pc' = "return"
    <3>1. handed' + outbox' <= 2 * PoolCapacity + 3
      BY <2>1, <2>2, <2>3, <2>5
    <3> QED BY <2>5, <3>1 DEF SwapBudget
  <2> QED BY <1>1, <2>4, <2>5
<1> QED BY <1>3, <1>4, <1>5, <1>6 DEF AdoptionInv

LEMMA ReturnStep ==
  ASSUME AdoptionInv, Return
  PROVE  AdoptionInv'
<1>1. /\ pc = "return" /\ outbox = 0 /\ handed' = 0 /\ plan' = <<>> /\ pc' = "idle"
      /\ UNCHANGED vars
      /\ UNCHANGED <<lost, todo, outbox, previous_plan, cleanup_ring, halted, panics, stream,
                     cleanup, runtime>>
  BY DEF Return, faultVars, hostVars
<1>2. /\ PlannerInv /\ ATypeOK /\ PlansFrugal /\ PointersInv /\ ShutdownInv
      /\ UNCHANGED <<nodes, alloc, next_id, generation, outgoing, plan_ring, pool, active, adopted>>
  BY <1>1 DEF AdoptionInv, vars
<1>3. PlannerInv'
  BY <1>2 DEF PlannerInv, TypeOK, SlotsPartitioned, InstancesDistinct, StampsLeft
<1>4. <<>> \in Seq(Plans) /\ Len(<<>>) = 0
  BY EmptySeq
<1>5. ATypeOK'
  BY <1>1, <1>2, <1>3, <1>4 DEF ATypeOK, PlannerInv
<1>6. PlansFrugal'
  BY <1>1, <1>2, SamePlans
<1>7. SwapBudget' /\ PointersInv' /\ HaltInv' /\ ShutdownInv'
  BY <1>1, <1>2 DEF SwapBudget, PointersInv, NoDanglingPointers, HaltInv, ShutdownInv
<1> QED BY <1>3, <1>5, <1>6, <1>7 DEF AdoptionInv

\* A panic in mid-adoption: the pool is gone, and with it every pointer.
LEMMA UnwindStep ==
  ASSUME AdoptionInv, ModulePanics \/ AdoptionPanics
  PROVE  AdoptionInv'
<1>1. /\ pc # "idle" /\ Unwind /\ panics' \in 0 .. MaxPanics
  <2>1. CASE ModulePanics
    BY <2>1, AdoptionAssumption DEF ModulePanics, AdoptionInv, ATypeOK
  <2>2. CASE AdoptionPanics
    BY <2>2 DEF AdoptionPanics, AdoptionInv, ATypeOK
  <2> QED BY <2>1, <2>2
<1>2. /\ pool' = EmptyMap /\ active' = {} /\ lost' = TRUE /\ halted' = TRUE
      /\ plan' = <<>> /\ todo' = {} /\ outbox' = 0 /\ handed' = 0 /\ pc' = "idle"
      /\ UNCHANGED controlVars
      /\ UNCHANGED <<plan_ring, adopted, previous_plan, cleanup_ring, stream, cleanup, runtime>>
      /\ PlannerInv /\ ATypeOK /\ PlansFrugal /\ ShutdownInv
  BY <1>1 DEF AdoptionInv, Unwind, hostVars
<1>3. EmptyMap \in PartialMaps(Slots, Modules)
  <2>1. EmptyMap \in [{} -> Modules] /\ {} \in SUBSET Slots
    BY DEF EmptyMap
  <2> QED BY <2>1, PartialMapIntro
<1>4. PlannerInv'
  BY <1>2, <1>3, AudioPlanner DEF PlannerInv, TypeOK
<1>5. <<>> \in Seq(Plans) /\ Len(<<>>) = 0
  BY EmptySeq
<1>6. ATypeOK'
  BY <1>1, <1>2, <1>4, <1>5 DEF ATypeOK, PlannerInv
<1>7. PlansFrugal'
  BY <1>2, SamePlans DEF controlVars
<1>8. SwapBudget' /\ PointersInv' /\ HaltInv' /\ ShutdownInv'
  BY <1>1, <1>2 DEF SwapBudget, PointersInv, NoDanglingPointers, HaltInv, ShutdownInv
<1> QED BY <1>4, <1>6, <1>7, <1>8 DEF AdoptionInv

\* The cleanup thread, shutdown, and a panic between adoptions.
LEMMA OtherStep ==
  ASSUME AdoptionInv,
         TickPanics \/ CleanupThread \/ StopStream \/ DropRuntime \/ JoinReturns
  PROVE  AdoptionInv'
<1>1. /\ UNCHANGED <<nodes, alloc, next_id, generation, outgoing, plan_ring, pool, active, adopted>>
      /\ UNCHANGED <<lost, pc, plan, todo, outbox, handed, previous_plan>>
  BY DEF TickPanics, CleanupThread, CleanupPop, CleanupEmpty, CleanupAgain, CleanupExit,
         StopStream, DropRuntime, JoinReturns, vars, adoptionVars
<1>2. /\ PlannerInv /\ ATypeOK /\ PlansFrugal /\ SwapBudget /\ PointersInv /\ HaltInv
      /\ ShutdownInv /\ cleanup_ring \in 0 .. CleanupRing /\ CleanupRing \in Nat
      /\ panics \in 0 .. MaxPanics /\ MaxPanics \in Nat
  BY AdoptionAssumption DEF AdoptionInv, ATypeOK
<1>3. PlannerInv'
  BY <1>1, <1>2 DEF PlannerInv, TypeOK, SlotsPartitioned, InstancesDistinct, StampsLeft
<1>4. PlansFrugal' /\ SwapBudget' /\ PointersInv'
  BY <1>1, <1>2 DEF PlansFrugal, SwapBudget, current, PointersInv, NoDanglingPointers
<1>5. CASE TickPanics
  <2>1. /\ pc = "idle" /\ panics' = panics + 1 /\ panics < MaxPanics /\ halted' = TRUE
        /\ UNCHANGED <<cleanup_ring, stream, cleanup, runtime>>
    BY <1>5 DEF TickPanics, hostVars
  <2>2. panics' \in 0 .. MaxPanics
    BY <1>2, <2>1
  <2>3. ATypeOK'
    BY <1>1, <1>2, <1>3, <2>1, <2>2 DEF ATypeOK, PlannerInv
  <2>4. HaltInv' /\ ShutdownInv'
    BY <1>1, <1>2, <2>1 DEF HaltInv, ShutdownInv
  <2> QED BY <1>3, <1>4, <2>3, <2>4 DEF AdoptionInv
<1>6. CASE CleanupThread
  <2>1. cleanup_ring' \in 0 .. CleanupRing /\ cleanup' \in {"drain", "check", "exited"}
        /\ UNCHANGED <<halted, panics, stream, runtime>>
        /\ (runtime = "dropped" => FALSE)
    BY <1>2, <1>6 DEF CleanupThread, CleanupPop, CleanupEmpty, CleanupAgain, CleanupExit,
                      ShutdownInv, ATypeOK, faultVars, hostVars
  <2>2. ATypeOK'
    BY <1>1, <1>2, <1>3, <2>1 DEF ATypeOK, PlannerInv
  <2>3. HaltInv'
    BY <1>1, <1>2, <2>1 DEF HaltInv
  <2>4. ShutdownInv'
    BY <1>1, <1>2, <1>6, <2>1 DEF ShutdownInv, CleanupThread, CleanupPop, CleanupEmpty,
                                  CleanupAgain, CleanupExit, hostVars
  <2> QED BY <1>3, <1>4, <2>2, <2>3, <2>4 DEF AdoptionInv
<1>7. CASE StopStream \/ DropRuntime \/ JoinReturns
  <2>1. /\ stream' \in {"playing", "stopped"} /\ runtime' \in {"live", "joining", "dropped"}
        /\ UNCHANGED <<halted, panics, cleanup_ring, cleanup>>
    BY <1>2, <1>7 DEF StopStream, DropRuntime, JoinReturns, faultVars, ATypeOK
  <2>2. ATypeOK'
    BY <1>1, <1>2, <1>3, <2>1 DEF ATypeOK, PlannerInv
  <2>3. HaltInv'
    BY <1>1, <1>2, <2>1 DEF HaltInv
  <2>4. ShutdownInv'
    BY <1>1, <1>2, <1>7, <2>1 DEF ShutdownInv, StopStream, DropRuntime, JoinReturns
  <2> QED BY <1>3, <1>4, <2>2, <2>3, <2>4 DEF AdoptionInv
<1> QED BY <1>5, <1>6, <1>7

-----------------------------------------------------------------------------
(* What holds whatever the host does.                                       *)

LEMMA AdoptionInit ==
  ASSUME AInit
  PROVE  AdoptionInv
<1>1. PlannerInv
  BY InitPlanner DEF AInit
<1>2. <<>> \in Seq(Plans) /\ Len(<<>>) = 0
  BY EmptySeq
<1>3. ATypeOK
  <2>1. 0 \in 0 .. CleanupRing /\ 0 \in 0 .. MaxPanics
    BY AdoptionAssumption
  <2>2. {previous_plan, halted} \subseteq BOOLEAN /\ lost \in BOOLEAN
    BY DEF AInit
  <2>3. /\ plan \in Seq(Plans) /\ Len(plan) <= 1 /\ (plan = <<>> <=> pc = "idle")
        /\ todo \in SUBSET Slots /\ outbox \in 0 .. 2 /\ handed \in Nat
    BY <1>2 DEF AInit
  <2>4. /\ cleanup_ring \in 0 .. CleanupRing /\ panics \in 0 .. MaxPanics
        /\ pc = "idle" /\ stream = "playing" /\ cleanup = "drain" /\ runtime = "live"
    BY <2>1 DEF AInit
  <2> QED BY <1>1, <2>2, <2>3, <2>4 DEF ATypeOK, PlannerInv
<1>4. PlansFrugal
  BY <1>2 DEF AInit, Init, PlansFrugal
<1>5. SwapBudget /\ HaltInv /\ ShutdownInv
  BY DEF AInit, SwapBudget, HaltInv, ShutdownInv
<1>6. PointersInv
  BY DEF AInit, Init, PointersInv, NoDanglingPointers
<1> QED BY <1>1, <1>3, <1>4, <1>5, <1>6 DEF AdoptionInv

LEMMA AdoptionStep ==
  ASSUME AdoptionInv, [ANext]_allVars
  PROVE  AdoptionInv'
<1>1. CASE Build \/ PushOk \/ PushDropped
  BY <1>1, ControlStep
<1>2. CASE Pop
  BY <1>2, PopStep
<1>3. CASE HandOff
  BY <1>3, HandOffStep
<1>4. CASE TombstoneSlot
  BY <1>4, TombstoneSlotStep
<1>5. CASE InstallModules
  BY <1>5, InstallModulesStep
<1>6. CASE UpdateModule
  BY <1>6, UpdateModuleStep
<1>7. CASE Rebuild
  BY <1>7, RebuildStep
<1>8. CASE NoHostControl \/ HostControl \/ MonitorMetadata
  BY <1>8, AfterRebuildStep
<1>9. CASE Return
  BY <1>9, ReturnStep
<1>10. CASE ModulePanics \/ AdoptionPanics
  BY <1>10, UnwindStep
<1>11. CASE TickPanics \/ CleanupThread \/ StopStream \/ DropRuntime \/ JoinReturns
  BY <1>11, OtherStep
<1>12. CASE UNCHANGED allVars
  <2>1. /\ UNCHANGED <<nodes, alloc, next_id, generation, outgoing, plan_ring, pool, active,
                       adopted>>
        /\ UNCHANGED <<lost, pc, plan, todo, outbox, handed, previous_plan, cleanup_ring,
                       halted, panics, stream, cleanup, runtime>>
        /\ PlannerInv /\ ATypeOK /\ PlansFrugal /\ SwapBudget /\ PointersInv /\ HaltInv
        /\ ShutdownInv
    BY <1>12 DEF allVars, vars, adoptionVars, faultVars, hostVars, AdoptionInv
  <2>2. PlannerInv'
    BY <2>1 DEF PlannerInv, TypeOK, SlotsPartitioned, InstancesDistinct, StampsLeft
  <2>3. ATypeOK'
    BY <2>1, <2>2 DEF PlannerInv, ATypeOK
  <2>4. PlansFrugal' /\ SwapBudget' /\ PointersInv' /\ HaltInv' /\ ShutdownInv'
    BY <2>1 DEF PlansFrugal, SwapBudget, current, PointersInv, NoDanglingPointers, HaltInv,
                ShutdownInv
  <2> QED BY <2>2, <2>3, <2>4 DEF AdoptionInv
<1> QED
  BY <1>1, <1>2, <1>3, <1>4, <1>5, <1>6, <1>7, <1>8, <1>9, <1>10, <1>11, <1>12
  DEF ANext, Adoption

\* The invariant holds in every reachable state, with any pushes dropped, any
\* panics and any moment of shutdown.
THEOREM AdoptionInvariant == ASpec => []AdoptionInv
<1>1. AInit => AdoptionInv
  BY AdoptionInit
<1>2. AdoptionInv /\ [ANext]_allVars => AdoptionInv'
  BY AdoptionStep
<1> QED BY <1>1, <1>2, PTL DEF ASpec

\* At every step of an adoption, after a dropped plan and after a panic: no raw
\* module pointer dangles, and one adoption hands the cleanup ring no more than
\* twice the pool and three values more.
THEOREM AdoptionIsSafe == ASpec => []AdoptionSafe
<1>1. AdoptionInv => AdoptionSafe
  <2> SUFFICES ASSUME AdoptionInv PROVE AdoptionSafe
    OBVIOUS
  <2>1. ATypeOK /\ NoDanglingPointers /\ SwapBudget
    BY DEF AdoptionInv, PointersInv
  <2>2. /\ handed \in Nat /\ outbox \in Nat /\ PoolCapacity \in Nat
        /\ Cardinality(todo) \in Nat
        /\ pc # "idle" => Cardinality(DOMAIN current.updates) \in Nat
    BY BudgetTypes
  <2>3. CASE pc = "idle"
    BY <2>1, <2>2, <2>3 DEF SwapBudget, AdoptionSafe, SwapFill
  <2>4. CASE pc = "tombstone"
    <3>1. handed + outbox + 2 * Cardinality(todo) + Cardinality(DOMAIN current.updates)
            <= 2 * PoolCapacity
      BY <2>1, <2>4 DEF SwapBudget
    <3>2. handed <= 2 * PoolCapacity + 3
      BY <2>2, <2>4, <3>1
    <3> QED BY <2>1, <3>2 DEF AdoptionSafe, SwapFill
  <2>5. CASE pc = "update"
    <3>1. handed + outbox + Cardinality(todo) <= 2 * PoolCapacity
      BY <2>1, <2>5 DEF SwapBudget
    <3>2. handed <= 2 * PoolCapacity + 3
      BY <2>2, <3>1
    <3> QED BY <2>1, <3>2 DEF AdoptionSafe, SwapFill
  <2>6. CASE pc \in {"host_control", "monitor", "return"}
    <3>1. \/ handed + outbox <= 2 * PoolCapacity + 1
          \/ handed + outbox <= 2 * PoolCapacity + 2
          \/ handed + outbox <= 2 * PoolCapacity + 3
      BY <2>1, <2>6 DEF SwapBudget
    <3>2. handed <= 2 * PoolCapacity + 3
      BY <2>2, <3>1
    <3> QED BY <2>1, <3>2 DEF AdoptionSafe, SwapFill
  <2>7. pc \in {"idle", "tombstone", "update", "host_control", "monitor", "return"}
    BY <2>1 DEF ATypeOK
  <2> QED BY <2>3, <2>4, <2>5, <2>6, <2>7
<1> QED BY <1>1, AdoptionInvariant, PTL

\* When HostRuntime::drop has returned the cleanup ring is empty: whatever was
\* evicted between the thread's last pop and its abandoned check is dropped too.
THEOREM JoinDrains == ASpec => []JoinedMeansDrained
<1>1. AdoptionInv => JoinedMeansDrained
  BY DEF AdoptionInv, ShutdownInv, JoinedMeansDrained
<1> QED BY <1>1, AdoptionInvariant, PTL

\* The halt flag is cleared in the step that resolves the pointers and stores the
\* generation of one and the same plan, and in no other.
THEOREM HaltIsSticky == ASpec => HaltSticky
<1>1. AdoptionInv /\ [ANext]_allVars
        => [halted /\ ~halted' =>
              /\ plan # <<>>
              /\ active' = current.active_indices
              /\ adopted' = current.generation]_allVars
  <2> SUFFICES ASSUME AdoptionInv, ANext, halted, ~halted'
               PROVE  /\ plan # <<>>
                      /\ active' = current.active_indices
                      /\ adopted' = current.generation
    OBVIOUS
  <2>1. CASE Rebuild
    <3>1. pc = "update" /\ ATypeOK
      BY <2>1 DEF Rebuild, AdoptionInv
    <3>2. plan # <<>>
      BY <3>1, CurrentPlan
    <3> QED BY <2>1, <3>2 DEF Rebuild
  <2>2. CASE ModulePanics \/ AdoptionPanics \/ TickPanics
    BY <2>2 DEF ModulePanics, AdoptionPanics, TickPanics, Unwind
  <2>3. CASE UNCHANGED halted
    BY <2>3
  <2>4. CASE Build \/ PushOk \/ PushDropped
    BY <2>3, <2>4 DEF Build, PushOk, PushDropped, faultVars
  <2>5. CASE Pop \/ HandOff \/ TombstoneSlot \/ InstallModules \/ UpdateModule
    BY <2>3, <2>5 DEF Pop, HandOff, TombstoneSlot, InstallModules, UpdateModule, faultVars
  <2>6. CASE NoHostControl \/ HostControl \/ MonitorMetadata \/ Return
    BY <2>3, <2>6 DEF NoHostControl, HostControl, MonitorMetadata, Return, faultVars
  <2>7. CASE CleanupThread \/ StopStream \/ DropRuntime \/ JoinReturns
    BY <2>3, <2>7 DEF CleanupThread, CleanupPop, CleanupEmpty, CleanupAgain, CleanupExit,
                      StopStream, DropRuntime, JoinReturns, faultVars
  <2> QED BY <2>1, <2>2, <2>4, <2>5, <2>6, <2>7 DEF ANext, Adoption
<1> QED BY <1>1, AdoptionInvariant, PTL DEF ASpec, HaltSticky

\* A plan adopted to the end on a pool that was never lost leaves the engine
\* running, whatever ticks and panics came before it.
THEOREM ReloadsClearHalt == ASpec => ReloadClearsHalt
<1>1. AdoptionInv /\ [ANext]_allVars
        => [pc = "return" /\ pc' = "idle" /\ ~lost => ~halted']_allVars
  <2> SUFFICES ASSUME AdoptionInv, ANext, pc = "return", pc' = "idle", ~lost
               PROVE  ~halted'
    OBVIOUS
  <2>1. ~halted
    BY DEF AdoptionInv, HaltInv
  <2>2. CASE Return
    BY <2>1, <2>2 DEF Return, faultVars
  <2>3. CASE Build \/ PushOk \/ PushDropped
    BY <2>3 DEF Build, PushOk, PushDropped, adoptionVars
  <2>4. CASE Pop \/ HandOff \/ TombstoneSlot \/ InstallModules \/ UpdateModule \/ Rebuild
    BY <2>4 DEF Pop, HandOff, TombstoneSlot, InstallModules, UpdateModule, Rebuild
  <2>5. CASE NoHostControl \/ HostControl \/ MonitorMetadata
    BY <2>5 DEF NoHostControl, HostControl, MonitorMetadata
  <2>6. CASE ModulePanics \/ AdoptionPanics \/ TickPanics
    BY <2>6 DEF ModulePanics, AdoptionPanics, TickPanics
  <2>7. CASE CleanupThread \/ StopStream \/ DropRuntime \/ JoinReturns
    BY <2>7 DEF CleanupThread, CleanupPop, CleanupEmpty, CleanupAgain, CleanupExit,
                StopStream, DropRuntime, JoinReturns, adoptionVars
  <2> QED BY <2>2, <2>3, <2>4, <2>5, <2>6, <2>7 DEF ANext, Adoption
<1> QED BY <1>1, AdoptionInvariant, PTL DEF ASpec, ReloadClearsHalt

-----------------------------------------------------------------------------
(* Adoption in steps is adoption in one step, where the host retries a push *)
(* until it is taken and no module panics.                                  *)

\* Emptying one slot of those to be emptied leaves the rest of the plan good.
LEMMA TombstoneAhead ==
  ASSUME NEW p, NEW next \in Plans, NEW T, NEW s \in T,
         Good(p, [next EXCEPT !.tombstones = T])
  PROVE  Good(Tombstone(p, {s}), [next EXCEPT !.tombstones = T \ {s}])
<1> DEFINE before == [next EXCEPT !.tombstones = T]
           after  == [next EXCEPT !.tombstones = T \ {s}]
<1>1. /\ before.tombstones = T /\ after.tombstones = T \ {s}
      /\ before.target = after.target /\ before.new_modules = after.new_modules
      /\ before.updates = after.updates /\ before.active_indices = after.active_indices
  BY DEF Plans
<1>2. Good(p, before)
  OBVIOUS
<1> HIDE DEF before, after
<1>3. Tombstone(Tombstone(p, {s}), T \ {s}) = Tombstone(p, T)
  BY DEF Tombstone, Restrict
<1>4. DOMAIN Tombstone(p, {s}) = DOMAIN p \ {s}
  BY DEF Tombstone, Restrict
<1>5. Apply(Tombstone(p, {s}), after) = Apply(p, before)
  BY <1>1, <1>3 DEF Apply
<1>6. Good(Tombstone(p, {s}), after)
  BY <1>1, <1>2, <1>4, <1>5 DEF Good, Fits
<1> QED BY <1>6 DEF after

\* With every slot emptied, the new modules installed leave the updates to do.
LEMMA InstallAhead ==
  ASSUME NEW p \in PartialMaps(Slots, Modules), NEW next \in Plans,
         Good(p, [next EXCEPT !.tombstones = {}])
  PROVE  /\ Update(Install(p, next.new_modules),
                   Restrict(next.updates, DOMAIN next.updates)) = next.target
         /\ DOMAIN next.updates \subseteq DOMAIN Install(p, next.new_modules)
         /\ next.active_indices = DOMAIN Install(p, next.new_modules)
<1> DEFINE rest == [next EXCEPT !.tombstones = {}]
<1>1. /\ rest.tombstones = {} /\ rest.target = next.target
      /\ rest.new_modules = next.new_modules
      /\ rest.updates = next.updates /\ rest.active_indices = next.active_indices
  BY DEF Plans
<1>2. Good(p, rest)
  OBVIOUS
<1> HIDE DEF rest
<1>3. p \in [DOMAIN p -> Modules]
  BY PartialMapElim
<1>4. Tombstone(p, {}) = p
  BY <1>3 DEF Tombstone, Restrict
<1>5. next.updates \in [DOMAIN next.updates -> Settings]
  BY PartialMapElim DEF Plans
<1>6. Restrict(next.updates, DOMAIN next.updates) = next.updates
  BY <1>5 DEF Restrict
<1>7. Update(Install(p, next.new_modules), next.updates) = next.target
  BY <1>1, <1>2, <1>4 DEF Good, Apply
<1>8. DOMAIN next.target = DOMAIN Install(p, next.new_modules)
  BY <1>7 DEF Update
<1>9. DOMAIN next.updates \subseteq DOMAIN p
  BY <1>1, <1>2 DEF Good, Fits
<1>10. DOMAIN p \subseteq DOMAIN Install(p, next.new_modules)
  BY DEF Install
<1>11. next.active_indices = DOMAIN next.target
  BY <1>1, <1>2 DEF Good
<1> QED BY <1>6, <1>7, <1>8, <1>9, <1>10, <1>11

\* Updating some of the modules to be updated leaves the others.
LEMMA UpdateAhead ==
  ASSUME NEW p \in PartialMaps(Slots, Modules), NEW up, NEW A, NEW B, NEW T,
         A \cap B = {}, T = A \cup B, T \subseteq DOMAIN up, T \subseteq DOMAIN p
  PROVE  Update(Update(p, Restrict(up, A)), Restrict(up, B)) = Update(p, Restrict(up, T))
<1>1. p \in [DOMAIN p -> Modules]
  BY PartialMapElim
<1>2. \A S : S \subseteq T => /\ DOMAIN Restrict(up, S) = S
                              /\ \A t \in S : Restrict(up, S)[t] = up[t]
  BY DEF Restrict
<1> DEFINE some == Update(p, Restrict(up, A))
<1>3. /\ DOMAIN some = DOMAIN p
      /\ \A t \in DOMAIN p :
           some[t] = IF t \in A THEN [p[t] EXCEPT !.settings = up[t]] ELSE p[t]
  BY <1>2 DEF Update
<1>4. Update(p, Restrict(up, T))
        = [t \in DOMAIN p |-> IF t \in T THEN [p[t] EXCEPT !.settings = up[t]] ELSE p[t]]
  BY <1>2 DEF Update
<1> HIDE DEF some
<1>5. Update(some, Restrict(up, B))
        = [t \in DOMAIN p |-> IF t \in B THEN [some[t] EXCEPT !.settings = up[t]] ELSE some[t]]
  BY <1>2, <1>3 DEF Update
<1>6. ASSUME NEW t \in DOMAIN p
      PROVE  (IF t \in B THEN [some[t] EXCEPT !.settings = up[t]] ELSE some[t])
               = (IF t \in T THEN [p[t] EXCEPT !.settings = up[t]] ELSE p[t])
  BY <1>3
<1>7. Update(some, Restrict(up, B)) = Update(p, Restrict(up, T))
  BY <1>4, <1>5, <1>6
<1> QED BY <1>7 DEF some

\* The state that PlanHandoff sees.
Seen == <<nodes, alloc, next_id, generation, outgoing, plan_ring,
          TargetPool, TargetActive, TargetStamp>>

\* Stamps are natural numbers.
LEMMA StampType ==
  ASSUME AdoptionInv
  PROVE  TargetStamp \in Nat
<1>1. ATypeOK /\ adopted \in Nat /\ (Adopting <=> pc # "idle")
  BY BoundsAssumption DEF AdoptionInv, PlannerInv, TypeOK, ATypeOK, Adopting
<1>2. pc # "idle" => current.generation \in Nat
  BY <1>1, CurrentPlan
<1> QED BY <1>1, <1>2 DEF TargetStamp

\* Where PlanHandoff sees no change in pool and stamps, the chain goes on.
LEMMA SeenChain ==
  ASSUME AdoptionInv, Chained(TargetPool, TargetActive, TargetStamp),
         UNCHANGED <<TargetPool, TargetActive, TargetStamp>>,
         Compile \/ Push \/ UNCHANGED <<nodes, alloc, generation, outgoing, plan_ring>>
  PROVE  Chained(TargetPool, TargetActive, TargetStamp)'
<1> PICK p, a, k : p = TargetPool /\ a = TargetActive /\ k = TargetStamp
  OBVIOUS
<1>1. k \in Nat /\ Chained(p, a, k) /\ PlannerInv
  BY StampType DEF AdoptionInv
<1>2. Chained(p, a, k)'
  <2>1. CASE Compile
    BY <1>1, <2>1, CompileChain
  <2>2. CASE Push
    BY <1>1, <2>2, PushChain
  <2>3. CASE UNCHANGED <<nodes, alloc, generation, outgoing, plan_ring>>
    BY <1>1, <2>3, IdleChain
  <2> QED BY <2>1, <2>2, <2>3
<1>3. p = TargetPool' /\ a = TargetActive' /\ k = TargetStamp'
  OBVIOUS
<1> QED BY <1>2, <1>3

-----------------------------------------------------------------------------
(* The operators of the instance are those of PlanHandoff itself: only pool, *)
(* active and adopted are mapped, and the planner reads none of them.        *)

\* Sets are counted alike.
LEMMA SameCardinality ==
  ASSUME NEW S
  PROVE  Handoff!Cardinality(S) = Cardinality(S)
BY DEF Handoff!Cardinality, Cardinality

\* The choices of a compilation: hash-table orders and fresh ids.
LEMMA SameChoices ==
  ASSUME NEW S, NEW T
  PROVE  /\ Handoff!SetToSeqs(S) = SetToSeqs(S)
         /\ Handoff!Bijection(S, T) = Bijection(S, T)
<1>1. Handoff!SetToSeqs(S) = SetToSeqs(S)
  BY SameCardinality, Zenon DEF Handoff!SetToSeqs, SetToSeqs
<1>2. Handoff!Bijection(S, T) = Bijection(S, T)
  BY Zenon DEF Handoff!Bijection, Bijection, Handoff!Injection, Injection, Handoff!Surjection,
               Surjection, Handoff!IsInjective, IsInjective
<1> QED BY <1>1, <1>2

\* The planner classifies, mirrors and plans alike.
LEMMA SamePlanner ==
  /\ Handoff!Patches = Patches
  /\ \A patch : Handoff!Installed(patch) = Installed(patch)
  /\ \A count : Handoff!MintedIds(count) = MintedIds(count)
  /\ \A patch, minted : Handoff!Classify(patch, minted) = Classify(patch, minted)
  /\ \A graph, map : Handoff!Mirror(graph, map) = Mirror(graph, map)
  /\ \A before, after, survivors, dead :
       Handoff!PlanFor(before, after, survivors, dead) = PlanFor(before, after, survivors, dead)
<1>1. Handoff!Patches = Patches
  BY Zenon DEF Patches, Handoff!Patches
<1>2. ASSUME NEW patch PROVE Handoff!Installed(patch) = Installed(patch)
  BY Zenon DEF Installed, Handoff!Installed, Survivors, Handoff!Survivors
<1>3. ASSUME NEW count PROVE Handoff!MintedIds(count) = MintedIds(count)
  BY Zenon DEF MintedIds, Handoff!MintedIds
<1>4. ASSUME NEW patch, NEW minted PROVE Handoff!Classify(patch, minted) = Classify(patch, minted)
  BY Zenon DEF Classify, Handoff!Classify, Survivors, Handoff!Survivors
<1>5. ASSUME NEW graph, NEW map PROVE Handoff!Mirror(graph, map) = Mirror(graph, map)
  BY Zenon DEF Mirror, Handoff!Mirror
<1>6. ASSUME NEW before, NEW after, NEW survivors, NEW dead
      PROVE  Handoff!PlanFor(before, after, survivors, dead)
               = PlanFor(before, after, survivors, dead)
  BY Zenon DEF PlanFor, Handoff!PlanFor, NewModules, Handoff!NewModules
<1> QED BY <1>1, <1>2, <1>3, <1>4, <1>5, <1>6, Zenon

\* The slots handed out and taken back are the same.
LEMMA SameDiff ==
  ASSUME NEW ids, NEW dead, NEW turn
  PROVE  Handoff!Diff(ids, dead, turn) = Diff(ids, dead, turn)
BY SameCardinality, Zenon DEF Diff, Handoff!Diff, Acquired, Handoff!Acquired

\* So a compilation here is a compilation there.
LEMMA SameCompile ==
  ASSUME Compile, UNCHANGED Handoff!audioVars
  PROVE  Handoff!Compile
<1>1. PICK patch \in Patches :
        \E minted \in Bijection(Installed(patch), MintedIds(Count(patch))) :
          \E dead \in SetToSeqs(Gone(Classify(patch, minted))),
             turn \in Bijection(MintedIds(Count(patch)), 1 .. Count(patch)) :
            CompileWith(patch, minted, dead, turn)
  BY CompileChoices
<1>2. PICK minted \in Bijection(Installed(patch), MintedIds(Count(patch))) :
        \E dead \in SetToSeqs(Gone(Classify(patch, minted))),
           turn \in Bijection(MintedIds(Count(patch)), 1 .. Count(patch)) :
          CompileWith(patch, minted, dead, turn)
  BY <1>1
<1>3. PICK dead \in SetToSeqs(Gone(Classify(patch, minted))),
           turn \in Bijection(MintedIds(Count(patch)), 1 .. Count(patch)) :
        CompileWith(patch, minted, dead, turn)
  BY <1>2
<1> DEFINE I == Handoff!Installed(patch)
           C == Handoff!Cardinality(I)
           M == Handoff!MintedIds(C)
           G == Handoff!Classify(patch, minted)
           Ids == {G[n].id : n \in DOMAIN G}
           Out == DOMAIN alloc.pool_map \ Ids
           D == Handoff!Diff(Ids, dead, turn)
<1>4. I = Installed(patch) /\ C = Count(patch)
  BY SamePlanner, SameCardinality DEF Count
<1>5. M = MintedIds(Count(patch)) /\ G = Classify(patch, minted)
  BY <1>4, SamePlanner
<1>6. Ids = IdsOf(Classify(patch, minted)) /\ Out = Gone(Classify(patch, minted))
  BY <1>5, Zenon DEF IdsOf, Gone
<1>7. D = Diff(IdsOf(Classify(patch, minted)), dead, turn)
  BY <1>6, SameDiff
<1>8. /\ patch \in Handoff!Patches /\ minted \in Handoff!Bijection(I, M)
      /\ dead \in Handoff!SetToSeqs(Out) /\ turn \in Handoff!Bijection(M, 1 .. C)
  <2>1. patch \in Handoff!Patches
    BY SamePlanner
  <2>2. minted \in Bijection(I, M) /\ turn \in Bijection(M, 1 .. C)
    BY <1>4, <1>5
  <2>3. dead \in SetToSeqs(Out)
    BY <1>6
  <2>4. /\ Handoff!Bijection(I, M) = Bijection(I, M)
        /\ Handoff!Bijection(M, 1 .. C) = Bijection(M, 1 .. C)
        /\ Handoff!SetToSeqs(Out) = SetToSeqs(Out)
    BY SameChoices, Zenon
  <2> HIDE DEF I, C, M, Out
  <2> QED BY <2>1, <2>2, <2>3, <2>4
<1>9. /\ outgoing = <<>> /\ generation < MaxReloads
      /\ next_id + C - 1 <= MaxInstances /\ D.next_hwm <= PoolCapacity
      /\ nodes' = G /\ alloc' = D /\ next_id' = next_id + C
      /\ outgoing' = <<Handoff!PlanFor(Handoff!Mirror(nodes, alloc.pool_map),
                                       Handoff!Mirror(G, D.pool_map), Ids \ M,
                                       {alloc.pool_map[id] : id \in Out})>>
      /\ UNCHANGED <<generation, plan_ring, Handoff!audioVars>>
  <2>1. /\ outgoing = <<>> /\ generation < MaxReloads
        /\ next_id + C - 1 <= MaxInstances /\ D.next_hwm <= PoolCapacity
        /\ nodes' = G /\ alloc' = D /\ next_id' = next_id + C
        /\ UNCHANGED <<generation, plan_ring>>
    BY <1>3, <1>4, <1>5, <1>7 DEF CompileWith
  <2>2. outgoing' = <<PlanFor(Mirror(nodes, alloc.pool_map), Mirror(G, D.pool_map), Ids \ M,
                              {alloc.pool_map[id] : id \in Out})>>
    BY <1>3, <1>5, <1>6, <1>7, Zenon DEF CompileWith
  <2> QED BY <2>1, <2>2, SamePlanner
<1>10. \E dead2 \in Handoff!SetToSeqs(Out), turn2 \in Handoff!Bijection(M, 1 .. C) :
         LET diff == Handoff!Diff(Ids, dead2, turn2)
         IN  /\ diff.next_hwm <= PoolCapacity
             /\ nodes' = G
             /\ alloc' = diff
             /\ outgoing' = <<Handoff!PlanFor(Handoff!Mirror(nodes, alloc.pool_map),
                                              Handoff!Mirror(G, diff.pool_map), Ids \ M,
                                              {alloc.pool_map[id] : id \in Out})>>
  BY <1>8, <1>9, Zenon
<1> QED BY <1>8, <1>9, <1>10, Zenon DEF Handoff!Compile
\* An adopted plan has the same effect.
LEMMA SameAdopt ==
  ASSUME NEW p, NEW next
  PROVE  Handoff!Apply(p, next) = Apply(p, next)
BY Zenon DEF Apply, Handoff!Apply, Update, Handoff!Update, Install, Handoff!Install,
             Tombstone, Handoff!Tombstone, Restrict, Handoff!Restrict

\* A failed compilation here is one there.
LEMMA SameFailure ==
  ASSUME CompileFails, UNCHANGED Handoff!audioVars
  PROVE  Handoff!CompileFails
<1>0. PICK patch \in Patches :
        \E spent \in 1 .. Cardinality(Installed(patch)) :
          /\ outgoing = <<>>
          /\ next_id + spent - 1 <= MaxInstances
          /\ next_id' = next_id + spent
          /\ UNCHANGED <<nodes, alloc, ringVars, audioVars>>
  BY Zenon DEF CompileFails
<1>1. PICK spent \in 1 .. Cardinality(Installed(patch)) :
        /\ outgoing = <<>>
        /\ next_id + spent - 1 <= MaxInstances
        /\ next_id' = next_id + spent
        /\ UNCHANGED <<nodes, alloc, ringVars, audioVars>>
  BY <1>0
<1>2. /\ patch \in Handoff!Patches
      /\ spent \in 1 .. Handoff!Cardinality(Handoff!Installed(patch))
  BY SamePlanner, SameCardinality
<1>3. UNCHANGED <<nodes, alloc, Handoff!ringVars, Handoff!audioVars>>
  BY <1>1 DEF ringVars, Handoff!ringVars
<1> QED BY <1>1, <1>2, <1>3, Zenon DEF Handoff!CompileFails

-----------------------------------------------------------------------------
(* The refinement, step by step.                                            *)

\* A step of the control thread is one of PlanHandoff.
LEMMA ControlRefines ==
  ASSUME AdoptionInv, ReliableInv, ~BestEffort, Build \/ PushOk \/ PushDropped
  PROVE  ReliableInv' /\ Handoff!Next
<1>1. /\ UNCHANGED <<pool, active, adopted, lost, pc, plan, todo>>
      /\ (Compile \/ CompileFails \/ Push)
  BY DEF Build, PushOk, PushDropped, Compile, CompileFails, Push, audioVars, adoptionVars
<1>2. UNCHANGED <<TargetPool, TargetActive, TargetStamp>>
  BY <1>1 DEF TargetPool, TargetActive, TargetStamp, Adopting, current
<1>3. Chained(TargetPool, TargetActive, TargetStamp)'
  <2>1. Compile \/ Push \/ UNCHANGED <<nodes, alloc, generation, outgoing, plan_ring>>
    BY <1>1 DEF CompileFails, ringVars
  <2> QED BY <1>2, <2>1, SeenChain DEF ReliableInv
<1>4. ReliableInv'
  <2>1. Ahead' /\ lost' = FALSE
    BY <1>1 DEF ReliableInv, Ahead, current
  <2> QED BY <1>3, <2>1 DEF ReliableInv
<1>5. UNCHANGED Handoff!audioVars
  BY <1>2 DEF Handoff!audioVars, TargetPool, TargetActive, TargetStamp
<1>6. CASE Compile
  BY <1>4, <1>5, <1>6, SameCompile DEF Handoff!Next
<1>7. CASE CompileFails
  BY <1>4, <1>5, <1>7, SameFailure DEF Handoff!Next
<1>8. CASE Push
  <2>1. Handoff!Push
    BY <1>5, <1>8 DEF Push, Handoff!Push, plannerVars, Handoff!plannerVars
  <2> QED BY <1>4, <2>1 DEF Handoff!Next
<1> QED BY <1>1, <1>6, <1>7, <1>8

\* The step that takes a plan off the ring is PlanHandoff's adoption.
LEMMA PopRefines ==
  ASSUME AdoptionInv, ReliableInv, Pop
  PROVE  ReliableInv' /\ Handoff!Next
<1> PICK p, a, k, next : p = pool /\ a = active /\ k = adopted /\ next = Head(plan_ring)
  OBVIOUS
<1>1. /\ pc = "idle" /\ plan_ring # <<>>
      /\ plan' = <<next>> /\ plan_ring' = Tail(plan_ring) /\ todo' = next.tombstones
      /\ pc' = "tombstone" /\ UNCHANGED <<pool, adopted, lost>>
      /\ UNCHANGED <<nodes, alloc, next_id, generation, outgoing>>
  BY DEF Pop, controlVars, plannerVars
<1>2. PlannerInv /\ ATypeOK /\ plan_ring \in Seq(Plans) /\ k \in Nat
  BY BoundsAssumption DEF AdoptionInv, PlannerInv, TypeOK
<1>3. next \in Plans
  <2>1. Len(plan_ring) \in Nat \ {0}
    BY <1>1, <1>2, EmptySeq
  <2> QED BY <1>2, <2>1, HeadTailProperties
<1>4. ~Adopting /\ TargetPool = p /\ TargetActive = a /\ TargetStamp = k
  BY <1>1, <1>2 DEF ATypeOK, Adopting, TargetPool, TargetActive, TargetStamp
<1>5. /\ Good(p, next)
      /\ Chained(next.target, next.active_indices, next.generation)'
  BY <1>1, <1>2, <1>4, TakeChain DEF ReliableInv
<1>6. current' = next /\ Adopting'
  BY <1>1 DEF current, Adopting
<1>7. /\ TargetPool' = next.target /\ TargetActive' = next.active_indices
      /\ TargetStamp' = next.generation
  BY <1>6 DEF TargetPool, TargetActive, TargetStamp
<1>8. Ahead'
  <2>1. [next EXCEPT !.tombstones = next.tombstones] = next
    BY <1>3 DEF Plans
  <2>2. Good(pool', [current' EXCEPT !.tombstones = todo'])
    BY <1>1, <1>5, <1>6, <2>1
  <2> QED BY <1>1, <2>2 DEF Ahead
<1>9. ReliableInv'
  BY <1>1, <1>5, <1>7, <1>8 DEF ReliableInv
<1>10. Handoff!Adopt
  <2>1. TargetPool' = Handoff!Apply(TargetPool, next)
    BY <1>4, <1>5, <1>7, SameAdopt DEF Good
  <2>2. UNCHANGED <<Handoff!plannerVars, generation, outgoing>>
    BY <1>1 DEF Handoff!plannerVars
  <2> QED BY <1>1, <1>7, <2>1, <2>2 DEF Handoff!Adopt, TargetPool, TargetActive, TargetStamp
<1> QED BY <1>9, <1>10 DEF Handoff!Next

\* A step within an adoption that keeps the rest of the plan good is invisible to
\* PlanHandoff.
LEMMA InnerStep ==
  ASSUME AdoptionInv, ReliableInv,
         UNCHANGED <<nodes, alloc, next_id, generation, outgoing, plan_ring, plan, lost>>,
         pc # "idle", Ahead'
  PROVE  ReliableInv' /\ UNCHANGED Seen
<1>1. Adopting /\ Adopting' /\ current' = current
  BY DEF AdoptionInv, ATypeOK, Adopting, current
<1>2. UNCHANGED <<TargetPool, TargetActive, TargetStamp>>
  BY <1>1 DEF TargetPool, TargetActive, TargetStamp
<1>3. Chained(TargetPool, TargetActive, TargetStamp)'
  BY <1>2, SeenChain DEF ReliableInv
<1> QED BY <1>2, <1>3 DEF ReliableInv, Seen

\* The steps that work through the slots of a plan.
LEMMA SlotsRefine ==
  ASSUME AdoptionInv, ReliableInv, TombstoneSlot \/ InstallModules \/ UpdateModule
  PROVE  ReliableInv' /\ UNCHANGED Seen
<1>1. /\ UNCHANGED <<nodes, alloc, next_id, generation, outgoing, plan_ring, plan, lost>>
      /\ pc # "idle"
  BY DEF TombstoneSlot, InstallModules, UpdateModule, controlVars, plannerVars
<1>2. /\ pool \in PartialMaps(Slots, Modules) /\ current \in Plans /\ current' = current
      /\ Ahead
  BY <1>1, CurrentPlan DEF AdoptionInv, PlannerInv, TypeOK, ReliableInv, current
<1>3. CASE TombstoneSlot
  <2>1. PICK s \in todo : todo' = todo \ {s} /\ pool' = Tombstone(pool, {s})
    BY <1>3 DEF TombstoneSlot, Remaining
  <2>2. pc = "tombstone" /\ pc' = "tombstone"
    BY <1>3 DEF TombstoneSlot
  <2>3. Good(pool, [current EXCEPT !.tombstones = todo])
    BY <1>2, <2>2 DEF Ahead
  <2>4. Good(pool', [current EXCEPT !.tombstones = todo'])
    BY <1>2, <2>1, <2>3, TombstoneAhead
  <2>5. Ahead'
    BY <1>2, <2>2, <2>4 DEF Ahead
  <2> QED BY <1>1, <2>5, InnerStep
<1>4. CASE InstallModules
  <2>1. /\ pc = "tombstone" /\ pc' = "update" /\ todo = {} /\ todo' = DOMAIN current.updates
        /\ pool' = Install(pool, current.new_modules)
    BY <1>4 DEF InstallModules
  <2>2. Good(pool, [current EXCEPT !.tombstones = {}])
    BY <1>2, <2>1 DEF Ahead
  <2>3. /\ Update(pool', Restrict(current.updates, todo')) = current.target
        /\ todo' \subseteq DOMAIN current.updates /\ todo' \subseteq DOMAIN pool'
        /\ current.active_indices = DOMAIN pool'
    BY <1>2, <2>1, <2>2, InstallAhead
  <2>4. Ahead'
    BY <1>2, <2>1, <2>3 DEF Ahead
  <2> QED BY <1>1, <2>4, InnerStep
<1>5. CASE UpdateModule
  <2>1. PICK s \in todo :
          todo' = todo \ {s} /\ pool' = Update(pool, Restrict(current.updates, {s}))
    BY <1>5 DEF UpdateModule, Remaining
  <2>2. pc = "update" /\ pc' = "update"
    BY <1>5 DEF UpdateModule
  <2>3. /\ Update(pool, Restrict(current.updates, todo)) = current.target
        /\ todo \subseteq DOMAIN current.updates /\ todo \subseteq DOMAIN pool
        /\ current.active_indices = DOMAIN pool
    BY <1>2, <2>2 DEF Ahead
  <2>4. PICK one, rest : one = {s} /\ rest = todo \ {s}
    OBVIOUS
  <2>5. Update(Update(pool, Restrict(current.updates, one)), Restrict(current.updates, rest))
          = Update(pool, Restrict(current.updates, todo))
    <3>1. one \cap rest = {} /\ todo = one \cup rest
      BY <2>4
    <3> QED BY <1>2, <2>3, <3>1, UpdateAhead
  <2>6. /\ Update(pool', Restrict(current.updates, todo')) = current.target
        /\ DOMAIN pool' = DOMAIN pool
    <3>1. pool' = Update(pool, Restrict(current.updates, one)) /\ todo' = rest
      BY <2>1, <2>4
    <3>2. DOMAIN pool' = DOMAIN pool
      BY <3>1 DEF Update
    <3> QED BY <2>3, <2>5, <3>1, <3>2
  <2>7. Ahead'
    BY <1>2, <2>1, <2>2, <2>3, <2>6 DEF Ahead
  <2> QED BY <1>1, <2>7, InnerStep
<1> QED BY <1>3, <1>4, <1>5

\* The rebuild and what follows it.
LEMMA FinishRefines ==
  ASSUME AdoptionInv, ReliableInv,
         HandOff \/ Rebuild \/ NoHostControl \/ HostControl \/ MonitorMetadata
  PROVE  ReliableInv' /\ UNCHANGED Seen
<1>1. /\ UNCHANGED <<nodes, alloc, next_id, generation, outgoing, plan_ring, plan, lost, pool>>
      /\ UNCHANGED todo
  BY DEF HandOff, Rebuild, NoHostControl, HostControl, MonitorMetadata, controlVars, plannerVars,
         vars
<1>2. pc # "idle" /\ Ahead /\ current' = current
  <2>1. outbox \in Nat /\ SwapBudget
    BY BudgetTypes DEF AdoptionInv
  <2>2. pc # "idle"
    BY <2>1 DEF SwapBudget, HandOff, Rebuild, NoHostControl, HostControl, MonitorMetadata
  <2> QED BY <1>1, <2>2 DEF ReliableInv, current
<1>3. CASE Rebuild
  <2>1. /\ pc = "update" /\ todo = {} /\ pc' = "host_control"
        /\ active' = current.active_indices /\ adopted' = current.generation
    BY <1>3 DEF Rebuild
  <2>2. Update(pool, Restrict(current.updates, {})) = current.target
    BY <1>2, <2>1 DEF Ahead
  <2>3. pool \in PartialMaps(Slots, Modules)
    BY DEF AdoptionInv, PlannerInv, TypeOK
  <2>4. pool = current.target
    <3>1. pool \in [DOMAIN pool -> Modules]
      BY <2>3, PartialMapElim
    <3>2. DOMAIN Restrict(current.updates, {}) = {}
      BY DEF Restrict
    <3>3. Update(pool, Restrict(current.updates, {})) = pool
      BY <3>1, <3>2 DEF Update
    <3> QED BY <2>2, <3>3
  <2>5. Ahead'
    BY <1>1, <1>2, <2>1, <2>4 DEF Ahead
  <2> QED BY <1>1, <1>2, <2>5, InnerStep
<1>4. CASE HandOff \/ NoHostControl \/ HostControl \/ MonitorMetadata
  <2>1. /\ UNCHANGED <<active, adopted>>
        /\ \/ UNCHANGED pc
           \/ pc = "host_control" /\ pc' = "monitor"
           \/ pc = "monitor" /\ pc' = "return"
    BY <1>4 DEF HandOff, NoHostControl, HostControl, MonitorMetadata, vars
  <2>2. Ahead'
    BY <1>1, <1>2, <2>1 DEF Ahead
  <2> QED BY <1>1, <1>2, <2>2, InnerStep
<1> QED BY <1>3, <1>4

\* The end of an adoption.
LEMMA ReturnRefines ==
  ASSUME AdoptionInv, ReliableInv, Return
  PROVE  ReliableInv' /\ UNCHANGED Seen
<1>1. /\ pc = "return" /\ pc' = "idle" /\ plan' = <<>> /\ lost' = lost
      /\ UNCHANGED <<nodes, alloc, next_id, generation, outgoing, plan_ring, pool, active, adopted>>
  BY DEF Return, vars
<1>2. Adopting /\ ~Adopting' /\ Ahead
  BY <1>1 DEF AdoptionInv, ATypeOK, Adopting, ReliableInv
<1>3. pool = current.target /\ active = current.active_indices /\ adopted = current.generation
  BY <1>1, <1>2 DEF Ahead
<1>4. UNCHANGED <<TargetPool, TargetActive, TargetStamp>>
  BY <1>1, <1>2, <1>3 DEF TargetPool, TargetActive, TargetStamp
<1>5. Chained(TargetPool, TargetActive, TargetStamp)'
  BY <1>1, <1>4, SeenChain DEF ReliableInv
<1>6. Ahead'
  BY <1>1 DEF Ahead
<1> QED BY <1>1, <1>4, <1>5, <1>6 DEF ReliableInv, Seen

\* Nothing panics: no module does, and what is left of a plan fits.
LEMMA NothingPanics ==
  ASSUME AdoptionInv, ReliableInv, MaxPanics = 0
  PROVE  ~ModulePanics /\ ~AdoptionPanics /\ ~TickPanics
<1>1. panics = 0 /\ ~lost /\ Ahead
  BY DEF AdoptionInv, ATypeOK, ReliableInv
<1>2. ~ModulePanics /\ ~TickPanics
  BY <1>1 DEF ModulePanics, TickPanics
<1>3. ~AdoptionPanics
  BY <1>1 DEF AdoptionPanics, InBounds, Ahead
<1> QED BY <1>2, <1>3

\* The cleanup thread and shutdown leave the reload alone.
LEMMA OtherRefines ==
  ASSUME AdoptionInv, ReliableInv,
         CleanupThread \/ StopStream \/ DropRuntime \/ JoinReturns \/ UNCHANGED allVars
  PROVE  ReliableInv' /\ UNCHANGED Seen
<1>1. /\ UNCHANGED <<nodes, alloc, next_id, generation, outgoing, plan_ring, pool, active, adopted>>
      /\ UNCHANGED <<lost, pc, plan, todo>>
  BY DEF CleanupThread, CleanupPop, CleanupEmpty, CleanupAgain, CleanupExit,
         StopStream, DropRuntime, JoinReturns, allVars, vars, adoptionVars
<1>2. Ahead' /\ UNCHANGED <<TargetPool, TargetActive, TargetStamp>>
  BY <1>1 DEF ReliableInv, Ahead, TargetPool, TargetActive, TargetStamp, Adopting, current
<1>3. Chained(TargetPool, TargetActive, TargetStamp)'
  BY <1>1, <1>2, SeenChain DEF ReliableInv
<1> QED BY <1>1, <1>2, <1>3 DEF ReliableInv, Seen

\* Nothing is adopted at first.
LEMMA ReliableInit ==
  ASSUME AInit
  PROVE  ReliableInv /\ Handoff!Init
<1>1. Init /\ plan = <<>> /\ pc = "idle" /\ ~lost
  BY DEF AInit
<1>2. ~Adopting
  BY <1>1 DEF Adopting
<1>3. Chained(TargetPool, TargetActive, TargetStamp)
  BY <1>1, <1>2, InitChain DEF ChainInv, TargetPool, TargetActive, TargetStamp
<1>4. Ahead
  BY <1>1 DEF Ahead
<1>5. Handoff!Init
  BY <1>1, <1>2 DEF Init, Handoff!Init, EmptyMap, Handoff!EmptyMap
<1> QED BY <1>1, <1>3, <1>4, <1>5 DEF ReliableInv

\* Every step of an adoption is a step of PlanHandoff or invisible to it.
LEMMA ReliableStep ==
  ASSUME AdoptionInv, ReliableInv, ~BestEffort, MaxPanics = 0, [ANext]_allVars
  PROVE  ReliableInv' /\ [Handoff!Next]_(Handoff!vars)
<1>1. \/ Build \/ PushOk \/ PushDropped
      \/ Pop
      \/ TombstoneSlot \/ InstallModules \/ UpdateModule
      \/ HandOff \/ Rebuild \/ NoHostControl \/ HostControl \/ MonitorMetadata
      \/ Return
      \/ CleanupThread \/ StopStream \/ DropRuntime \/ JoinReturns \/ UNCHANGED allVars
  BY NothingPanics DEF ANext, Adoption
<1>2. UNCHANGED Seen => UNCHANGED Handoff!vars
  BY DEF Seen, Handoff!vars, TargetPool, TargetActive, TargetStamp
<1>3. CASE Build \/ PushOk \/ PushDropped
  BY <1>3, ControlRefines
<1>4. CASE Pop
  BY <1>4, PopRefines
<1>5. CASE TombstoneSlot \/ InstallModules \/ UpdateModule
  BY <1>2, <1>5, SlotsRefine
<1>6. CASE HandOff \/ Rebuild \/ NoHostControl \/ HostControl \/ MonitorMetadata
  BY <1>2, <1>6, FinishRefines
<1>7. CASE Return
  BY <1>2, <1>7, ReturnRefines
<1>8. CASE CleanupThread \/ StopStream \/ DropRuntime \/ JoinReturns \/ UNCHANGED allVars
  BY <1>2, <1>8, OtherRefines
<1> QED BY <1>1, <1>3, <1>4, <1>5, <1>6, <1>7, <1>8

\* Where the host retries its pushes and no module panics, adoption step by step
\* is adoption in one step, the whole plan taking effect when it is popped
\* (receive_plan, adopt_plan_with_meta).
THEOREM AdoptionImplementsHandoff ==
  ASSUME ~BestEffort, MaxPanics = 0
  PROVE  ASpec => ImplementsHandoff
<1>1. AInit => ReliableInv /\ Handoff!Init
  BY ReliableInit
<1>2. AdoptionInv /\ ReliableInv /\ [ANext]_allVars
        => ReliableInv' /\ [Handoff!Next]_(Handoff!vars)
  BY ReliableStep
<1> QED BY <1>1, <1>2, AdoptionInvariant, PTL DEF ASpec, ImplementsHandoff, Handoff!Spec

==============================================================================
