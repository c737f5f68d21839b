--------------------------- MODULE BufferAllocProofs ---------------------------
(***************************************************************************)
(* No slot of the cycle region is leaked or shared, and no sound leaks     *)
(* through one: BufferAlloc for any number of ports, slots and builds.     *)
(*                                                                         *)
(* Three facts carry the proof.  DraftInv is about a build under way: the  *)
(* old layout, the new one and the freelist divide what is below the       *)
(* high-water mark, and the zero list names what changed hands.  PlanOver  *)
(* is what a finished build hands on: a layout that is right over the one  *)
(* before it.  ChainInv links the layouts, from the one that runs over the *)
(* one in the ring to the planner's own, and PoolInv says what the slots   *)
(* of the running layout hold.                                             *)
(***************************************************************************)
EXTENDS BufferAlloc, TLAPS, FiniteSetTheorems, SequenceTheorems

PortMaps == PartialMaps(Ports, Slots)
DraftType ==
  [output_buf : PortMaps, freelist : Seq(CycleIndices), hwm : 0 .. CycleCapacity,
   scratch_hwm : ReservedSlots .. ScratchCap, freed : SUBSET CycleIndices,
   to_zero : SUBSET Slots]

\* Old slots the build has not given back, and the ports it has placed.
Held == CycleUsed(output_buf) \ draft.freed
Placed == DOMAIN draft.output_buf

\* A placed port is where its readers want it; a delayed one kept its slot,
\* which is not freed, or got one that is zeroed.
PlacedRight(p) ==
  /\ p \in DOMAIN patch
  /\ patch[p] =>
       /\ draft.output_buf[p].region = "cycle"
       /\ HadCycleSlot(p) => /\ draft.output_buf[p] = output_buf[p]
                             /\ output_buf[p].index \notin draft.freed
       /\ ~HadCycleSlot(p) => draft.output_buf[p] \in draft.to_zero
  /\ ~patch[p] => /\ draft.output_buf[p].region = "scratch"
                  /\ draft.output_buf[p].index < draft.scratch_hwm

DraftPlaced ==
  /\ IsInjective(todo)
  /\ \A p \in Range(todo) : p \in DOMAIN patch /\ p \notin Placed
  /\ \A p \in Placed : PlacedRight(p)

\* Below the high-water mark a slot is free, used by the new layout or still
\* held by the old one, and by both only for the same port.
DraftAccounts ==
  /\ IsInjective(draft.output_buf) /\ IsInjective(draft.freelist)
  /\ CycleUsed(draft.output_buf) \cap Range(draft.freelist) = {}
  /\ Held \cap Range(draft.freelist) = {}
  /\ CycleUsed(draft.output_buf) \cup Held \cup Range(draft.freelist) = 0 .. draft.hwm - 1
  /\ \A p \in CyclePorts(draft.output_buf) :
       draft.output_buf[p].index \in Held =>
         p \in DOMAIN output_buf /\ output_buf[p] = draft.output_buf[p]

\* What is given back is zeroed, what is held is not.
DraftZeroes ==
  /\ \A i \in draft.freed : Cycle(i) \in draft.to_zero
  /\ \A i \in Held : Cycle(i) \notin draft.to_zero

\* How far the build is: no slot of a port the sweep has not come to is freed;
\* an old port that was reconciled is gone for good or its slot is in use.
DraftProgress ==
  /\ stage = "sweep" =>
       \A p \in CyclePorts(output_buf) \ Placed : output_buf[p].index \notin draft.freed
  /\ stage = "reconcile" => gone \subseteq DOMAIN output_buf
  /\ stage = "reconcile" =>
       \A p \in DOMAIN output_buf \ gone :
         \/ output_buf[p] \in Range(draft.output_buf)
         \/ /\ output_buf[p] \in draft.to_zero
            /\ output_buf[p].region = "cycle" => output_buf[p].index \in draft.freed

DraftInv ==
  stage \in {"sweep", "reconcile"} =>
    DraftPlaced /\ DraftAccounts /\ DraftZeroes /\ DraftProgress

\* A layout and its zero list, over the layout before: a cycle slot is carried
\* over, untouched, or zeroed; a cycle slot given up is zeroed.
PlanOver(before, ports, to_zero) ==
  /\ IsInjective(ports)
  /\ \A p \in CyclePorts(ports) :
       \/ p \in CyclePorts(before) /\ ports[p] = before[p] /\ ports[p] \notin to_zero
       \/ p \notin CyclePorts(before) /\ ports[p] \in to_zero
  /\ \A p \in CyclePorts(before) : before[p] \in Range(ports) \/ before[p] \in to_zero

LastPushed == IF plan_ring = <<>> THEN running ELSE Head(plan_ring).ports

ChainInv ==
  /\ IsInjective(running)
  /\ plan_ring # <<>> => PlanOver(running, Head(plan_ring).ports, Head(plan_ring).to_zero)
  /\ stage # "push" => output_buf = LastPushed
  /\ stage = "push" => /\ output_buf = draft.output_buf
                       /\ PlanOver(LastPushed, draft.output_buf, draft.to_zero)

PoolInv ==
  \A i \in CycleIndices, h \in {0, 1} :
    \/ cycle_pool[i][h] = Silence
    \/ \E p \in DOMAIN running : running[p] = Cycle(i) /\ cycle_pool[i][h] = p

AllocInv == TypeOK /\ CyclePartitioned /\ DraftInv /\ ChainInv /\ PoolInv

-----------------------------------------------------------------------------
(* Slots, port maps and sequences.                                          *)

LEMMA SlotFacts ==
  /\ \A s \in Slots :
       \/ s.region = "cycle" /\ s.index \in CycleIndices /\ s = Cycle(s.index)
       \/ s.region = "scratch" /\ s.index \in ScratchIndices /\ s = Scratch(s.index)
  /\ \A i \in CycleIndices : Cycle(i) \in Slots
  /\ \A i \in ScratchIndices : Scratch(i) \in Slots
  /\ \A i : /\ Cycle(i).region = "cycle" /\ Cycle(i).index = i
            /\ Scratch(i).region = "scratch" /\ Scratch(i).index = i
  /\ \A i, j : Cycle(i) # Scratch(j)
<1>1. \A s \in [region : {"cycle"}, index : CycleIndices] :
        s.region = "cycle" /\ s.index \in CycleIndices /\ s = Cycle(s.index)
  BY DEF Cycle
<1>2. \A s \in [region : {"scratch"}, index : ScratchIndices] :
        s.region = "scratch" /\ s.index \in ScratchIndices /\ s = Scratch(s.index)
  BY DEF Scratch
<1>3. \A i : /\ Cycle(i).region = "cycle" /\ Cycle(i).index = i
             /\ Scratch(i).region = "scratch" /\ Scratch(i).index = i
  BY DEF Cycle, Scratch
<1>4. /\ \A i \in CycleIndices : Cycle(i) \in [region : {"cycle"}, index : CycleIndices]
      /\ \A i \in ScratchIndices : Scratch(i) \in [region : {"scratch"}, index : ScratchIndices]
  BY DEF Cycle, Scratch
<1>5. \A i, j : Cycle(i) # Scratch(j)
  <2>1. "cycle" # "scratch"
    OBVIOUS
  <2> QED BY <1>3, <2>1
<1> QED BY <1>1, <1>2, <1>3, <1>4, <1>5 DEF Slots

LEMMA MapFacts ==
  ASSUME NEW f \in PortMaps
  PROVE  /\ DOMAIN f \subseteq Ports
         /\ \A p \in DOMAIN f : f[p] \in Slots
         /\ CyclePorts(f) \subseteq DOMAIN f
         /\ \A p \in DOMAIN f : p \in CyclePorts(f) <=> f[p].region = "cycle"
         /\ \A p \in CyclePorts(f) : f[p].index \in CycleIndices /\ f[p] = Cycle(f[p].index)
                                     /\ f[p].index \in CycleUsed(f)
         /\ \A i \in CycleUsed(f) : \E p \in CyclePorts(f) : f[p].index = i
         /\ CycleUsed(f) \subseteq CycleIndices
<1>1. DOMAIN f \subseteq Ports /\ \A p \in DOMAIN f : f[p] \in Slots
  BY DEF PortMaps, PartialMaps
<1>2. /\ CyclePorts(f) \subseteq DOMAIN f
      /\ \A p \in DOMAIN f : p \in CyclePorts(f) <=> f[p].region = "cycle"
  BY DEF CyclePorts
<1>3. \A p \in CyclePorts(f) : f[p].index \in CycleIndices /\ f[p] = Cycle(f[p].index)
  BY <1>1, <1>2, SlotFacts
<1> QED BY <1>1, <1>2, <1>3 DEF CycleUsed

\* The map g is f with p mapped to s, which f did not map.
Assigned(g, f, p, s) ==
  /\ g \in PortMaps /\ DOMAIN g = DOMAIN f \cup {p}
  /\ g[p] = s /\ \A q \in DOMAIN f : g[q] = f[q]
  /\ IsInjective(f) /\ s \notin Range(f) => IsInjective(g)
  /\ s.region = "cycle" => /\ CyclePorts(g) = CyclePorts(f) \cup {p}
                           /\ CycleUsed(g) = CycleUsed(f) \cup {s.index}
  /\ s.region # "cycle" => /\ CyclePorts(g) = CyclePorts(f)
                           /\ CycleUsed(g) = CycleUsed(f)

LEMMA AssignFacts ==
  ASSUME NEW f \in PortMaps, NEW p \in Ports, p \notin DOMAIN f, NEW s \in Slots
  PROVE  Assigned(Assign(f, p, s), f, p, s)
<1> DEFINE g == Assign(f, p, s)
<1>1. /\ DOMAIN g = DOMAIN f \cup {p} /\ g[p] = s
      /\ \A q \in DOMAIN f : g[q] = f[q]
  BY DEF Assign
<1>2. g \in PortMaps
  <2>1. g \in [DOMAIN f \cup {p} -> Slots]
    BY MapFacts DEF Assign
  <2>2. DOMAIN f \cup {p} \in SUBSET Ports
    BY MapFacts
  <2> HIDE DEF g
  <2> QED BY <2>1, <2>2 DEF PortMaps, PartialMaps
<1> HIDE DEF g
<1>3. IsInjective(f) /\ s \notin Range(f) => IsInjective(g)
  BY <1>1 DEF IsInjective, Range
<1>4. \A q \in CyclePorts(f) : g[q] = f[q]
  BY <1>1 DEF CyclePorts
<1>5. ASSUME s.region = "cycle"
      PROVE  CyclePorts(g) = CyclePorts(f) \cup {p} /\ CycleUsed(g) = CycleUsed(f) \cup {s.index}
  <2>1. CyclePorts(g) = CyclePorts(f) \cup {p}
    BY <1>1, <1>5 DEF CyclePorts
  <2> QED BY <1>1, <1>4, <2>1 DEF CycleUsed
<1>6. ASSUME s.region # "cycle"
      PROVE  CyclePorts(g) = CyclePorts(f) /\ CycleUsed(g) = CycleUsed(f)
  <2>1. CyclePorts(g) = CyclePorts(f)
    BY <1>1, <1>6 DEF CyclePorts
  <2> QED BY <1>4, <2>1 DEF CycleUsed
<1>7. Assigned(g, f, p, s)
  BY <1>1, <1>2, <1>3, <1>5, <1>6 DEF Assigned
<1> QED BY <1>7 DEF g

LEMMA AppendRange ==
  ASSUME NEW S, NEW s \in Seq(S), NEW x \in S
  PROVE  /\ Append(s, x) \in Seq(S)
         /\ Range(Append(s, x)) = Range(s) \cup {x}
         /\ IsInjective(s) /\ x \notin Range(s) => IsInjective(Append(s, x))
<1>1. /\ Append(s, x) \in Seq(S) /\ Len(s) \in Nat /\ DOMAIN s = 1 .. Len(s)
      /\ DOMAIN Append(s, x) = 1 .. Len(s) + 1
      /\ \A i \in 1 .. Len(s) : Append(s, x)[i] = s[i]
      /\ Append(s, x)[Len(s) + 1] = x
  OBVIOUS
<1>2. Range(Append(s, x)) = Range(s) \cup {x}
  BY <1>1 DEF Range
<1>3. IsInjective(s) /\ x \notin Range(s) => IsInjective(Append(s, x))
  <2> DEFINE t == Append(s, x)
             n == Len(s)
  <2>1. n \in Nat /\ DOMAIN s = 1 .. n /\ DOMAIN t = 1 .. n + 1
        /\ (\A i \in 1 .. n : t[i] = s[i]) /\ t[n + 1] = x
    BY <1>1
  <2> HIDE DEF t, n
  <2>2. \A i \in DOMAIN t : (i \in DOMAIN s /\ t[i] = s[i]) \/ (i = n + 1 /\ t[i] = x)
    BY <2>1
  <2>3. IsInjective(s) /\ x \notin Range(s) => IsInjective(t)
    BY <2>2 DEF IsInjective, Range
  <2> QED BY <2>3 DEF t
<1> QED BY <1>1, <1>2, <1>3

LEMMA FrontRange ==
  ASSUME NEW S, NEW s \in Seq(S), s # <<>>, IsInjective(s)
  PROVE  /\ Front(s) \in Seq(S) /\ Last(s) \in S /\ Last(s) \in Range(s)
         /\ Range(Front(s)) = Range(s) \ {Last(s)} /\ IsInjective(Front(s))
<1> DEFINE n == Len(s)
           t == Front(s)
<1>1. n \in Nat \ {0} /\ DOMAIN s = 1 .. n /\ \A i \in 1 .. n : s[i] \in S
  OBVIOUS
<1>2. t \in Seq(S) /\ Len(t) = n - 1 /\ \A i \in 1 .. n - 1 : t[i] = s[i]
  BY <1>1, SubSeqProperties, SMT DEF Front
<1>3. DOMAIN t = 1 .. n - 1
  <2> HIDE DEF n, t
  <2>1. DOMAIN t = 1 .. Len(t)
    BY <1>2
  <2> QED BY <1>2, <2>1
<1>4. Last(s) = s[n]
  BY DEF Last
<1> HIDE DEF n, t
<1>5. \A i \in DOMAIN s : (i \in DOMAIN t /\ t[i] = s[i]) \/ i = n
  BY <1>1, <1>2, <1>3
<1>6. \A i \in DOMAIN t : i \in DOMAIN s /\ t[i] = s[i] /\ i # n
  BY <1>1, <1>2, <1>3
<1>7. n \in DOMAIN s
  BY <1>1
<1>8. IsInjective(t)
  BY <1>6 DEF IsInjective
<1>9. Range(t) = Range(s) \ {s[n]}
  BY <1>5, <1>6, <1>7 DEF IsInjective, Range
<1>10. s[n] \in S /\ s[n] \in Range(s)
  BY <1>1, <1>7 DEF Range
<1> QED BY <1>2, <1>4, <1>8, <1>9, <1>10 DEF t

LEMMA TailRange ==
  ASSUME NEW S, NEW s \in Seq(S), s # <<>>, IsInjective(s)
  PROVE  /\ Tail(s) \in Seq(S) /\ Head(s) \in S /\ Head(s) \in Range(s)
         /\ Range(Tail(s)) = Range(s) \ {Head(s)} /\ IsInjective(Tail(s))
<1> DEFINE n == Len(s)
           t == Tail(s)
<1>1. n \in Nat \ {0} /\ DOMAIN s = 1 .. n /\ (\A i \in 1 .. n : s[i] \in S)
      /\ Head(s) = s[1]
  OBVIOUS
<1>2. t \in Seq(S) /\ DOMAIN t = 1 .. n - 1 /\ \A i \in 1 .. n - 1 : t[i] = s[i + 1]
  <2>1. t \in Seq(S) /\ Len(t) = n - 1
    OBVIOUS
  <2>2. \A i \in 1 .. n - 1 : t[i] = s[i + 1]
    OBVIOUS
  <2>3. DOMAIN t = 1 .. Len(t)
    BY <2>1
  <2> QED BY <2>1, <2>2, <2>3
<1> HIDE DEF n, t
<1>3. \A i \in DOMAIN t : i + 1 \in DOMAIN s /\ t[i] = s[i + 1] /\ i + 1 # 1 /\ i \in Int
  <2> SUFFICES ASSUME NEW i \in 1 .. n - 1
               PROVE  i + 1 \in DOMAIN s /\ t[i] = s[i + 1] /\ i + 1 # 1 /\ i \in Int
    BY <1>2
  <2>1. i + 1 \in 1 .. n /\ i + 1 # 1 /\ i \in Int
    BY <1>1
  <2> QED BY <1>1, <1>2, <2>1
<1>4. \A i \in DOMAIN s : i = 1 \/ (i - 1 \in DOMAIN t /\ t[i - 1] = s[i])
  <2> SUFFICES ASSUME NEW i \in DOMAIN s, i # 1 PROVE i - 1 \in DOMAIN t /\ t[i - 1] = s[i]
    OBVIOUS
  <2>1. i \in Int /\ i - 1 \in 1 .. n - 1 /\ (i - 1) + 1 = i
    BY <1>1
  <2>2. t[i - 1] = s[(i - 1) + 1]
    BY <1>2, <2>1
  <2> QED BY <1>2, <2>1, <2>2
<1>5. 1 \in DOMAIN s
  BY <1>1
<1>6. IsInjective(t)
  <2> SUFFICES ASSUME NEW i \in DOMAIN t, NEW j \in DOMAIN t, t[i] = t[j] PROVE i = j
    BY DEF IsInjective
  <2>1. i + 1 = j + 1
    BY <1>3 DEF IsInjective
  <2> QED BY <1>3, <2>1
<1>7. Range(t) = Range(s) \ {s[1]}
  <2>1. \A x \in Range(t) : x \in Range(s) /\ x # s[1]
    BY <1>3, <1>5 DEF IsInjective, Range
  <2>2. \A x \in Range(s) : x # s[1] => x \in Range(t)
    BY <1>4 DEF Range
  <2>3. s[1] \notin Range(t)
    BY <2>1
  <2> QED BY <2>1, <2>2, <2>3
<1>8. s[1] \in S /\ s[1] \in Range(s)
  BY <1>1, <1>5 DEF Range
<1> QED BY <1>1, <1>2, <1>6, <1>7, <1>8 DEF t

-----------------------------------------------------------------------------
(* A build under way.                                                       *)

LEMMA BuildTypes ==
  ASSUME TypeOK
  PROVE  /\ output_buf \in PortMaps /\ draft.output_buf \in PortMaps
         /\ draft \in DraftType /\ draft.freelist \in Seq(CycleIndices)
         /\ draft.hwm \in 0 .. CycleCapacity
         /\ draft.scratch_hwm \in ReservedSlots .. ScratchCap
         /\ draft.freed \subseteq CycleIndices /\ draft.to_zero \subseteq Slots
         /\ todo \in Seq(Ports)
         /\ DOMAIN patch \subseteq Ports /\ \A p \in DOMAIN patch : patch[p] \in BOOLEAN
         /\ Placed \subseteq Ports
<1>1. /\ output_buf \in PortMaps /\ draft \in DraftType /\ todo \in Seq(Ports)
  BY DEF TypeOK, PortMaps, DraftType
<1>2. DOMAIN patch \subseteq Ports /\ \A p \in DOMAIN patch : patch[p] \in BOOLEAN
  BY DEF TypeOK, PartialMaps
<1>3. /\ draft.output_buf \in PortMaps /\ draft.freelist \in Seq(CycleIndices)
      /\ draft.hwm \in 0 .. CycleCapacity
      /\ draft.scratch_hwm \in ReservedSlots .. ScratchCap
      /\ draft.freed \subseteq CycleIndices /\ draft.to_zero \subseteq Slots
  BY <1>1 DEF DraftType
<1>4. Placed \subseteq Ports
  BY <1>3, MapFacts DEF Placed
<1> QED BY <1>1, <1>2, <1>3, <1>4

\* The port whose turn it is.
LEMMA NextPort ==
  ASSUME AllocInv, stage = "sweep", todo # <<>>, NEW p, p = Head(todo)
  PROVE  /\ p \in Ports /\ p \in DOMAIN patch /\ p \notin Placed
         /\ Tail(todo) \in Seq(Ports) /\ IsInjective(Tail(todo))
         /\ Range(Tail(todo)) = Range(todo) \ {p}
         /\ IsInjective(output_buf)
         /\ HadCycleSlot(p) =>
              /\ output_buf[p].index \in Held /\ output_buf[p].index \in CycleIndices
              /\ output_buf[p] = Cycle(output_buf[p].index) /\ output_buf[p] \in Slots
              /\ p \in DOMAIN output_buf
<1>0. /\ TypeOK /\ DraftPlaced /\ DraftProgress /\ IsInjective(output_buf)
  BY DEF AllocInv, DraftInv, CyclePartitioned
<1>1. todo \in Seq(Ports) /\ todo # <<>> /\ IsInjective(todo)
  BY <1>0, BuildTypes DEF DraftPlaced
<1>2. /\ Tail(todo) \in Seq(Ports) /\ p \in Ports /\ p \in Range(todo)
      /\ Range(Tail(todo)) = Range(todo) \ {p} /\ IsInjective(Tail(todo))
  BY <1>1, TailRange
<1>3. p \in DOMAIN patch /\ p \notin Placed
  BY <1>0, <1>2 DEF DraftPlaced
<1>4. ASSUME HadCycleSlot(p)
      PROVE  /\ output_buf[p].index \in Held /\ output_buf[p].index \in CycleIndices
             /\ output_buf[p] = Cycle(output_buf[p].index) /\ output_buf[p] \in Slots
             /\ p \in DOMAIN output_buf
  <2>1. p \in CyclePorts(output_buf) /\ output_buf \in PortMaps
    BY <1>0, <1>4, BuildTypes DEF HadCycleSlot
  <2>2. output_buf[p].index \notin draft.freed
    BY <1>0, <1>3, <2>1 DEF DraftProgress
  <2> QED BY <2>1, <2>2, MapFacts DEF Held
<1> QED BY <1>0, <1>2, <1>3, <1>4

\* Placing the next port leaves the ones placed before where they are.
LEMMA PlaceKeeps ==
  ASSUME AllocInv, stage = "sweep", todo # <<>>, NEW p, p = Head(todo), NEW s \in Slots,
         UNCHANGED <<output_buf, patch, stage>>, todo' = Tail(todo),
         draft'.output_buf = Assign(draft.output_buf, p, s),
         draft.to_zero \subseteq draft'.to_zero,
         draft'.scratch_hwm \in Nat, draft.scratch_hwm <= draft'.scratch_hwm,
         \A i \in draft'.freed \ draft.freed : HadCycleSlot(p) /\ i = output_buf[p].index,
         PlacedRight(p)'
  PROVE  DraftPlaced' /\ DraftProgress'
<1>0. /\ TypeOK /\ DraftPlaced /\ DraftProgress
  BY DEF AllocInv, DraftInv
<1>1. /\ p \in Ports /\ p \notin Placed
      /\ IsInjective(Tail(todo)) /\ Range(Tail(todo)) = Range(todo) \ {p}
      /\ IsInjective(output_buf)
  BY NextPort
<1>2. /\ draft.output_buf \in PortMaps /\ output_buf \in PortMaps
      /\ draft.scratch_hwm \in Int
  BY <1>0, BuildTypes, RegionAssumption
<1>3. Placed' = Placed \cup {p} /\ \A q \in Placed : draft'.output_buf[q] = draft.output_buf[q]
  <2>1. Assigned(draft'.output_buf, draft.output_buf, p, s)
    BY <1>1, <1>2, AssignFacts DEF Placed
  <2> QED BY <2>1 DEF Assigned, Placed
<1>4. \A q : HadCycleSlot(q)' <=> HadCycleSlot(q)
  BY DEF HadCycleSlot
<1>5. \A q \in CyclePorts(output_buf) :
        q # p /\ output_buf[q].index \notin draft.freed => output_buf[q].index \notin draft'.freed
  <2> SUFFICES ASSUME NEW q \in CyclePorts(output_buf), q # p,
                      output_buf[q].index \notin draft.freed,
                      output_buf[q].index \in draft'.freed
               PROVE  FALSE
    OBVIOUS
  <2>1. p \in CyclePorts(output_buf) /\ output_buf[q].index = output_buf[p].index
    BY DEF HadCycleSlot
  <2>2. output_buf[q] = output_buf[p] /\ q \in DOMAIN output_buf /\ p \in DOMAIN output_buf
    BY <1>2, <2>1, MapFacts
  <2> QED BY <1>1, <2>2 DEF IsInjective
<1>6. ASSUME NEW q \in Placed PROVE PlacedRight(q)'
  <2>1. PlacedRight(q) /\ q # p /\ draft'.output_buf[q] = draft.output_buf[q]
    BY <1>0, <1>1, <1>3 DEF DraftPlaced
  <2>2. q \in DOMAIN patch /\ patch[q] => PlacedRight(q)'
    BY <1>4, <1>5, <2>1 DEF PlacedRight, HadCycleSlot
  <2>3. q \in DOMAIN patch /\ ~patch[q] => PlacedRight(q)'
    <3>1. draft.output_buf[q] \in Slots
      BY <1>2, MapFacts DEF Placed
    <3>2. draft.output_buf[q].region = "scratch" => draft.output_buf[q].index \in Int
      BY <3>1, SlotFacts, RegionAssumption DEF ScratchIndices
    <3> QED BY <1>2, <2>1, <3>2 DEF PlacedRight
  <2> QED BY <2>1, <2>2, <2>3 DEF PlacedRight
<1>7. DraftPlaced'
  <2>1. \A q \in Range(Tail(todo)) : q \in DOMAIN patch /\ q \notin Placed'
    BY <1>0, <1>1, <1>3 DEF DraftPlaced
  <2> QED BY <1>1, <1>3, <1>6, <2>1 DEF DraftPlaced
<1>8. DraftProgress'
  BY <1>0, <1>3, <1>5 DEF DraftProgress
<1> QED BY <1>7, <1>8

\* A port that keeps its slot: the slot is held by both layouts.
LEMMA KeepPortKeeps ==
  ASSUME AllocInv, KeepPort, NEW p, p = Head(todo)
  PROVE  draft' \in DraftType /\ DraftInv'
<1>0. /\ TypeOK /\ DraftAccounts /\ DraftZeroes /\ stage = "sweep" /\ todo # <<>>
      /\ patch[p] /\ HadCycleSlot(p) /\ draft' = Keep(p) /\ todo' = Tail(todo)
      /\ UNCHANGED <<output_buf, patch, stage>>
  BY DEF AllocInv, DraftInv, KeepPort, Place, plannerVars
<1>1. /\ p \in Ports /\ p \in DOMAIN patch /\ p \notin Placed /\ IsInjective(output_buf)
      /\ output_buf[p].index \in Held /\ output_buf[p] = Cycle(output_buf[p].index)
      /\ output_buf[p] \in Slots /\ p \in DOMAIN output_buf
  BY <1>0, NextPort
<1> DEFINE s == output_buf[p]
           i == s.index
<1>2. /\ draft \in DraftType /\ draft.output_buf \in PortMaps
      /\ draft.scratch_hwm \in Nat
  BY <1>0, BuildTypes, RegionAssumption
<1>3. /\ draft'.output_buf = Assign(draft.output_buf, p, s)
      /\ draft'.freelist = draft.freelist /\ draft'.hwm = draft.hwm
      /\ draft'.scratch_hwm = draft.scratch_hwm /\ draft'.freed = draft.freed
      /\ draft'.to_zero = draft.to_zero
  BY <1>0, <1>2 DEF Keep, DraftType
<1>4. s.region = "cycle" /\ s = Cycle(i) /\ s \in Slots
  BY <1>1, SlotFacts
<1> HIDE DEF i, s
<1>5. /\ draft'.output_buf \in PortMaps
      /\ draft'.output_buf[p] = s /\ \A q \in Placed : draft'.output_buf[q] = draft.output_buf[q]
      /\ IsInjective(draft.output_buf) /\ s \notin Range(draft.output_buf)
           => IsInjective(draft'.output_buf)
      /\ CyclePorts(draft'.output_buf) = CyclePorts(draft.output_buf) \cup {p}
      /\ CycleUsed(draft'.output_buf) = CycleUsed(draft.output_buf) \cup {i}
  <2>1. Assigned(draft'.output_buf, draft.output_buf, p, s)
    BY <1>1, <1>2, <1>3, <1>4, AssignFacts DEF Placed
  <2> QED BY <1>4, <2>1 DEF Assigned, Placed, i
<1>6. draft' \in DraftType
  BY <1>0, <1>2, <1>3, <1>5 DEF Keep, DraftType
<1>7. Held' = Held /\ i \in Held /\ i \notin draft.freed
  BY <1>0, <1>1, <1>3 DEF Held, i, s
<1>8. s \notin Range(draft.output_buf)
  <2> SUFFICES ASSUME NEW q \in Placed, draft.output_buf[q] = s PROVE FALSE
    BY DEF Range, Placed
  <2>1. q \in CyclePorts(draft.output_buf) /\ draft.output_buf[q].index \in Held
    BY <1>4, <1>7 DEF CyclePorts, Placed, i
  <2>2. q \in DOMAIN output_buf /\ output_buf[q] = output_buf[p]
    BY <1>0, <2>1 DEF DraftAccounts, s
  <2> QED BY <1>1, <2>2 DEF IsInjective
<1>9. DraftAccounts'
  <2>1. IsInjective(draft'.output_buf) /\ IsInjective(draft'.freelist)
    BY <1>0, <1>3, <1>5, <1>8 DEF DraftAccounts
  <2>2. CycleUsed(draft'.output_buf) \cap Range(draft'.freelist) = {}
    BY <1>0, <1>3, <1>5, <1>7 DEF DraftAccounts
  <2>3. Held \cap Range(draft'.freelist) = {}
    BY <1>0, <1>3 DEF DraftAccounts
  <2>4. CycleUsed(draft'.output_buf) \cup Held \cup Range(draft'.freelist) = 0 .. draft'.hwm - 1
    BY <1>0, <1>3, <1>5, <1>7 DEF DraftAccounts
  <2>5. \A q \in CyclePorts(draft'.output_buf) :
          draft'.output_buf[q].index \in Held =>
            q \in DOMAIN output_buf /\ output_buf[q] = draft'.output_buf[q]
    BY <1>0, <1>1, <1>5 DEF DraftAccounts, s, CyclePorts, Placed
  <2> QED BY <1>0, <1>7, <2>1, <2>2, <2>3, <2>4, <2>5 DEF DraftAccounts
<1>10. DraftZeroes'
  BY <1>0, <1>3, <1>7 DEF DraftZeroes
<1>11. PlacedRight(p)'
  BY <1>0, <1>1, <1>3, <1>4, <1>5, <1>7 DEF PlacedRight, HadCycleSlot, s, i
<1>12. DraftPlaced' /\ DraftProgress'
  BY <1>0, <1>2, <1>3, <1>4, <1>11, PlaceKeeps
<1> QED BY <1>6, <1>9, <1>10, <1>12 DEF DraftInv

\* A port that takes over a slot of the freelist, which is zeroed.
LEMMA ReuseSlotKeeps ==
  ASSUME AllocInv, ReuseSlot, NEW p, p = Head(todo)
  PROVE  draft' \in DraftType /\ DraftInv'
<1>0. /\ TypeOK /\ DraftAccounts /\ DraftZeroes /\ stage = "sweep" /\ todo # <<>>
      /\ patch[p] /\ ~HadCycleSlot(p) /\ draft' = Reuse(p) /\ todo' = Tail(todo)
      /\ draft.freelist # <<>>
      /\ UNCHANGED <<output_buf, patch, stage>>
  BY DEF AllocInv, DraftInv, ReuseSlot, Place, plannerVars
<1>1. /\ p \in Ports /\ p \in DOMAIN patch /\ p \notin Placed
  BY <1>0, NextPort
<1>2. /\ draft \in DraftType /\ draft.output_buf \in PortMaps
      /\ draft.freelist \in Seq(CycleIndices) /\ draft.scratch_hwm \in Nat
  BY <1>0, BuildTypes, RegionAssumption
<1> DEFINE i == Last(draft.freelist)
           s == Cycle(i)
<1>3. /\ draft'.output_buf = Assign(draft.output_buf, p, s)
      /\ draft'.freelist = Front(draft.freelist) /\ draft'.hwm = draft.hwm
      /\ draft'.scratch_hwm = draft.scratch_hwm /\ draft'.freed = draft.freed
      /\ draft'.to_zero = draft.to_zero \cup {s}
  BY <1>0, <1>2 DEF Reuse, DraftType
<1>4. /\ Front(draft.freelist) \in Seq(CycleIndices) /\ i \in CycleIndices
      /\ i \in Range(draft.freelist) /\ IsInjective(Front(draft.freelist))
      /\ Range(Front(draft.freelist)) = Range(draft.freelist) \ {i}
  <2>1. IsInjective(draft.freelist)
    BY <1>0 DEF DraftAccounts
  <2> QED BY <1>0, <1>2, <2>1, FrontRange
<1> HIDE DEF i, s
<1>5. s.region = "cycle" /\ s.index = i /\ s \in Slots
  BY <1>4, SlotFacts DEF s
<1>6. Assigned(draft'.output_buf, draft.output_buf, p, s)
  BY <1>1, <1>2, <1>3, <1>5, AssignFacts DEF Placed
<1>7. draft' \in DraftType
  <2>1. draft'.output_buf \in PortMaps /\ draft'.to_zero \subseteq Slots
    BY <1>2, <1>3, <1>5, <1>6 DEF Assigned, DraftType
  <2> QED BY <1>0, <1>2, <1>3, <1>4, <2>1 DEF Reuse, DraftType
<1>8. Held' = Held /\ i \notin Held /\ i \notin CycleUsed(draft.output_buf)
  BY <1>0, <1>3, <1>4 DEF Held, DraftAccounts
<1>9. s \notin Range(draft.output_buf)
  BY <1>5, <1>8 DEF Range, CycleUsed, CyclePorts
<1>10. DraftAccounts'
  <2>1. IsInjective(draft'.output_buf) /\ IsInjective(draft'.freelist)
    BY <1>0, <1>3, <1>4, <1>6, <1>9 DEF DraftAccounts, Assigned
  <2>2. CycleUsed(draft'.output_buf) = CycleUsed(draft.output_buf) \cup {i}
        /\ CyclePorts(draft'.output_buf) = CyclePorts(draft.output_buf) \cup {p}
    BY <1>5, <1>6 DEF Assigned
  <2>3. /\ CycleUsed(draft'.output_buf) \cap Range(draft'.freelist) = {}
        /\ Held \cap Range(draft'.freelist) = {}
        /\ CycleUsed(draft'.output_buf) \cup Held \cup Range(draft'.freelist) = 0 .. draft'.hwm - 1
    BY <1>0, <1>3, <1>4, <1>8, <2>2 DEF DraftAccounts
  <2>4. \A q \in CyclePorts(draft'.output_buf) :
          draft'.output_buf[q].index \in Held =>
            q \in DOMAIN output_buf /\ output_buf[q] = draft'.output_buf[q]
    BY <1>0, <1>5, <1>6, <1>8, <2>2 DEF DraftAccounts, CyclePorts, Assigned
  <2> QED BY <1>0, <1>8, <2>1, <2>3, <2>4 DEF DraftAccounts
<1>11. DraftZeroes'
  <2>1. \A j \in Held : Cycle(j) # s
    BY <1>5, <1>8, SlotFacts
  <2> QED BY <1>0, <1>3, <1>8, <2>1 DEF DraftZeroes
<1>12. PlacedRight(p)'
  BY <1>0, <1>1, <1>3, <1>5, <1>6 DEF PlacedRight, HadCycleSlot, Assigned
<1>13. DraftPlaced' /\ DraftProgress'
  BY <1>0, <1>2, <1>3, <1>5, <1>12, PlaceKeeps
<1> QED BY <1>7, <1>10, <1>11, <1>13 DEF DraftInv

\* A port that takes the slot at the high-water mark, which is zeroed.
LEMMA GrowCycleKeeps ==
  ASSUME AllocInv, GrowCycle, NEW p, p = Head(todo)
  PROVE  draft' \in DraftType /\ DraftInv'
<1>0. /\ TypeOK /\ DraftAccounts /\ DraftZeroes /\ stage = "sweep" /\ todo # <<>>
      /\ patch[p] /\ ~HadCycleSlot(p) /\ draft' = Grow(p) /\ todo' = Tail(todo)
      /\ draft.hwm < CycleCapacity
      /\ UNCHANGED <<output_buf, patch, stage>>
  BY DEF AllocInv, DraftInv, GrowCycle, Place, plannerVars
<1>1. /\ p \in Ports /\ p \in DOMAIN patch /\ p \notin Placed
  BY <1>0, NextPort
<1>2. /\ draft \in DraftType /\ draft.output_buf \in PortMaps
      /\ draft.hwm \in Nat /\ draft.scratch_hwm \in Nat
  BY <1>0, BuildTypes, RegionAssumption
<1> DEFINE i == draft.hwm
           s == Cycle(i)
<1>3. /\ draft'.output_buf = Assign(draft.output_buf, p, s)
      /\ draft'.freelist = draft.freelist /\ draft'.hwm = i + 1
      /\ draft'.scratch_hwm = draft.scratch_hwm /\ draft'.freed = draft.freed
      /\ draft'.to_zero = draft.to_zero \cup {s}
  BY <1>0, <1>2 DEF Grow, DraftType
<1>4. i \in CycleIndices /\ i + 1 \in 0 .. CycleCapacity
      /\ 0 .. (i + 1) - 1 = (0 .. i - 1) \cup {i} /\ i \notin 0 .. i - 1
  BY <1>0, <1>2, RegionAssumption DEF CycleIndices
<1>5. CycleUsed(draft.output_buf) \cup Held \cup Range(draft.freelist) = 0 .. i - 1
  BY <1>0 DEF DraftAccounts
<1> HIDE DEF i, s
<1>6. s.region = "cycle" /\ s.index = i /\ s \in Slots
  BY <1>4, SlotFacts DEF s
<1>7. Assigned(draft'.output_buf, draft.output_buf, p, s)
  BY <1>1, <1>2, <1>3, <1>6, AssignFacts DEF Placed
<1>8. draft' \in DraftType
  <2>1. draft'.output_buf \in PortMaps /\ draft'.to_zero \subseteq Slots
    BY <1>2, <1>3, <1>6, <1>7 DEF Assigned, DraftType
  <2> QED BY <1>0, <1>2, <1>3, <1>4, <2>1 DEF Grow, DraftType
<1>9. Held' = Held /\ i \notin Held /\ i \notin CycleUsed(draft.output_buf)
      /\ i \notin Range(draft.freelist)
  BY <1>0, <1>3, <1>4, <1>5 DEF Held
<1>10. s \notin Range(draft.output_buf)
  BY <1>6, <1>9 DEF Range, CycleUsed, CyclePorts
<1>11. DraftAccounts'
  <2>1. IsInjective(draft'.output_buf) /\ IsInjective(draft'.freelist)
    BY <1>0, <1>3, <1>7, <1>10 DEF DraftAccounts, Assigned
  <2>2. CycleUsed(draft'.output_buf) = CycleUsed(draft.output_buf) \cup {i}
        /\ CyclePorts(draft'.output_buf) = CyclePorts(draft.output_buf) \cup {p}
    BY <1>6, <1>7 DEF Assigned
  <2>3. /\ CycleUsed(draft'.output_buf) \cap Range(draft'.freelist) = {}
        /\ Held \cap Range(draft'.freelist) = {}
    BY <1>0, <1>3, <1>9, <2>2 DEF DraftAccounts
  <2>4. CycleUsed(draft'.output_buf) \cup Held \cup Range(draft'.freelist) = 0 .. draft'.hwm - 1
    BY <1>3, <1>4, <1>5, <2>2
  <2>5. \A q \in CyclePorts(draft'.output_buf) :
          draft'.output_buf[q].index \in Held =>
            q \in DOMAIN output_buf /\ output_buf[q] = draft'.output_buf[q]
    BY <1>0, <1>6, <1>7, <1>9, <2>2 DEF DraftAccounts, CyclePorts, Assigned
  <2> QED BY <1>0, <1>9, <2>1, <2>3, <2>4, <2>5 DEF DraftAccounts
<1>12. DraftZeroes'
  <2>1. \A j \in Held : Cycle(j) # s
    BY <1>6, <1>9, SlotFacts
  <2> QED BY <1>0, <1>3, <1>9, <2>1 DEF DraftZeroes
<1>13. PlacedRight(p)'
  BY <1>0, <1>1, <1>3, <1>6, <1>7 DEF PlacedRight, HadCycleSlot, Assigned
<1>14. DraftPlaced' /\ DraftProgress'
  BY <1>0, <1>2, <1>3, <1>6, <1>13, PlaceKeeps
<1> QED BY <1>8, <1>11, <1>12, <1>14 DEF DraftInv

\* A port that goes to the scratch region; a cycle slot it had is given back.
LEMMA PlaceScratchKeeps ==
  ASSUME AllocInv, PlaceScratch, NEW p, p = Head(todo)
  PROVE  draft' \in DraftType /\ DraftInv'
<1>0. /\ TypeOK /\ DraftAccounts /\ DraftPlaced /\ DraftZeroes /\ stage = "sweep" /\ todo # <<>>
      /\ ~patch[p] /\ draft' = Compact(p) /\ todo' = Tail(todo)
      /\ draft.scratch_hwm < ScratchCap
      /\ UNCHANGED <<output_buf, patch, stage>>
  BY DEF AllocInv, DraftInv, PlaceScratch, Place, plannerVars
<1>1. /\ p \in Ports /\ p \in DOMAIN patch /\ p \notin Placed /\ IsInjective(output_buf)
      /\ HadCycleSlot(p) =>
           /\ output_buf[p].index \in Held /\ output_buf[p].index \in CycleIndices
           /\ output_buf[p] = Cycle(output_buf[p].index) /\ output_buf[p] \in Slots
           /\ p \in DOMAIN output_buf
  BY <1>0, NextPort
<1>2. /\ draft \in DraftType /\ draft.output_buf \in PortMaps
      /\ draft.freelist \in Seq(CycleIndices) /\ draft.scratch_hwm \in ReservedSlots .. ScratchCap
  BY <1>0, BuildTypes
<1> DEFINE k == draft.scratch_hwm
           s == Scratch(k)
           i == output_buf[p].index
           flips == HadCycleSlot(p)
<1>3. /\ draft'.output_buf = Assign(draft.output_buf, p, s)
      /\ draft'.scratch_hwm = k + 1 /\ draft'.hwm = draft.hwm
      /\ draft'.freelist = IF flips THEN Append(draft.freelist, i) ELSE draft.freelist
      /\ draft'.freed = IF flips THEN draft.freed \cup {i} ELSE draft.freed
      /\ draft'.to_zero = draft.to_zero \cup {s} \cup (IF flips THEN {output_buf[p]} ELSE {})
  BY <1>0, <1>2 DEF Compact, DraftType
<1>4. k \in ScratchIndices /\ k \in Nat /\ k + 1 \in ReservedSlots .. ScratchCap
  BY <1>0, <1>2, RegionAssumption DEF ScratchIndices
<1>5. flips => output_buf[p] = Cycle(i) /\ i \in Held /\ i \in CycleIndices
               /\ output_buf[p] \in Slots
  BY <1>1
<1>6. flips => i \notin CycleUsed(draft.output_buf)
  <2> SUFFICES ASSUME flips, NEW q \in CyclePorts(draft.output_buf),
                      draft.output_buf[q].index = i
               PROVE  FALSE
    BY DEF CycleUsed
  <2>1. q \in DOMAIN output_buf /\ output_buf[q] = draft.output_buf[q]
    BY <1>0, <1>5 DEF DraftAccounts
  <2>2. draft.output_buf[q] = Cycle(i) /\ q \in Placed
    BY <1>2, MapFacts DEF Placed
  <2>3. p \in DOMAIN output_buf /\ output_buf[p] = Cycle(i)
    BY <1>1
  <2>4. q = p
    BY <1>1, <2>1, <2>2, <2>3 DEF IsInjective
  <2> QED BY <1>1, <2>2, <2>4
<1> HIDE DEF k, s, i, flips
<1>7. s.region = "scratch" /\ s.index = k /\ s \in Slots
  BY <1>4, SlotFacts DEF s
<1>8. Assigned(draft'.output_buf, draft.output_buf, p, s)
  BY <1>1, <1>2, <1>3, <1>7, AssignFacts DEF Placed
<1>9. /\ draft'.freelist \in Seq(CycleIndices)
      /\ IsInjective(draft'.freelist)
      /\ flips => Range(draft'.freelist) = Range(draft.freelist) \cup {i}
      /\ ~flips => draft'.freelist = draft.freelist
  <2>1. IsInjective(draft.freelist) /\ (flips => i \notin Range(draft.freelist))
    BY <1>0, <1>5 DEF DraftAccounts
  <2> QED BY <1>2, <1>3, <1>5, <2>1, AppendRange
<1>10. draft' \in DraftType
  <2>1. draft'.output_buf \in PortMaps
    BY <1>8 DEF Assigned
  <2>2. draft'.to_zero \subseteq Slots /\ draft'.freed \subseteq CycleIndices
    BY <1>2, <1>3, <1>5, <1>7 DEF DraftType
  <2>3. DOMAIN draft' = DOMAIN draft
    BY <1>0 DEF Compact
  <2>4. draft' = [output_buf |-> draft'.output_buf, freelist |-> draft'.freelist,
                  hwm |-> draft'.hwm, scratch_hwm |-> draft'.scratch_hwm,
                  freed |-> draft'.freed, to_zero |-> draft'.to_zero]
    BY <1>0, <1>2 DEF Compact, DraftType
  <2>5. draft'.hwm \in 0 .. CycleCapacity /\ draft'.scratch_hwm \in ReservedSlots .. ScratchCap
    BY <1>2, <1>3, <1>4 DEF DraftType
  <2> QED BY <1>9, <2>1, <2>2, <2>4, <2>5 DEF DraftType
<1>11. Held' = IF flips THEN Held \ {i} ELSE Held
  BY <1>0, <1>3 DEF Held
<1>12. CycleUsed(draft'.output_buf) = CycleUsed(draft.output_buf)
       /\ CyclePorts(draft'.output_buf) = CyclePorts(draft.output_buf)
  BY <1>7, <1>8 DEF Assigned
<1>13. s \notin Range(draft.output_buf)
  <2> SUFFICES ASSUME NEW q \in Placed, draft.output_buf[q] = s PROVE FALSE
    BY DEF Range, Placed
  <2>1. PlacedRight(q) /\ draft.output_buf[q].region = "scratch" /\ draft.output_buf[q].index = k
    BY <1>0, <1>7 DEF DraftPlaced
  <2>2. ~patch[q]
    BY <2>1 DEF PlacedRight
  <2> QED BY <1>4, <2>1, <2>2 DEF PlacedRight, k
<1>14. DraftAccounts'
  <2>1. IsInjective(draft'.output_buf)
    BY <1>0, <1>8, <1>13 DEF DraftAccounts, Assigned
  <2>2. /\ CycleUsed(draft'.output_buf) \cap Range(draft'.freelist) = {}
        /\ Held' \cap Range(draft'.freelist) = {}
    BY <1>0, <1>5, <1>6, <1>9, <1>11, <1>12 DEF DraftAccounts
  <2>3. CycleUsed(draft'.output_buf) \cup Held' \cup Range(draft'.freelist) = 0 .. draft'.hwm - 1
    BY <1>0, <1>3, <1>5, <1>9, <1>11, <1>12 DEF DraftAccounts
  <2>4. \A q \in CyclePorts(draft.output_buf) : draft'.output_buf[q] = draft.output_buf[q]
    BY <1>8 DEF CyclePorts, Assigned
  <2>5. \A q \in CyclePorts(draft'.output_buf) :
          draft'.output_buf[q].index \in Held' =>
            q \in DOMAIN output_buf /\ output_buf[q] = draft'.output_buf[q]
    BY <1>0, <1>11, <1>12, <2>4 DEF DraftAccounts
  <2> QED BY <1>0, <1>9, <2>1, <2>2, <2>3, <2>5 DEF DraftAccounts
<1>15. DraftZeroes'
  <2>1. \A j \in Held' : j \in Held /\ Cycle(j) # s /\ (flips => Cycle(j) # output_buf[p])
    BY <1>5, <1>7, <1>11, SlotFacts
  <2>2. \A j \in draft'.freed : j \in draft.freed \/ (flips /\ j = i)
    BY <1>3
  <2>3. \A j \in draft'.freed : Cycle(j) \in draft'.to_zero
    BY <1>0, <1>3, <1>5, <2>2 DEF DraftZeroes
  <2>4. \A j \in Held' : Cycle(j) \notin draft'.to_zero
    BY <1>0, <1>3, <2>1 DEF DraftZeroes
  <2> QED BY <2>3, <2>4 DEF DraftZeroes
<1>16. PlacedRight(p)'
  <2>1. draft'.output_buf[p] = s /\ k < k + 1
    BY <1>4, <1>8 DEF Assigned
  <2> QED BY <1>0, <1>1, <1>3, <1>7, <2>1 DEF PlacedRight
<1>17. DraftPlaced' /\ DraftProgress'
  <2>1. /\ draft.to_zero \subseteq draft'.to_zero
        /\ draft'.scratch_hwm \in Nat /\ draft.scratch_hwm <= draft'.scratch_hwm
        /\ \A j \in draft'.freed \ draft.freed : HadCycleSlot(p) /\ j = output_buf[p].index
    BY <1>3, <1>4 DEF k, flips, i
  <2> QED BY <1>0, <1>3, <1>7, <1>16, <2>1, PlaceKeeps
<1> QED BY <1>10, <1>14, <1>15, <1>17 DEF DraftInv

-----------------------------------------------------------------------------
(* The steps of the planner and of the audio thread.                        *)

\* Placing a port touches the build alone.
LEMMA PlaceStep ==
  ASSUME AllocInv, stage = "sweep", todo # <<>>, NEW new, Place(new),
         draft' \in DraftType, DraftInv'
  PROVE  AllocInv'
<1>1. /\ TypeOK /\ CyclePartitioned /\ ChainInv /\ PoolInv /\ todo' = Tail(todo)
      /\ UNCHANGED <<stage, patch, gone, builds, output_buf, freelist, hwm, plan_ring,
                     running, cycle_pool, wi>>
  BY DEF AllocInv, Place, plannerVars, audioVars
<1>2. Tail(todo) \in Seq(Ports)
  BY NextPort
<1>3. TypeOK'
  BY <1>1, <1>2 DEF TypeOK, DraftType, PortMaps
<1>4. CyclePartitioned' /\ PoolInv'
  BY <1>1 DEF CyclePartitioned, PoolInv
<1>5. ChainInv'
  BY <1>1 DEF ChainInv, LastPushed
<1> QED BY <1>3, <1>4, <1>5 DEF AllocInv

LEMMA SweepPlaceStep ==
  ASSUME AllocInv, KeepPort \/ ReuseSlot \/ GrowCycle \/ PlaceScratch
  PROVE  AllocInv'
<1>1. CASE KeepPort
  <2>1. draft' \in DraftType /\ DraftInv'
    BY <1>1, KeepPortKeeps
  <2> QED BY <1>1, <2>1, PlaceStep DEF KeepPort
<1>2. CASE ReuseSlot
  <2>1. draft' \in DraftType /\ DraftInv'
    BY <1>2, ReuseSlotKeeps
  <2> QED BY <1>2, <2>1, PlaceStep DEF ReuseSlot
<1>3. CASE GrowCycle
  <2>1. draft' \in DraftType /\ DraftInv'
    BY <1>3, GrowCycleKeeps
  <2> QED BY <1>3, <2>1, PlaceStep DEF GrowCycle
<1>4. CASE PlaceScratch
  <2>1. draft' \in DraftType /\ DraftInv'
    BY <1>4, PlaceScratchKeeps
  <2> QED BY <1>4, <2>1, PlaceStep DEF PlaceScratch
<1> QED BY <1>1, <1>2, <1>3, <1>4

LEMMA EmptyFacts ==
  /\ EmptyMap \in PortMaps /\ EmptyMap \in PartialMaps(Ports, BOOLEAN)
  /\ DOMAIN EmptyMap = {} /\ Range(EmptyMap) = {} /\ IsInjective(EmptyMap)
  /\ CyclePorts(EmptyMap) = {} /\ CycleUsed(EmptyMap) = {}
  /\ <<>> \in Seq(CycleIndices) /\ <<>> \in Seq(Ports)
  /\ IsInjective(<<>>) /\ Range(<<>>) = {}
  /\ NoDraft \in DraftType
<1>1. /\ DOMAIN EmptyMap = {} /\ Range(EmptyMap) = {} /\ IsInjective(EmptyMap)
      /\ CyclePorts(EmptyMap) = {} /\ CycleUsed(EmptyMap) = {}
  BY DEF EmptyMap, Range, IsInjective, CyclePorts, CycleUsed
<1>2. EmptyMap \in [{} -> Slots] /\ EmptyMap \in [{} -> BOOLEAN]
  BY DEF EmptyMap
<1>3. EmptyMap \in PortMaps /\ EmptyMap \in PartialMaps(Ports, BOOLEAN)
  <2>1. {} \in SUBSET Ports
    OBVIOUS
  <2> QED BY <1>2, <2>1 DEF PortMaps, PartialMaps
<1>4. <<>> \in Seq(CycleIndices) /\ <<>> \in Seq(Ports) /\ DOMAIN <<>> = {}
  OBVIOUS
<1>5. IsInjective(<<>>) /\ Range(<<>>) = {}
  BY <1>4 DEF IsInjective, Range
<1>6. 0 \in 0 .. CycleCapacity /\ ReservedSlots \in ReservedSlots .. ScratchCap
  BY RegionAssumption
<1>7. NoDraft \in DraftType
  BY <1>3, <1>4, <1>6 DEF NoDraft, DraftType
<1> QED BY <1>1, <1>3, <1>4, <1>5, <1>7

\* The locals of a build are gone when it returns.
LEMMA EndBuildTypes ==
  ASSUME EndBuild
  PROVE  /\ stage' = "idle" /\ patch' \in PartialMaps(Ports, BOOLEAN) /\ todo' \in Seq(Ports)
         /\ draft' \in DraftType
  BY EmptyFacts DEF EndBuild

\* A build that fails leaves everything as it was.
LEMMA AbandonStep ==
  ASSUME AllocInv, Abandon \/ CycleExhausted \/ ScratchExhausted
  PROVE  AllocInv'
<1>1. /\ TypeOK /\ CyclePartitioned /\ ChainInv /\ PoolInv /\ stage # "push" /\ EndBuild
      /\ UNCHANGED <<gone, builds, output_buf, freelist, hwm, plan_ring, running, cycle_pool, wi>>
  BY DEF AllocInv, Abandon, CycleExhausted, ScratchExhausted, plannerVars, audioVars
<1>2. TypeOK' /\ stage' = "idle"
  BY <1>1, EndBuildTypes DEF TypeOK, DraftType, PortMaps
<1>3. CyclePartitioned' /\ PoolInv' /\ DraftInv'
  BY <1>1, <1>2 DEF CyclePartitioned, PoolInv, DraftInv
<1>4. ChainInv'
  BY <1>1, <1>2 DEF ChainInv, LastPushed
<1> QED BY <1>2, <1>3, <1>4 DEF AllocInv

\* The ports of a patch in an order of execution.
LEMMA OrderFacts ==
  ASSUME NEW S, S \subseteq Ports, NEW s \in SetToSeqs(S)
  PROVE  s \in Seq(Ports) /\ IsInjective(s) /\ Range(s) \subseteq S
<1>1. Cardinality(S) \in Nat
  BY FinitePorts, FS_Subset, FS_CardinalityType
<1>2. /\ s \in [1 .. Cardinality(S) -> S]
      /\ \A i, j \in 1 .. Cardinality(S) : i # j => s[i] # s[j]
  BY DEF SetToSeqs
<1>3. s \in Seq(S)
  BY <1>1, <1>2
<1>4. IsInjective(s) /\ Range(s) \subseteq S
  BY <1>2 DEF IsInjective, Range
<1>5. s \in Seq(Ports)
  BY <1>1, <1>2
<1> QED BY <1>4, <1>5

LEMMA BeginStep ==
  ASSUME AllocInv, Begin
  PROVE  AllocInv'
<1>1. /\ TypeOK /\ CyclePartitioned /\ ChainInv /\ PoolInv /\ stage = "idle" /\ stage' = "sweep"
      /\ patch' \in PartialMaps(Ports, BOOLEAN) /\ todo' \in SetToSeqs(DOMAIN patch')
      /\ draft' = [NoDraft EXCEPT !.freelist = freelist, !.hwm = hwm]
      /\ builds < MaxPlans /\ builds' = builds + 1
      /\ UNCHANGED <<gone, output_buf, freelist, hwm, plan_ring, running, cycle_pool, wi>>
  BY DEF AllocInv, Begin, plannerVars, audioVars
<1>2. DOMAIN patch' \subseteq Ports
  BY <1>1 DEF PartialMaps
<1>3. todo' \in Seq(Ports) /\ IsInjective(todo') /\ Range(todo') \subseteq DOMAIN patch'
  BY <1>1, <1>2, OrderFacts
<1>4. /\ draft'.output_buf = EmptyMap /\ draft'.freelist = freelist /\ draft'.hwm = hwm
      /\ draft'.scratch_hwm = ReservedSlots /\ draft'.freed = {} /\ draft'.to_zero = {}
  BY <1>1 DEF NoDraft
<1>5. draft' \in DraftType
  <2>1. freelist \in Seq(CycleIndices) /\ hwm \in 0 .. CycleCapacity
    BY <1>1 DEF TypeOK
  <2> QED BY <1>1, <2>1, EmptyFacts DEF NoDraft, DraftType
<1>6. TypeOK'
  <2>1. builds' \in 0 .. MaxPlans
    BY <1>1, MaxPlansAssumption DEF TypeOK
  <2> QED BY <1>1, <1>3, <1>5, <2>1 DEF TypeOK, DraftType, PortMaps
<1>7. CyclePartitioned' /\ PoolInv'
  BY <1>1 DEF CyclePartitioned, PoolInv
<1>8. ChainInv'
  BY <1>1 DEF ChainInv, LastPushed
<1>9. Placed' = {} /\ Held' = CycleUsed(output_buf)
  BY <1>1, <1>4, EmptyFacts DEF Placed, Held
<1>10. DraftPlaced'
  BY <1>3, <1>9 DEF DraftPlaced
<1>11. DraftAccounts'
  <2>1. IsInjective(draft'.output_buf) /\ CycleUsed(draft'.output_buf) = {}
        /\ CyclePorts(draft'.output_buf) = {}
    BY <1>4, EmptyFacts
  <2> QED BY <1>1, <1>4, <1>9, <2>1 DEF DraftAccounts, CyclePartitioned
<1>12. DraftZeroes' /\ DraftProgress'
  BY <1>1, <1>4 DEF DraftZeroes, DraftProgress
<1> QED BY <1>6, <1>7, <1>8, <1>10, <1>11, <1>12 DEF AllocInv, DraftInv

LEMMA EndSweepStep ==
  ASSUME AllocInv, EndSweep
  PROVE  AllocInv'
<1>1. /\ TypeOK /\ CyclePartitioned /\ DraftInv /\ ChainInv /\ PoolInv /\ stage = "sweep"
      /\ stage' = "reconcile" /\ gone' = DOMAIN output_buf
      /\ UNCHANGED <<patch, todo, draft, builds, output_buf, freelist, hwm, plan_ring, running,
                     cycle_pool, wi>>
  BY DEF AllocInv, EndSweep, plannerVars, audioVars
<1>2. gone' \subseteq Ports
  BY <1>1, BuildTypes, MapFacts
<1>3. TypeOK'
  BY <1>1, <1>2 DEF TypeOK
<1>4. CyclePartitioned' /\ PoolInv'
  BY <1>1 DEF CyclePartitioned, PoolInv
<1>5. ChainInv'
  BY <1>1 DEF ChainInv, LastPushed
<1>6. DraftPlaced /\ DraftAccounts /\ DraftZeroes
  BY <1>1 DEF DraftInv
<1>7. Placed' = Placed /\ Held' = Held /\ \A p : PlacedRight(p) => PlacedRight(p)'
  BY <1>1 DEF Placed, Held, PlacedRight, HadCycleSlot
<1>8. DraftPlaced'
  BY <1>1, <1>6, <1>7 DEF DraftPlaced
<1>9. DraftAccounts' /\ DraftZeroes'
  BY <1>1, <1>6, <1>7 DEF DraftAccounts, DraftZeroes
<1>10. DraftProgress'
  BY <1>1 DEF DraftProgress
<1> QED BY <1>3, <1>4, <1>5, <1>8, <1>9, <1>10 DEF AllocInv, DraftInv

\* An old port is reconciled: its slot is in use, or it is given back.
LEMMA ReconcileKeeps ==
  ASSUME AllocInv, stage = "reconcile", NEW p \in gone, gone' = gone \ {p},
         draft' = IF output_buf[p] \in Range(draft.output_buf) THEN draft
                  ELSE Vacate(output_buf[p]),
         UNCHANGED <<stage, patch, todo, output_buf>>
  PROVE  draft' \in DraftType /\ DraftInv'
<1>1. /\ TypeOK /\ DraftPlaced /\ DraftAccounts /\ DraftZeroes /\ DraftProgress
      /\ stage' = "reconcile"
  BY DEF AllocInv, DraftInv
<1>2. /\ p \in DOMAIN output_buf /\ output_buf \in PortMaps /\ draft \in DraftType
      /\ draft.output_buf \in PortMaps /\ draft.freelist \in Seq(CycleIndices)
      /\ draft.freed \subseteq CycleIndices /\ draft.to_zero \subseteq Slots
  BY <1>1, BuildTypes DEF DraftProgress
<1> DEFINE s == output_buf[p]
           i == s.index
<1>3. s \in Slots /\ (s.region = "cycle" \/ s.region = "scratch")
      /\ (s.region = "cycle" => i \in CycleIndices /\ s = Cycle(i) /\ i \in CycleUsed(output_buf))
  <2>1. s \in Slots
    BY <1>2, MapFacts
  <2>2. s.region = "cycle" => i \in CycleUsed(output_buf)
    BY <1>2 DEF CycleUsed, CyclePorts
  <2> QED BY <2>1, <2>2, SlotFacts
<1>4. draft' = IF s \in Range(draft.output_buf) THEN draft ELSE Vacate(s)
  OBVIOUS
<1>5. ASSUME draft' = draft, s \in Range(draft.output_buf) \/
               (s \in draft.to_zero /\ (s.region = "cycle" => i \in draft.freed))
      PROVE  draft' \in DraftType /\ DraftInv'
  <2>1. Placed' = Placed /\ Held' = Held /\ \A q : PlacedRight(q) => PlacedRight(q)'
    BY <1>5 DEF Placed, Held, PlacedRight, HadCycleSlot
  <2>2. DraftPlaced'
    BY <1>1, <2>1 DEF DraftPlaced
  <2>3. DraftAccounts' /\ DraftZeroes'
    BY <1>1, <1>5, <2>1 DEF DraftAccounts, DraftZeroes
  <2>4. DraftProgress'
    BY <1>1, <1>5 DEF DraftProgress
  <2> QED BY <1>2, <1>5, <2>2, <2>3, <2>4 DEF DraftInv
<1>6. CASE s \in Range(draft.output_buf)
  BY <1>4, <1>5, <1>6
<1>7. CASE s \notin Range(draft.output_buf) /\ s.region = "cycle" /\ i \in draft.freed
  <2>1. draft' = draft
    BY <1>4, <1>7 DEF Vacate
  <2>2. s \in draft.to_zero
    BY <1>1, <1>3, <1>7 DEF DraftZeroes
  <2> QED BY <1>5, <1>7, <2>1, <2>2
<1> HIDE DEF s, i
<1>8. CASE s \notin Range(draft.output_buf) /\ s.region = "scratch"
  <2>1. draft' = [draft EXCEPT !.to_zero = @ \cup {s}]
    BY <1>4, <1>8 DEF Vacate
  <2>2. /\ draft'.output_buf = draft.output_buf /\ draft'.freelist = draft.freelist
        /\ draft'.hwm = draft.hwm /\ draft'.scratch_hwm = draft.scratch_hwm
        /\ draft'.freed = draft.freed /\ draft'.to_zero = draft.to_zero \cup {s}
        /\ draft' \in DraftType
    BY <1>2, <1>3, <2>1 DEF DraftType
  <2>3. Placed' = Placed /\ Held' = Held /\ \A q : PlacedRight(q) => PlacedRight(q)'
    BY <2>2 DEF Placed, Held, PlacedRight, HadCycleSlot
  <2>4. DraftPlaced'
    BY <1>1, <2>3 DEF DraftPlaced
  <2>5. DraftAccounts'
    BY <1>1, <2>2, <2>3 DEF DraftAccounts
  <2>6. DraftZeroes'
    <3>1. \A j \in Held : Cycle(j) # s
      BY <1>8, SlotFacts
    <3> QED BY <1>1, <2>2, <2>3, <3>1 DEF DraftZeroes
  <2>7. DraftProgress'
    BY <1>1, <1>8, <2>2 DEF DraftProgress, s
  <2> QED BY <2>2, <2>4, <2>5, <2>6, <2>7 DEF DraftInv
<1>9. CASE s \notin Range(draft.output_buf) /\ s.region = "cycle" /\ i \notin draft.freed
  <2>1. draft' = [draft EXCEPT !.freelist = Append(@, i), !.freed = @ \cup {i},
                               !.to_zero = @ \cup {s}]
    <3>1. s.region # "scratch"
      BY <1>9
    <3> QED BY <1>4, <1>9, <3>1 DEF Vacate, i
  <2>2. i \in Held /\ s = Cycle(i) /\ i \in CycleIndices
    BY <1>3, <1>9 DEF Held
  <2>3. /\ Append(draft.freelist, i) \in Seq(CycleIndices)
        /\ Range(Append(draft.freelist, i)) = Range(draft.freelist) \cup {i}
        /\ IsInjective(Append(draft.freelist, i))
    <3>1. IsInjective(draft.freelist) /\ i \notin Range(draft.freelist)
      BY <1>1, <2>2 DEF DraftAccounts
    <3> QED BY <1>2, <2>2, <3>1, AppendRange
  <2>4. /\ draft'.output_buf = draft.output_buf /\ draft'.freelist = Append(draft.freelist, i)
        /\ draft'.hwm = draft.hwm /\ draft'.scratch_hwm = draft.scratch_hwm
        /\ draft'.freed = draft.freed \cup {i} /\ draft'.to_zero = draft.to_zero \cup {s}
        /\ draft' \in DraftType
    <3> DEFINE rest == Append(draft.freelist, i)
    <3>1. rest \in Seq(CycleIndices)
      BY <2>3
    <3> HIDE DEF rest
    <3>2. draft' = [draft EXCEPT !.freelist = rest, !.freed = @ \cup {i},
                                 !.to_zero = @ \cup {s}]
      BY <2>1 DEF rest
    <3>3. /\ draft'.output_buf = draft.output_buf /\ draft'.freelist = rest
          /\ draft'.hwm = draft.hwm /\ draft'.scratch_hwm = draft.scratch_hwm
          /\ draft'.freed = draft.freed \cup {i} /\ draft'.to_zero = draft.to_zero \cup {s}
      BY <1>2, <3>2 DEF DraftType
    <3>4. draft.freed \cup {i} \subseteq CycleIndices /\ draft.to_zero \cup {s} \subseteq Slots
      BY <1>2, <1>3, <2>2
    <3>5. draft' \in DraftType
      BY <1>2, <3>1, <3>2, <3>4 DEF DraftType
    <3> QED BY <3>3, <3>5 DEF rest
  <2>5. i \notin CycleUsed(draft.output_buf)
    <3> SUFFICES ASSUME NEW q \in CyclePorts(draft.output_buf), draft.output_buf[q].index = i
                 PROVE  FALSE
      BY DEF CycleUsed
    <3>1. draft.output_buf[q] = s /\ q \in DOMAIN draft.output_buf
      BY <1>2, <2>2, MapFacts
    <3> QED BY <1>9, <3>1 DEF Range
  <2>6. Placed' = Placed /\ Held' = Held \ {i}
    BY <2>4 DEF Placed, Held
  <2>7. ASSUME NEW q \in Placed PROVE PlacedRight(q)'
    <3>1. PlacedRight(q) /\ draft.output_buf[q] \in Range(draft.output_buf)
      BY <1>1 DEF DraftPlaced, Placed, Range
    <3>2. patch[q] /\ HadCycleSlot(q) => output_buf[q].index # i
      <4> SUFFICES ASSUME patch[q], HadCycleSlot(q), output_buf[q].index = i PROVE FALSE
        OBVIOUS
      <4>1. output_buf[q] = s
        BY <1>2, <2>2, MapFacts DEF HadCycleSlot
      <4> QED BY <1>9, <3>1, <4>1 DEF PlacedRight
    <3> QED BY <2>4, <3>1, <3>2 DEF PlacedRight, HadCycleSlot
  <2>8. DraftPlaced'
    BY <1>1, <2>6, <2>7 DEF DraftPlaced
  <2>9. DraftAccounts'
    <3>1. IsInjective(draft'.output_buf) /\ IsInjective(draft'.freelist)
      BY <1>1, <2>3, <2>4 DEF DraftAccounts
    <3>2. Range(draft'.freelist) = Range(draft.freelist) \cup {i}
      BY <2>3, <2>4
    <3>3. /\ CycleUsed(draft'.output_buf) \cap Range(draft'.freelist) = {}
          /\ Held' \cap Range(draft'.freelist) = {}
          /\ CycleUsed(draft'.output_buf) \cup Held' \cup Range(draft'.freelist)
               = 0 .. draft'.hwm - 1
      BY <1>1, <2>2, <2>4, <2>5, <2>6, <3>2 DEF DraftAccounts
    <3>4. \A q \in CyclePorts(draft'.output_buf) :
            draft'.output_buf[q].index \in Held' =>
              q \in DOMAIN output_buf /\ output_buf[q] = draft'.output_buf[q]
      BY <1>1, <2>4, <2>6 DEF DraftAccounts
    <3> QED BY <3>1, <3>3, <3>4 DEF DraftAccounts
  <2>10. DraftZeroes'
    <3>1. \A j \in Held : j # i => Cycle(j) # s
      BY <2>2, SlotFacts
    <3> QED BY <1>1, <2>2, <2>4, <2>6, <3>1 DEF DraftZeroes
  <2>11. DraftProgress'
    BY <1>1, <2>4 DEF DraftProgress, s, i
  <2> QED BY <2>4, <2>8, <2>9, <2>10, <2>11 DEF DraftInv
<1> QED BY <1>3, <1>6, <1>7, <1>8, <1>9

LEMMA ReconcileStep ==
  ASSUME AllocInv, Reconcile
  PROVE  AllocInv'
<1>1. /\ TypeOK /\ CyclePartitioned /\ ChainInv /\ PoolInv /\ stage = "reconcile"
      /\ UNCHANGED <<stage, patch, todo, builds, output_buf, freelist, hwm, plan_ring, running,
                     cycle_pool, wi>>
  BY DEF AllocInv, Reconcile, plannerVars, audioVars
<1>2. PICK p \in gone :
        /\ gone' = gone \ {p}
        /\ draft' = IF output_buf[p] \in Range(draft.output_buf) THEN draft
                    ELSE Vacate(output_buf[p])
  BY DEF Reconcile
<1>3. draft' \in DraftType /\ DraftInv'
  BY <1>1, <1>2, ReconcileKeeps
<1>4. TypeOK'
  BY <1>1, <1>2, <1>3 DEF TypeOK, DraftType, PortMaps
<1>5. CyclePartitioned' /\ PoolInv'
  BY <1>1 DEF CyclePartitioned, PoolInv
<1>6. ChainInv'
  BY <1>1 DEF ChainInv, LastPushed
<1> QED BY <1>3, <1>4, <1>5, <1>6 DEF AllocInv

\* The build succeeds: its layout divides the region and is right over the one
\* before.
LEMMA CommitStep ==
  ASSUME AllocInv, Commit
  PROVE  AllocInv'
<1>1. /\ TypeOK /\ DraftPlaced /\ DraftAccounts /\ DraftZeroes /\ DraftProgress
      /\ ChainInv /\ PoolInv /\ stage = "reconcile" /\ gone = {}
      /\ output_buf' = draft.output_buf /\ freelist' = draft.freelist /\ hwm' = draft.hwm
      /\ stage' = "push"
      /\ UNCHANGED <<patch, todo, gone, draft, builds, plan_ring, running, cycle_pool, wi>>
  BY DEF AllocInv, DraftInv, Commit, audioVars
<1>2. /\ output_buf \in PortMaps /\ draft.output_buf \in PortMaps
      /\ draft.freelist \in Seq(CycleIndices) /\ draft.hwm \in 0 .. CycleCapacity
  BY <1>1, BuildTypes
<1>3. TypeOK'
  BY <1>1, <1>2 DEF TypeOK, PortMaps
<1>4. \A p \in CyclePorts(output_buf) :
        \/ output_buf[p] \in Range(draft.output_buf)
        \/ output_buf[p] \in draft.to_zero /\ output_buf[p].index \in draft.freed
  BY <1>1 DEF DraftProgress, CyclePorts
<1>5. Held \subseteq CycleUsed(draft.output_buf)
  <2> SUFFICES ASSUME NEW p \in CyclePorts(output_buf), output_buf[p].index \notin draft.freed
               PROVE  output_buf[p].index \in CycleUsed(draft.output_buf)
    BY DEF Held, CycleUsed
  <2>1. output_buf[p] \in Range(draft.output_buf) /\ output_buf[p].region = "cycle"
    BY <1>4 DEF CyclePorts
  <2> QED BY <2>1 DEF Range, CycleUsed, CyclePorts
<1>6. CyclePartitioned'
  BY <1>1, <1>5 DEF DraftAccounts, CyclePartitioned
<1>7. PlanOver(output_buf, draft.output_buf, draft.to_zero)
  <2>1. IsInjective(draft.output_buf)
    BY <1>1 DEF DraftAccounts
  <2>2. ASSUME NEW p \in CyclePorts(draft.output_buf)
        PROVE  \/ /\ p \in CyclePorts(output_buf) /\ draft.output_buf[p] = output_buf[p]
                  /\ draft.output_buf[p] \notin draft.to_zero
               \/ p \notin CyclePorts(output_buf) /\ draft.output_buf[p] \in draft.to_zero
    <3>1. PlacedRight(p) /\ draft.output_buf[p].region = "cycle"
      BY <1>1 DEF DraftPlaced, Placed, CyclePorts
    <3>2. patch[p]
      BY <3>1 DEF PlacedRight
    <3>3. CASE HadCycleSlot(p)
      <4>1. p \in CyclePorts(output_buf) /\ draft.output_buf[p] = output_buf[p]
            /\ output_buf[p].index \notin draft.freed
        BY <3>1, <3>2, <3>3 DEF PlacedRight, HadCycleSlot
      <4>2. output_buf[p].index \in Held /\ output_buf[p] = Cycle(output_buf[p].index)
        BY <1>2, <4>1, MapFacts DEF Held
      <4> QED BY <1>1, <4>1, <4>2 DEF DraftZeroes
    <3>4. CASE ~HadCycleSlot(p)
      BY <3>1, <3>2, <3>4 DEF PlacedRight, HadCycleSlot
    <3> QED BY <3>3, <3>4
  <2> QED BY <1>4, <2>1, <2>2 DEF PlanOver
<1>8. ChainInv'
  BY <1>1, <1>7 DEF ChainInv, LastPushed
<1>9. PoolInv' /\ DraftInv'
  BY <1>1 DEF PoolInv, DraftInv
<1> QED BY <1>3, <1>6, <1>8, <1>9 DEF AllocInv

\* The plan goes to the ring, which was empty: the layout before it runs.
LEMMA PushStep ==
  ASSUME AllocInv, Push
  PROVE  AllocInv'
<1> DEFINE plan == [to_zero |-> draft.to_zero, ports |-> draft.output_buf]
<1>1. /\ TypeOK /\ CyclePartitioned /\ ChainInv /\ PoolInv /\ stage = "push"
      /\ plan_ring = <<>> /\ plan_ring' = <<plan>> /\ EndBuild
      /\ UNCHANGED <<gone, builds, output_buf, freelist, hwm, running, cycle_pool, wi>>
  BY DEF AllocInv, Push, plannerVars, audioVars
<1>2. plan \in [to_zero : SUBSET Slots, ports : PortMaps]
  BY <1>1, BuildTypes
<1>3. plan.to_zero = draft.to_zero /\ plan.ports = draft.output_buf
  OBVIOUS
<1> HIDE DEF plan
<1>4. /\ plan_ring' \in Seq([to_zero : SUBSET Slots, ports : PortMaps])
      /\ Len(plan_ring') <= 1 /\ plan_ring' # <<>> /\ Head(plan_ring') = plan
  BY <1>1, <1>2
<1>5. TypeOK' /\ stage' = "idle"
  BY <1>1, <1>4, EndBuildTypes DEF TypeOK, DraftType, PortMaps
<1>6. CyclePartitioned' /\ PoolInv' /\ DraftInv'
  BY <1>1, <1>5 DEF CyclePartitioned, PoolInv, DraftInv
<1>7. LastPushed = running /\ LastPushed' = plan.ports
  BY <1>1, <1>4 DEF LastPushed
<1>8. ChainInv'
  BY <1>1, <1>3, <1>4, <1>5, <1>7 DEF ChainInv
<1> QED BY <1>5, <1>6, <1>8 DEF AllocInv

\* The plan at the head of the ring.
LEMMA PlanFacts ==
  ASSUME AllocInv, plan_ring # <<>>
  PROVE  /\ Head(plan_ring).ports \in PortMaps /\ running \in PortMaps
         /\ Head(plan_ring).to_zero \subseteq Slots
         /\ IsInjective(running)
         /\ PlanOver(running, Head(plan_ring).ports, Head(plan_ring).to_zero)
         /\ LastPushed = Head(plan_ring).ports
<1>1. /\ plan_ring \in Seq([to_zero : SUBSET Slots, ports : PortMaps]) /\ running \in PortMaps
      /\ ChainInv
  BY DEF AllocInv, TypeOK, PortMaps
<1>2. Head(plan_ring) \in [to_zero : SUBSET Slots, ports : PortMaps]
  <2> DEFINE S == [to_zero : SUBSET Slots, ports : PortMaps]
  <2>1. plan_ring \in Seq(S) /\ plan_ring # <<>>
    BY <1>1
  <2> HIDE DEF S
  <2>2. Head(plan_ring) \in S
    BY <2>1
  <2> QED BY <2>2 DEF S
<1> QED BY <1>1, <1>2 DEF ChainInv, LastPushed

\* What the zeroing does to a slot.
LEMMA ZeroedFacts ==
  ASSUME AllocInv, Adopt, NEW i \in CycleIndices
  PROVE  /\ Cycle(i) \in Head(plan_ring).to_zero => cycle_pool'[i] = [h \in {0, 1} |-> Silence]
         /\ Cycle(i) \notin Head(plan_ring).to_zero => cycle_pool'[i] = cycle_pool[i]
  BY DEF Adopt, Zeroed

\* A cycle slot of the old layout that the plan does not zero is carried over.
LEMMA CarriedOver ==
  ASSUME AllocInv, plan_ring # <<>>, NEW p \in CyclePorts(running),
         running[p] \notin Head(plan_ring).to_zero
  PROVE  p \in DOMAIN Head(plan_ring).ports /\ Head(plan_ring).ports[p] = running[p]
<1> DEFINE ports == Head(plan_ring).ports
<1>1. /\ PlanOver(running, ports, Head(plan_ring).to_zero) /\ IsInjective(running)
  BY PlanFacts
<1> HIDE DEF ports
<1>2. PICK q \in DOMAIN ports : ports[q] = running[p]
  BY <1>1 DEF PlanOver, Range
<1>3. q \in CyclePorts(ports) /\ p \in DOMAIN running
  BY <1>2 DEF CyclePorts
<1>4. q \in CyclePorts(running) /\ ports[q] = running[q]
  BY <1>1, <1>2, <1>3 DEF PlanOver
<1>5. q = p
  BY <1>1, <1>2, <1>3, <1>4 DEF IsInjective, CyclePorts
<1> QED BY <1>2, <1>5 DEF ports

LEMMA AdoptStep ==
  ASSUME AllocInv, Adopt
  PROVE  AllocInv'
<1> DEFINE plan == Head(plan_ring)
<1>1. /\ TypeOK /\ CyclePartitioned /\ DraftInv /\ ChainInv /\ PoolInv
      /\ plan_ring # <<>> /\ plan_ring' = <<>> /\ running' = plan.ports
      /\ cycle_pool' = Zeroed(plan.to_zero)
      /\ UNCHANGED <<wi, output_buf, freelist, hwm, stage, patch, todo, gone, draft, builds>>
  BY DEF AllocInv, Adopt, plannerVars, draftVars
<1>2. /\ plan.ports \in PortMaps /\ running \in PortMaps
      /\ PlanOver(running, plan.ports, plan.to_zero) /\ LastPushed = plan.ports
  BY <1>1, PlanFacts
<1>3. cycle_pool' \in [CycleIndices -> [{0, 1} -> Values]]
  <2>1. cycle_pool \in [CycleIndices -> [{0, 1} -> Values]] /\ Silence \in Values
    BY <1>1 DEF TypeOK, Values
  <2> QED BY <1>1, <2>1 DEF Zeroed
<1> HIDE DEF plan
<1>4. TypeOK'
  BY <1>1, <1>2, <1>3 DEF TypeOK, PortMaps, Values
<1>5. CyclePartitioned' /\ DraftInv'
  <2>1. Placed' = Placed /\ Held' = Held /\ \A q : PlacedRight(q) => PlacedRight(q)'
    BY <1>1 DEF Placed, Held, PlacedRight, HadCycleSlot
  <2>2. DraftPlaced => DraftPlaced'
    BY <1>1, <2>1 DEF DraftPlaced
  <2>3. (DraftAccounts => DraftAccounts') /\ (DraftZeroes => DraftZeroes')
    BY <1>1, <2>1 DEF DraftAccounts, DraftZeroes
  <2>4. DraftProgress => DraftProgress'
    BY <1>1, <2>1 DEF DraftProgress
  <2>5. CyclePartitioned'
    BY <1>1 DEF CyclePartitioned
  <2> QED BY <1>1, <2>2, <2>3, <2>4, <2>5 DEF DraftInv
<1>6. LastPushed' = LastPushed
  BY <1>1, <1>2 DEF LastPushed
<1>7. ChainInv'
  <2>1. IsInjective(running')
    BY <1>1, <1>2 DEF PlanOver
  <2>2. stage' # "push" => output_buf' = LastPushed'
    BY <1>1, <1>6 DEF ChainInv
  <2>3. stage' = "push" => /\ output_buf' = draft'.output_buf
                           /\ PlanOver(LastPushed', draft'.output_buf, draft'.to_zero)
    BY <1>1, <1>6 DEF ChainInv
  <2> QED BY <1>1, <2>1, <2>2, <2>3 DEF ChainInv
<1>8. PoolInv'
  <2> SUFFICES ASSUME NEW i \in CycleIndices, NEW h \in {0, 1}, cycle_pool'[i][h] # Silence
               PROVE  \E p \in DOMAIN running' : running'[p] = Cycle(i) /\ cycle_pool'[i][h] = p
    BY DEF PoolInv
  <2>1. Cycle(i) \notin plan.to_zero /\ cycle_pool'[i] = cycle_pool[i]
    BY ZeroedFacts DEF plan
  <2>2. PICK p \in DOMAIN running : running[p] = Cycle(i) /\ cycle_pool[i][h] = p
    BY <1>1, <2>1 DEF PoolInv
  <2>3. p \in CyclePorts(running)
    BY <2>2, SlotFacts DEF CyclePorts
  <2>4. p \in DOMAIN plan.ports /\ plan.ports[p] = running[p]
    BY <1>1, <2>1, <2>2, <2>3, CarriedOver DEF plan
  <2> QED BY <1>1, <2>1, <2>2, <2>4
<1> QED BY <1>4, <1>5, <1>7, <1>8 DEF AllocInv

LEMMA TickStep ==
  ASSUME AllocInv, Tick
  PROVE  AllocInv'
<1>1. /\ TypeOK /\ CyclePartitioned /\ DraftInv /\ ChainInv /\ PoolInv /\ wi' = 1 - wi
      /\ UNCHANGED <<running, output_buf, freelist, hwm, stage, patch, todo, gone, draft,
                     builds, plan_ring>>
  BY DEF AllocInv, Tick, plannerVars, draftVars
<1>2. PICK ran \in SUBSET DOMAIN running : cycle_pool' = Written(ran)
  BY DEF Tick
<1>3. cycle_pool \in [CycleIndices -> [{0, 1} -> Values]] /\ wi \in {0, 1}
  BY <1>1 DEF TypeOK
<1>4. ASSUME NEW i \in CycleIndices
      PROVE  \/ cycle_pool'[i] = cycle_pool[i]
             \/ \E p \in ran : running[p] = Cycle(i) /\ cycle_pool'[i] = [cycle_pool[i] EXCEPT ![wi] = p]
  BY <1>2 DEF Written
<1>5. cycle_pool' \in [CycleIndices -> [{0, 1} -> Values]]
  <2>1. \A p \in ran : p \in Values
    BY <1>1 DEF TypeOK, PartialMaps, Values
  <2>2. \A i \in CycleIndices : cycle_pool'[i] \in [{0, 1} -> Values]
    <3> SUFFICES ASSUME NEW i \in CycleIndices PROVE cycle_pool'[i] \in [{0, 1} -> Values]
      OBVIOUS
    <3>1. cycle_pool[i] \in [{0, 1} -> Values]
      BY <1>3
    <3> QED BY <1>4, <2>1, <3>1
  <2>3. cycle_pool' = [i \in CycleIndices |-> cycle_pool'[i]]
    BY <1>2 DEF Written
  <2> QED BY <2>2, <2>3
<1>6. TypeOK'
  <2>1. wi' \in {0, 1}
    BY <1>1, <1>3
  <2> QED BY <1>1, <1>5, <2>1 DEF TypeOK, Values
<1>7. CyclePartitioned' /\ DraftInv'
  <2>1. Placed' = Placed /\ Held' = Held /\ \A q : PlacedRight(q) => PlacedRight(q)'
    BY <1>1 DEF Placed, Held, PlacedRight, HadCycleSlot
  <2>2. DraftPlaced => DraftPlaced'
    BY <1>1, <2>1 DEF DraftPlaced
  <2>3. (DraftAccounts => DraftAccounts') /\ (DraftZeroes => DraftZeroes')
    BY <1>1, <2>1 DEF DraftAccounts, DraftZeroes
  <2>4. DraftProgress => DraftProgress'
    BY <1>1, <2>1 DEF DraftProgress
  <2>5. CyclePartitioned'
    BY <1>1 DEF CyclePartitioned
  <2> QED BY <1>1, <2>2, <2>3, <2>4, <2>5 DEF DraftInv
<1>8. ChainInv'
  BY <1>1 DEF ChainInv, LastPushed
<1>9. PoolInv'
  <2> SUFFICES ASSUME NEW i \in CycleIndices, NEW h \in {0, 1}, cycle_pool'[i][h] # Silence
               PROVE  \E p \in DOMAIN running : running[p] = Cycle(i) /\ cycle_pool'[i][h] = p
    BY <1>1 DEF PoolInv
  <2>1. CASE cycle_pool'[i][h] = cycle_pool[i][h]
    BY <1>1, <2>1 DEF PoolInv
  <2>2. CASE cycle_pool'[i][h] # cycle_pool[i][h]
    <3>1. PICK p \in ran : running[p] = Cycle(i) /\ cycle_pool'[i] = [cycle_pool[i] EXCEPT ![wi] = p]
      BY <1>4, <2>2
    <3>2. cycle_pool'[i][h] = p
      BY <1>3, <2>2, <3>1
    <3> QED BY <3>1, <3>2
  <2> QED BY <2>1, <2>2
<1> QED BY <1>6, <1>7, <1>8, <1>9 DEF AllocInv

LEMMA AllocInit ==
  ASSUME Init
  PROVE  AllocInv
<1>1. CycleIndices \subseteq Int /\ 0 \in 0 .. CycleCapacity /\ 0 \in 0 .. MaxPlans
      /\ 0 .. 0 - 1 = {}
  BY RegionAssumption, MaxPlansAssumption DEF CycleIndices
<1>2. TypeOK
  <2>1. cycle_pool \in [CycleIndices -> [{0, 1} -> Values]]
    BY DEF Init, Values
  <2>2. plan_ring \in Seq([to_zero : SUBSET Slots, ports : PortMaps]) /\ Len(plan_ring) <= 1
    BY DEF Init
  <2> QED BY <1>1, <2>1, <2>2, EmptyFacts DEF Init, TypeOK, DraftType, PortMaps
<1>3. CyclePartitioned
  BY <1>1, EmptyFacts DEF Init, CyclePartitioned
<1>4. DraftInv /\ PoolInv
  BY DEF Init, DraftInv, PoolInv
<1>5. ChainInv
  BY EmptyFacts DEF Init, ChainInv, LastPushed
<1> QED BY <1>2, <1>3, <1>4, <1>5 DEF AllocInv

LEMMA AllocStep ==
  ASSUME AllocInv, [Next]_vars
  PROVE  AllocInv'
<1>1. CASE Begin
  BY <1>1, BeginStep
<1>2. CASE Sweep
  BY <1>2, SweepPlaceStep, AbandonStep DEF Sweep
<1>3. CASE EndSweep
  BY <1>3, EndSweepStep
<1>4. CASE Reconcile
  BY <1>4, ReconcileStep
<1>5. CASE Commit
  BY <1>5, CommitStep
<1>6. CASE Abandon
  BY <1>6, AbandonStep
<1>7. CASE Push
  BY <1>7, PushStep
<1>8. CASE Adopt
  BY <1>8, AdoptStep
<1>9. CASE Tick
  BY <1>9, TickStep
<1>10. CASE UNCHANGED vars
  <2>1. /\ TypeOK /\ CyclePartitioned /\ DraftInv /\ ChainInv /\ PoolInv
        /\ UNCHANGED <<output_buf, freelist, hwm, stage, patch, todo, gone, draft, builds,
                       plan_ring, running, cycle_pool, wi>>
    BY <1>10 DEF AllocInv, vars
  <2>2. TypeOK' /\ CyclePartitioned' /\ PoolInv'
    BY <2>1 DEF TypeOK, CyclePartitioned, PoolInv
  <2>3. ChainInv'
    BY <2>1 DEF ChainInv, LastPushed
  <2>4. Placed' = Placed /\ Held' = Held /\ \A q : PlacedRight(q) => PlacedRight(q)'
    BY <2>1 DEF Placed, Held, PlacedRight, HadCycleSlot
  <2>5. DraftPlaced => DraftPlaced'
    BY <2>1, <2>4 DEF DraftPlaced
  <2>6. (DraftAccounts => DraftAccounts') /\ (DraftZeroes => DraftZeroes')
    BY <2>1, <2>4 DEF DraftAccounts, DraftZeroes
  <2>7. DraftProgress => DraftProgress'
    BY <2>1, <2>4 DEF DraftProgress
  <2> QED BY <2>1, <2>2, <2>3, <2>5, <2>6, <2>7 DEF AllocInv, DraftInv
<1> QED BY <1>1, <1>2, <1>3, <1>4, <1>5, <1>6, <1>7, <1>8, <1>9, <1>10 DEF Next

-----------------------------------------------------------------------------
(* What holds of every run.                                                 *)

\* The inductive invariant: what a build under way, the plan in the ring and
\* the running plan each know of the slots.
THEOREM AllocInvariant == Spec => []AllocInv
<1>1. Init => AllocInv
  BY AllocInit
<1>2. AllocInv /\ [Next]_vars => AllocInv'
  BY AllocStep
<1> QED BY <1>1, <1>2, PTL DEF Spec

\* No cycle slot is leaked, shared, or left with a sound in it, whichever ports
\* come and go, flip between the regions or find their build abandoned
\* (allocate_buffers and the zeroing in adopt_plan).
THEOREM CycleRegionSound == Spec => []CycleSlots
<1>1. ASSUME AllocInv PROVE CycleSlots
  <2>1. FreeSlotsSilent
    <3> SUFFICES ASSUME NEW i \in CycleIndices, \A p \in DOMAIN running : running[p] # Cycle(i),
                        NEW h \in {0, 1}
                 PROVE  cycle_pool[i][h] = Silence
      BY DEF FreeSlotsSilent
    <3> QED BY <1>1 DEF AllocInv, PoolInv
  <2> QED BY <1>1, <2>1 DEF AllocInv, CycleSlots
<1>2. AllocInv => CycleSlots
  BY <1>1
<1> QED BY <1>2, AllocInvariant, PTL

\* No port hears another port's sound through a recycled slot.
THEOREM NothingForeign == Spec => []NoForeignFeedback
<1>1. ASSUME AllocInv PROVE NoForeignFeedback
  <2> SUFFICES ASSUME NEW p \in DOMAIN running, NEW h \in {0, 1}, running[p].region = "cycle",
                      cycle_pool[running[p].index][h] # Silence
               PROVE  cycle_pool[running[p].index][h] = p
    BY DEF NoForeignFeedback
  <2>1. running \in PortMaps /\ IsInjective(running) /\ PoolInv
    BY <1>1 DEF AllocInv, TypeOK, PortMaps, ChainInv
  <2>2. running[p].index \in CycleIndices /\ running[p] = Cycle(running[p].index)
    BY <2>1, MapFacts
  <2>3. PICK q \in DOMAIN running : running[q] = running[p]
                                    /\ cycle_pool[running[p].index][h] = q
    BY <2>1, <2>2 DEF PoolInv
  <2> QED BY <2>1, <2>3 DEF IsInjective
<1>2. AllocInv => NoForeignFeedback
  BY <1>1
<1> QED BY <1>2, AllocInvariant, PTL

\* A feedback cable on both sides of a swap keeps its slot and both its values.
THEOREM FeedbackSurvives == Spec => FeedbackContinuous
<1> DEFINE Kept ==
             Adopt => \A p \in DOMAIN running \cap DOMAIN running' :
               /\ running[p].region = "cycle"
               /\ running'[p].region = "cycle"
               => /\ running'[p] = running[p]
                  /\ cycle_pool'[running[p].index] = cycle_pool[running[p].index]
<1>1. ASSUME AllocInv, [Next]_vars PROVE Kept
  <2> SUFFICES ASSUME Adopt, NEW p \in DOMAIN running \cap DOMAIN running',
                      running[p].region = "cycle", running'[p].region = "cycle"
               PROVE  /\ running'[p] = running[p]
                      /\ cycle_pool'[running[p].index] = cycle_pool[running[p].index]
    OBVIOUS
  <2> DEFINE plan == Head(plan_ring)
  <2>1. plan_ring # <<>> /\ running' = plan.ports
    BY DEF Adopt
  <2>2. /\ running \in PortMaps /\ plan.ports \in PortMaps
        /\ PlanOver(running, plan.ports, plan.to_zero)
    BY <1>1, <2>1, PlanFacts
  <2> HIDE DEF plan
  <2>3. p \in CyclePorts(running) /\ p \in CyclePorts(plan.ports)
    BY <2>1 DEF CyclePorts
  <2>4. plan.ports[p] = running[p] /\ plan.ports[p] \notin plan.to_zero
    BY <2>2, <2>3 DEF PlanOver
  <2>5. running[p].index \in CycleIndices /\ running[p] = Cycle(running[p].index)
    BY <2>2, <2>3, MapFacts
  <2>6. cycle_pool'[running[p].index] = cycle_pool[running[p].index]
    BY <1>1, <2>4, <2>5, ZeroedFacts DEF plan
  <2> QED BY <2>1, <2>4, <2>6
<1>2. AllocInv /\ [Next]_vars => [Kept]_vars
  BY <1>1
<1>3. Spec => [][Kept]_vars
  BY <1>2, AllocInvariant, PTL DEF Spec
<1> QED BY <1>3, PTL DEF FeedbackContinuous

\* When a build is refused no slot is free or lost: each slot of the region is
\* used by a delayed port the sweep has placed, or still held by an old one, and
\* the port that was refused is one more.
LEMMA RefusedMeansFull ==
  ASSUME AllocInv, CycleExhausted
  PROVE  Cardinality(CyclePorts(output_buf) \cup {p \in DOMAIN patch : patch[p]})
           > CycleCapacity
<1> DEFINE S == CyclePorts(output_buf) \cup {p \in DOMAIN patch : patch[p]}
           head == Head(todo)
           used == CycleUsed(draft.output_buf)
<1>1. /\ TypeOK /\ DraftPlaced /\ DraftAccounts /\ stage = "sweep" /\ todo # <<>>
      /\ patch[head] /\ ~HadCycleSlot(head) /\ draft.freelist = <<>>
      /\ draft.hwm >= CycleCapacity
  BY DEF AllocInv, DraftInv, CycleExhausted
<1>2. /\ output_buf \in PortMaps /\ draft.output_buf \in PortMaps
      /\ draft.hwm \in 0 .. CycleCapacity /\ DOMAIN patch \subseteq Ports
  BY <1>1, BuildTypes
<1>3. head \in DOMAIN patch /\ head \notin Placed
  BY <1>1, NextPort
<1>4. used \cup Held = CycleIndices
  <2>1. Range(draft.freelist) = {}
    BY <1>1, EmptyFacts
  <2>2. draft.hwm = CycleCapacity
    BY <1>1, <1>2, RegionAssumption
  <2> QED BY <1>1, <2>1, <2>2 DEF DraftAccounts, CycleIndices
<1>5. IsFiniteSet(S) /\ Cardinality(S) \in Nat
  <2>1. S \subseteq Ports
    BY <1>2, MapFacts
  <2> QED BY <2>1, FinitePorts, FS_Subset, FS_CardinalityType
<1>6. head \in S
  BY <1>1, <1>3
<1>7. /\ \A i \in used : \E p \in CyclePorts(draft.output_buf) : draft.output_buf[p].index = i
      /\ \A i \in Held : \E p \in CyclePorts(output_buf) : output_buf[p].index = i
  BY DEF CycleUsed, Held
<1> DEFINE owner == [i \in CycleIndices |->
             IF i \in used
             THEN CHOOSE p \in CyclePorts(draft.output_buf) : draft.output_buf[p].index = i
             ELSE CHOOSE p \in CyclePorts(output_buf) : output_buf[p].index = i]
<1>8. ASSUME NEW i \in used
      PROVE  /\ owner[i] \in CyclePorts(draft.output_buf)
             /\ draft.output_buf[owner[i]].index = i /\ draft.output_buf[owner[i]] = Cycle(i)
  <2>1. owner[i] \in CyclePorts(draft.output_buf) /\ draft.output_buf[owner[i]].index = i
    BY <1>4, <1>7
  <2> HIDE DEF owner
  <2> QED BY <1>2, <2>1, MapFacts
<1>9. ASSUME NEW i \in CycleIndices \ used
      PROVE  /\ owner[i] \in CyclePorts(output_buf) /\ i \in Held
             /\ output_buf[owner[i]].index = i /\ output_buf[owner[i]] = Cycle(i)
  <2>1. owner[i] \in CyclePorts(output_buf) /\ output_buf[owner[i]].index = i /\ i \in Held
    BY <1>4, <1>7
  <2> HIDE DEF owner
  <2> QED BY <1>2, <2>1, MapFacts
<1>10. owner = [i \in CycleIndices |-> owner[i]]
  OBVIOUS
<1> HIDE DEF owner, used, head
\* A placed port with a cycle slot is delayed; one that had a slot kept it.
<1>11. ASSUME NEW p \in CyclePorts(draft.output_buf)
       PROVE  /\ p \in S /\ p # head
              /\ p \in CyclePorts(output_buf) => draft.output_buf[p] = output_buf[p]
  <2>1. p \in Placed /\ PlacedRight(p) /\ draft.output_buf[p].region = "cycle"
    BY <1>1 DEF CyclePorts, Placed, DraftPlaced
  <2>2. patch[p] /\ p \in DOMAIN patch
    BY <2>1 DEF PlacedRight
  <2> QED BY <1>3, <2>1, <2>2 DEF PlacedRight, HadCycleSlot
<1>12. \A i \in CycleIndices : owner[i] \in S \ {head}
  <2>1. \A i \in used : owner[i] \in S \ {head}
    BY <1>8, <1>11
  <2>2. \A i \in CycleIndices \ used : owner[i] \in S \ {head}
    BY <1>1, <1>9 DEF HadCycleSlot
  <2> QED BY <2>1, <2>2
<1>13. ASSUME NEW i \in CycleIndices, NEW j \in CycleIndices, owner[i] = owner[j]
       PROVE  i = j
  <2>1. CASE i \in used /\ j \in used
    BY <1>8, <1>13, <2>1
  <2>2. CASE i \notin used /\ j \notin used
    BY <1>9, <1>13, <2>2
  <2>3. \A k, l \in CycleIndices : k \in used /\ l \notin used /\ owner[k] = owner[l] => k = l
    <3> SUFFICES ASSUME NEW k \in used, NEW l \in CycleIndices \ used, owner[k] = owner[l]
                 PROVE  k = l
      OBVIOUS
    <3>1. draft.output_buf[owner[k]].index = k /\ output_buf[owner[k]].index = l
          /\ owner[k] \in CyclePorts(draft.output_buf) /\ owner[k] \in CyclePorts(output_buf)
      BY <1>8, <1>9
    <3> QED BY <1>11, <3>1
  <2> QED BY <1>13, <2>1, <2>2, <2>3
<1>14. owner \in Injection(CycleIndices, S \ {head})
  BY <1>10, <1>12, <1>13 DEF Injection, IsInjective
<1> HIDE DEF S
<1>15. /\ IsFiniteSet(S \ {head}) /\ Cardinality(S \ {head}) = Cardinality(S) - 1
  BY <1>5, <1>6, FS_RemoveElement
<1>16. Cardinality(CycleIndices) <= Cardinality(S \ {head})
  BY <1>14, <1>15, FS_Injection
<1>17. Cardinality(CycleIndices) = CycleCapacity
  BY FS_Interval, RegionAssumption DEF CycleIndices
<1>18. Cardinality(S) > CycleCapacity
  BY <1>5, <1>15, <1>16, <1>17, RegionAssumption
<1> QED BY <1>18 DEF S

\* A build is refused for want of a cycle slot only if the old and the new
\* delayed ports outnumber the region (PlanError::BufferPoolExhausted).
THEOREM RefusedOnlyIfFull == Spec => ExhaustedOnlyIfFull
<1> DEFINE Full == CycleExhausted =>
             Cardinality(CyclePorts(output_buf) \cup {p \in DOMAIN patch : patch[p]})
               > CycleCapacity
<1>1. AllocInv => Full
  BY RefusedMeansFull
<1>2. AllocInv /\ [Next]_vars => [Full]_vars
  BY <1>1
<1>3. Spec => [][Full]_vars
  BY <1>2, AllocInvariant, PTL DEF Spec
<1> QED BY <1>3, PTL DEF ExhaustedOnlyIfFull

=============================================================================
