--------------------------- MODULE CableFusionProofs ---------------------------
(***************************************************************************)
(* Tarjan's loop finds the components of every patch, the validators never *)
(* fire, and every read of a tick is on time: CableFusion for any number   *)
(* of modules, outputs and cables.                                         *)
(*                                                                         *)
(* SearchInv is about the search.  It compares nodes by their index alone: *)
(* the stack holds its nodes in the order they were visited, the work path *)
(* is a path of cables through it, and a node of the stack reaches, and is *)
(* reached from, the node of the path below it.  PlanInv carries what the  *)
(* condensation found into the plan, where the components are forgotten;   *)
(* TickInv says how old every half of every slot is.                       *)
(***************************************************************************)
EXTENDS CableFusion, TLAPS, FiniteSetTheorems, SequenceTheorems

On == ToSet(stack)
Path == DOMAIN work
Closes(v) == scc_id[v] # Unset

SearchTypes ==
  /\ cables \subseteq Cables
  /\ index \in [Nodes -> -1 .. NodeCount - 1]
  /\ lowlink \in [Nodes -> 0 .. NodeCount - 1]
  /\ stack \in Seq(Nodes) /\ work \in Seq(Nodes)
  /\ left \in [Nodes -> SUBSET cables]
  /\ scc_id \in [Nodes -> -1 .. NodeCount - 1]

\* The numbers given so far: distinct and dense, on the stack in their order.
Numbering ==
  /\ \A v \in Nodes : index[v] < NextIndex
  /\ \A v, w \in Nodes : Visited(v) /\ index[v] = index[w] => v = w
  /\ \A i, j \in DOMAIN stack : i < j => index[stack[i]] < index[stack[j]]
  /\ \A i, j \in Path : i < j => index[work[i]] < index[work[j]]
  /\ \A i \in Path : work[i] \in On
  /\ \A v \in Nodes : v \in On <=> Visited(v) /\ ~Closes(v)
  /\ \A v \in Nodes : Closes(v) => Visited(v)

\* The work path is a path; every node of the stack is mutually reachable with
\* the last node of the path that was visited no later than it.
Connected ==
  /\ \A i, j \in Path : i < j => Reaches(work[i], work[j])
  /\ \A u \in On : \E i \in Path : index[work[i]] <= index[u] /\ Reaches(u, work[i])
  /\ \A u \in On, i \in Path : index[work[i]] <= index[u] => Reaches(work[i], u)

\* Segment i of the stack: the nodes visited since work[i], up to the next of the path.
InSegment(u, i) ==
  /\ index[work[i]] <= index[u]
  /\ \A j \in Path : i < j => index[u] < index[work[j]]

\* The lowlink of a node of the path names a node it reaches, and bounds from
\* below what the cables followed so far out of its segment lead to.
Lowlinks ==
  /\ \A i \in Path :
       /\ lowlink[work[i]] <= index[work[i]]
       /\ \E x \in On : index[x] = lowlink[work[i]] /\ Reaches(work[i], x)
  /\ \A u \in On, i \in Path : InSegment(u, i) =>
       \A c \in cables : c.from = u /\ c \notin left[u] /\ c.to \in On =>
         lowlink[work[i]] <= index[c.to]

\* What is left to follow.
Following ==
  /\ \A v \in Nodes : left[v] \subseteq CablesFrom(v)
  /\ \A v \in Nodes : ~Visited(v) => left[v] = CablesFrom(v)
  /\ \A v \in Nodes : Visited(v) /\ v \notin ToSet(work) => left[v] = {}
  /\ \A c \in cables : c \notin left[c.from] => Visited(c.to)

\* The nodes of the first k + 1 components.
UpTo(k) == {v \in Nodes : Closes(v) /\ scc_id[v] <= k}

\* The components closed so far: no cable leads to a later one or out of them.
ClosedRight ==
  /\ \A v \in Nodes : scc_id[v] < SccCount
  /\ \A v, w \in Nodes : Closes(v) /\ scc_id[v] = scc_id[w] => Reaches(v, w)
  /\ \A k \in Nat : Closed(UpTo(k))

SearchInv ==
  stage = "search" =>
    /\ SearchTypes /\ Numbering /\ Connected /\ Lowlinks /\ Following /\ ClosedRight

-----------------------------------------------------------------------------
(* Reachability by closed sets.                                             *)

LEMMA ReachesRefl == \A v \in Nodes : Reaches(v, v)
  BY DEF Reaches

LEMMA ReachesTrans ==
  \A u, v, w \in Nodes : Reaches(u, v) /\ Reaches(v, w) => Reaches(u, w)
  BY DEF Reaches

LEMMA ReachesEdge ==
  ASSUME cables \subseteq Cables
  PROVE  \A c \in cables : c.from \in Nodes /\ c.to \in Nodes /\ Reaches(c.from, c.to)
  BY DEF Reaches, Closed, Cables

\* What a closed set reaches it holds.
LEMMA ReachesInside ==
  ASSUME NEW S \in SUBSET Nodes, Closed(S), NEW v \in S, NEW w, Reaches(v, w)
  PROVE  w \in S
  BY DEF Reaches

\* Reachability depends on the cables alone, which never change.
LEMMA ReachesKept ==
  ASSUME UNCHANGED cables
  PROVE  /\ \A v, w : Reaches(v, w)' <=> Reaches(v, w)
         /\ \A S : Closed(S)' <=> Closed(S)
  BY DEF Reaches, Closed

-----------------------------------------------------------------------------
(* Sequences and numbers.                                                   *)

LEMMA AppendFacts ==
  ASSUME NEW s \in Seq(Nodes), NEW v \in Nodes
  PROVE  /\ Append(s, v) \in Seq(Nodes)
         /\ Len(s) \in Nat /\ DOMAIN s = 1 .. Len(s)
         /\ DOMAIN Append(s, v) = 1 .. Len(s) + 1
         /\ \A i \in 1 .. Len(s) : Append(s, v)[i] = s[i] /\ s[i] \in Nodes
         /\ Append(s, v)[Len(s) + 1] = v
         /\ ToSet(Append(s, v)) = ToSet(s) \cup {v}
<1>1. /\ Append(s, v) \in Seq(Nodes)
      /\ Len(s) \in Nat /\ DOMAIN s = 1 .. Len(s)
      /\ DOMAIN Append(s, v) = 1 .. Len(s) + 1
      /\ \A i \in 1 .. Len(s) : Append(s, v)[i] = s[i] /\ s[i] \in Nodes
      /\ Append(s, v)[Len(s) + 1] = v
  OBVIOUS
<1>2. ToSet(Append(s, v)) = ToSet(s) \cup {v}
  BY <1>1 DEF ToSet
<1> QED BY <1>1, <1>2

LEMMA FrontFacts ==
  ASSUME NEW s \in Seq(Nodes), s # <<>>
  PROVE  /\ Len(s) \in Nat \ {0} /\ DOMAIN s = 1 .. Len(s)
         /\ Last(s) = s[Len(s)] /\ Last(s) \in Nodes
         /\ Front(s) \in Seq(Nodes) /\ DOMAIN Front(s) = 1 .. Len(s) - 1
         /\ Len(Front(s)) = Len(s) - 1
         /\ \A i \in 1 .. Len(s) - 1 : Front(s)[i] = s[i]
<1>1. Len(s) \in Nat \ {0} /\ DOMAIN s = 1 .. Len(s)
      /\ \A i \in 1 .. Len(s) : s[i] \in Nodes
  OBVIOUS
<1>2. /\ Front(s) \in Seq(Nodes) /\ Len(Front(s)) = Len(s) - 1
      /\ \A i \in 1 .. Len(s) - 1 : Front(s)[i] = s[i]
  BY <1>1, SubSeqProperties, SMT DEF Front
<1> QED BY <1>1, <1>2 DEF Last

LEMMA NodesFinite == IsFiniteSet(Nodes) /\ Cardinality(Nodes) = NodeCount /\ NodeCount \in Nat
  BY NodeCountAssumption, FS_Interval DEF Nodes

\* There is a number left for a node that has none.
LEMMA NextIndexFree ==
  /\ NextIndex \in Nat
  /\ \A v \in Nodes : ~Visited(v) => NextIndex < NodeCount
<1> DEFINE visited == {v \in Nodes : Visited(v)}
<1>1. /\ IsFiniteSet(visited) /\ Cardinality(visited) \in Nat
      /\ Cardinality(visited) <= NodeCount
      /\ (Cardinality(visited) = NodeCount => visited = Nodes)
  BY NodesFinite, FS_Subset, FS_CardinalityType
<1> QED BY <1>1, NodesFinite DEF NextIndex

LEMMA NextIndexGrows ==
  ASSUME index \in [Nodes -> -1 .. NodeCount - 1], NEW v \in Nodes, ~Visited(v),
         index' = [index EXCEPT ![v] = NextIndex]
  PROVE  NextIndex' = NextIndex + 1
<1> DEFINE visited == {u \in Nodes : Visited(u)}
<1>1. NextIndex # Unset
  BY NextIndexFree DEF Unset
<1>2. {u \in Nodes : Visited(u)'} = visited \cup {v}
  BY <1>1 DEF Visited
<1>3. IsFiniteSet(visited) /\ v \notin visited
  BY NodesFinite, FS_Subset
<1>4. Cardinality(visited \cup {v}) = Cardinality(visited) + 1
  BY <1>3, FS_AddElement
<1> QED BY <1>2, <1>4 DEF NextIndex

LEMMA SearchInit == Init => SearchInv
<1> SUFFICES ASSUME Init PROVE SearchInv OBVIOUS
<1>0. \A v \in Nodes : index[v] = Unset /\ scc_id[v] = Unset
  BY DEF Init, AllUnset
<1>1. SearchTypes
  <2>1. \A v \in Nodes : CablesFrom(v) \in SUBSET cables
    BY DEF CablesFrom
  <2> QED BY <2>1, NodesFinite, NodeCountAssumption DEF Init, SearchTypes, AllUnset, Unset
<1>2. On = {} /\ Path = {}
  BY DEF Init, On, Path, ToSet
<1>3. Numbering
  BY <1>0, <1>2, NextIndexFree DEF Numbering, Visited, Closes, Unset, Init
<1>4. Connected /\ Lowlinks
  BY <1>2 DEF Connected, Lowlinks
<1>5. Following
  BY <1>0, ReachesEdge, <1>1 DEF Following, Visited, Init, CablesFrom, SearchTypes
<1>6. ClosedRight
  <2>1. SccCount = 0
    <3>1. {scc_id[v] : v \in Nodes} \ {Unset} = {}
      BY <1>0
    <3> QED BY <3>1, FS_EmptySet DEF SccCount
  <2>2. \A k \in Nat : UpTo(k) = {}
    BY <1>0 DEF UpTo, Closes
  <2>3. Closed({})
    BY DEF Closed
  <2>4. \A v \in Nodes : scc_id[v] < SccCount /\ ~Closes(v)
    BY <1>0, <2>1 DEF Closes, Unset
  <2>5. \A k \in Nat : Closed(UpTo(k))
    BY <2>2, <2>3
  <2> QED BY <2>4, <2>5 DEF ClosedRight
<1> QED BY <1>1, <1>3, <1>4, <1>5, <1>6 DEF SearchInv

-----------------------------------------------------------------------------
(* A node is visited: from nowhere, or by a cable from the top of the path.  *)

\* What becomes of the numbers, the path and the stack.
NumberedNow(v) ==
  /\ index'[v] = NextIndex /\ NextIndex' = NextIndex + 1 /\ NextIndex \in Nat
  /\ \A u \in Nodes : u # v => index'[u] = index[u]
  /\ \A u \in Nodes : index[u] \in Int /\ index[u] < NextIndex
  /\ \A u \in Nodes : Visited(u)' <=> Visited(u) \/ u = v
PathNow(v) ==
  /\ Len(work) \in Nat /\ Path = 1 .. Len(work) /\ Path' = 1 .. Len(work) + 1
  /\ work'[Len(work) + 1] = v
  /\ \A i \in Path : /\ work'[i] = work[i] /\ work[i] \in Nodes /\ work[i] # v
                     /\ work[i] \in On
StackNow(v) ==
  /\ \A u : u \in On' <=> u \in On \/ u = v
  /\ \A u \in On : u \in Nodes /\ u # v /\ Visited(u)

LEMMA VisitFacts ==
  ASSUME SearchTypes, Numbering, NEW v \in Nodes, ~Visited(v), Visit(v), UNCHANGED scc_id
  PROVE  NumberedNow(v) /\ PathNow(v) /\ StackNow(v)
<1>1. NextIndex \in 0 .. NodeCount - 1
  BY NextIndexFree, NodesFinite
<1>2. NextIndex' = NextIndex + 1
  BY NextIndexGrows DEF Visit, SearchTypes
<1>3. index'[v] = NextIndex /\ \A u \in Nodes : u # v => index'[u] = index[u]
  BY <1>1 DEF Visit, SearchTypes
<1>4. \A u \in Nodes : Visited(u)' <=> Visited(u) \/ u = v
  BY <1>1, <1>3 DEF Visited, Unset
<1>5. \A u \in Nodes : index[u] \in Int /\ index[u] < NextIndex
  BY DEF Numbering, SearchTypes
<1>6. NumberedNow(v)
  BY <1>1, <1>2, <1>3, <1>4, <1>5 DEF NumberedNow
<1>7. On' = On \cup {v}
  BY AppendFacts DEF Visit, SearchTypes, On
<1>8. \A u \in On : u \in Nodes /\ Visited(u)
  BY DEF Numbering, SearchTypes, On, ToSet
<1>9. StackNow(v)
  BY <1>7, <1>8 DEF StackNow
<1>10. /\ Len(work) \in Nat /\ Path = 1 .. Len(work)
       /\ Path' = 1 .. Len(work) + 1 /\ work'[Len(work) + 1] = v
       /\ \A i \in Path : work'[i] = work[i] /\ work[i] \in Nodes
  <2>1. work \in Seq(Nodes) /\ work' = Append(work, v)
    BY DEF SearchTypes, Visit
  <2> QED BY <2>1, AppendFacts DEF Path
<1>11. \A i \in Path : work[i] \in On
  BY DEF Numbering
<1>12. PathNow(v)
  BY <1>8, <1>10, <1>11 DEF PathNow
<1> QED BY <1>6, <1>9, <1>12

LEMMA VisitTypes ==
  ASSUME SearchTypes, NEW v \in Nodes, ~Visited(v), Visit(v), UNCHANGED <<cables, scc_id>>,
         left' \in [Nodes -> SUBSET cables]
  PROVE  SearchTypes'
<1>1. NextIndex \in 0 .. NodeCount - 1
  BY NextIndexFree, NodesFinite
<1>2. index' \in [Nodes -> -1 .. NodeCount - 1] /\ lowlink' \in [Nodes -> 0 .. NodeCount - 1]
  BY <1>1 DEF Visit, SearchTypes
<1>3. stack' \in Seq(Nodes) /\ work' \in Seq(Nodes)
  BY AppendFacts DEF Visit, SearchTypes
<1> QED BY <1>2, <1>3 DEF SearchTypes

LEMMA VisitNumbers ==
  ASSUME SearchTypes, Numbering, NEW v \in Nodes, ~Visited(v), Visit(v), UNCHANGED scc_id
  PROVE  Numbering'
<1>0. NumberedNow(v) /\ PathNow(v) /\ StackNow(v)
  BY VisitFacts
<1>1. \A u \in Nodes : index'[u] < NextIndex'
  BY <1>0 DEF NumberedNow
<1>2. \A u, w \in Nodes : Visited(u)' /\ index'[u] = index'[w] => u = w
  BY <1>0 DEF NumberedNow, Numbering
<1>3. \A i, j \in DOMAIN stack' : i < j => index'[stack'[i]] < index'[stack'[j]]
  <2>1. /\ Len(stack) \in Nat /\ DOMAIN stack = 1 .. Len(stack)
        /\ DOMAIN stack' = 1 .. Len(stack) + 1 /\ stack'[Len(stack) + 1] = v
        /\ \A i \in DOMAIN stack : stack'[i] = stack[i] /\ stack[i] \in On
    <3>1. stack \in Seq(Nodes) /\ stack' = Append(stack, v)
      BY DEF SearchTypes, Visit
    <3> QED BY <3>1, AppendFacts DEF On, ToSet
  <2>2. \A i, j \in DOMAIN stack : i < j => index[stack[i]] < index[stack[j]]
    BY DEF Numbering
  <2> QED BY <1>0, <2>1, <2>2 DEF NumberedNow, StackNow
<1>4. \A i, j \in Path' : i < j => index'[work'[i]] < index'[work'[j]]
  <2>1. \A i, j \in Path : i < j => index[work[i]] < index[work[j]]
    BY DEF Numbering
  <2> QED BY <1>0, <2>1 DEF NumberedNow, PathNow
<1>5. \A i \in Path' : work'[i] \in On'
  BY <1>0 DEF PathNow, StackNow
<1>6. \A u \in Nodes : u \in On' <=> Visited(u)' /\ ~Closes(u)'
  BY <1>0 DEF NumberedNow, StackNow, Numbering, Closes
<1>7. \A u \in Nodes : Closes(u)' => Visited(u)'
  BY <1>0 DEF NumberedNow, Numbering, Closes
<1> QED BY <1>1, <1>2, <1>3, <1>4, <1>5, <1>6, <1>7 DEF Numbering

\* It becomes the end of the path, by itself.
LEMMA VisitConnects ==
  ASSUME SearchTypes, Numbering, Connected, NEW v \in Nodes, ~Visited(v), Visit(v),
         UNCHANGED <<cables, scc_id>>, work # <<>> => Reaches(Top, v)
  PROVE  Connected'
<1>0. NumberedNow(v) /\ PathNow(v) /\ StackNow(v)
  BY VisitFacts
<1>1. \A i \in Path : Reaches(work[i], v)
  <2> SUFFICES ASSUME NEW i \in Path PROVE Reaches(work[i], v) OBVIOUS
  <2>1. work # <<>> /\ Top = work[Len(work)] /\ Len(work) \in Path
    <3>1. work \in Seq(Nodes) /\ work # <<>>
      BY DEF SearchTypes, Path
    <3> QED BY <3>1, FrontFacts DEF Path, Top
  <2>2. i = Len(work) \/ Reaches(work[i], work[Len(work)])
    BY <1>0, <2>1 DEF Connected, PathNow
  <2> QED BY <1>0, <2>1, <2>2, ReachesTrans DEF PathNow
<1>2. \A i, j \in Path' : i < j => Reaches(work'[i], work'[j])
  BY <1>0, <1>1 DEF Connected, PathNow
<1>3. \A u \in On' : \E i \in Path' : index'[work'[i]] <= index'[u] /\ Reaches(u, work'[i])
  <2> SUFFICES ASSUME NEW u \in On'
               PROVE \E i \in Path' : index'[work'[i]] <= index'[u] /\ Reaches(u, work'[i])
    OBVIOUS
  <2>1. CASE u = v
    <3>1. Len(work) + 1 \in Path' /\ work'[Len(work) + 1] = u
      BY <1>0, <2>1 DEF PathNow
    <3>2. index'[u] <= index'[u] /\ Reaches(u, u)
      BY <1>0, <2>1, ReachesRefl DEF NumberedNow
    <3> QED BY <3>1, <3>2
  <2>2. CASE u \in On
    <3>1. PICK i \in Path : index[work[i]] <= index[u] /\ Reaches(u, work[i])
      BY <2>2 DEF Connected
    <3>2. i \in Path' /\ work'[i] = work[i]
      BY <1>0 DEF PathNow
    <3>3. index'[work[i]] = index[work[i]] /\ index'[u] = index[u]
      BY <1>0, <2>2 DEF NumberedNow, PathNow, StackNow
    <3> QED BY <3>1, <3>2, <3>3
  <2> QED BY <1>0, <2>1, <2>2 DEF StackNow
<1>4. \A u \in On', i \in Path' : index'[work'[i]] <= index'[u] => Reaches(work'[i], u)
  <2> SUFFICES ASSUME NEW u \in On', NEW i \in Path', index'[work'[i]] <= index'[u]
               PROVE  Reaches(work'[i], u)
    OBVIOUS
  <2>1. CASE u = v
    BY <1>0, <1>1, <2>1, ReachesRefl DEF PathNow
  <2>2. CASE u # v /\ i = Len(work) + 1
    BY <1>0, <2>2 DEF PathNow, NumberedNow, StackNow
  <2>3. CASE u # v /\ i \in Path
    BY <1>0, <2>3 DEF PathNow, NumberedNow, StackNow, Connected
  <2> QED BY <1>0, <2>1, <2>2, <2>3 DEF PathNow
<1>5. \A u, w : Reaches(u, w)' <=> Reaches(u, w)
  BY ReachesKept
<1> QED BY <1>2, <1>3, <1>4, <1>5 DEF Connected

LEMMA ClosedKept ==
  ASSUME ClosedRight, UNCHANGED <<cables, scc_id>>
  PROVE  ClosedRight'
<1>1. \A u, w : Reaches(u, w)' <=> Reaches(u, w)
  BY ReachesKept
<1>2. \A k : Closed(UpTo(k))' <=> Closed(UpTo(k))
  BY DEF Closed, UpTo, Closes
<1>3. SccCount' = SccCount
  BY DEF SccCount
<1> QED BY <1>1, <1>2, <1>3 DEF ClosedRight, Closes

\* What was left is left, but for the cable from the top that was just followed to v.
FollowedTo(v) ==
  /\ left' \in [Nodes -> SUBSET cables]
  /\ \A u \in Nodes : left'[u] = left[u] \/ (work # <<>> /\ u = Top /\ left'[u] \subseteq left[u])
  /\ \A c \in cables :
       c \notin left'[c.from] =>
         c \notin left[c.from] \/ (work # <<>> /\ c.from = Top /\ c.to = v)

LEMMA TopFacts ==
  ASSUME SearchTypes, Numbering, work # <<>>
  PROVE  /\ Len(work) \in Nat \ {0} /\ Path = 1 .. Len(work) /\ Top = work[Len(work)]
         /\ Top \in Nodes /\ Top \in On /\ Visited(Top) /\ ~Closes(Top)
         /\ \A i \in Path : i # Len(work) => index[work[i]] < index[Top]
         /\ \A i \in Path : work[i] \in Nodes /\ work[i] \in On
         /\ \A i \in Path : index[work[i]] <= index[Top]
<1>1. work \in Seq(Nodes)
  BY DEF SearchTypes
<1>2. /\ Len(work) \in Nat \ {0} /\ Path = 1 .. Len(work) /\ Top = work[Len(work)]
      /\ Top \in Nodes
  BY <1>1, FrontFacts DEF Path, Top
<1>3. \A i \in Path : work[i] \in On /\ work[i] \in Nodes
  BY <1>1, <1>2 DEF Numbering, Path
<1>4. \A i \in Path : i # Len(work) => index[work[i]] < index[Top]
  BY <1>2 DEF Numbering
<1>5. \A v \in Nodes : index[v] \in Int
  BY DEF SearchTypes
<1>6. \A i \in Path : index[work[i]] <= index[Top]
  BY <1>2, <1>3, <1>4, <1>5
<1>7. Top \in On
  BY <1>2, <1>3
<1>8. Visited(Top) /\ ~Closes(Top)
  BY <1>2, <1>7 DEF Numbering
<1> QED BY <1>2, <1>3, <1>4, <1>6, <1>7, <1>8

LEMMA VisitFollows ==
  ASSUME SearchTypes, Numbering, Following, NEW v \in Nodes, ~Visited(v), Visit(v),
         UNCHANGED <<cables, scc_id>>, FollowedTo(v)
  PROVE  Following'
<1>0. NumberedNow(v) /\ PathNow(v) /\ StackNow(v)
  BY VisitFacts
<1>1. \A u \in Nodes : CablesFrom(u)' = CablesFrom(u)
  BY DEF CablesFrom
<1>2. \A u \in Nodes : left'[u] \subseteq left[u]
  BY DEF FollowedTo
<1>3. \A u \in Nodes : ~Visited(u) => left'[u] = left[u]
  BY TopFacts DEF FollowedTo
<1>4. \A u \in Nodes : left'[u] \subseteq CablesFrom(u)'
  BY <1>1, <1>2 DEF Following
<1>5. \A u \in Nodes : ~Visited(u)' => left'[u] = CablesFrom(u)'
  BY <1>0, <1>1, <1>3 DEF Following, NumberedNow
<1>6. \A u \in Nodes : Visited(u)' /\ u \notin ToSet(work') => left'[u] = {}
  <2>1. ToSet(work') = ToSet(work) \cup {v}
    <3>1. work \in Seq(Nodes) /\ work' = Append(work, v)
      BY DEF SearchTypes, Visit
    <3> QED BY <3>1, AppendFacts
  <2>2. \A u \in Nodes : Visited(u) /\ u \notin ToSet(work) => left[u] = {}
    BY DEF Following
  <2> QED BY <1>0, <1>2, <2>1, <2>2 DEF NumberedNow
<1>7. \A c \in cables : c.from \in Nodes /\ c.to \in Nodes
  BY ReachesEdge DEF SearchTypes
<1>8. \A c \in cables' : c \notin left'[c.from] => Visited(c.to)'
  BY <1>0, <1>7 DEF Following, FollowedTo, NumberedNow
<1> QED BY <1>4, <1>5, <1>6, <1>8 DEF Following

LEMMA VisitLowlinks ==
  ASSUME SearchTypes, Numbering, Lowlinks, Following, NEW v \in Nodes, ~Visited(v), Visit(v),
         UNCHANGED <<cables, scc_id>>, FollowedTo(v)
  PROVE  Lowlinks'
<1>0. NumberedNow(v) /\ PathNow(v) /\ StackNow(v)
  BY VisitFacts
<1>1. lowlink'[v] = NextIndex /\ \A u \in Nodes : u # v => lowlink'[u] = lowlink[u]
  <2>1. NextIndex \in 0 .. NodeCount - 1
    BY NextIndexFree, NodesFinite
  <2> QED BY <2>1 DEF Visit, SearchTypes
<1>2. \A u, w : Reaches(u, w)' <=> Reaches(u, w)
  BY ReachesKept
<1>3. ASSUME NEW i \in Path'
      PROVE  /\ lowlink'[work'[i]] <= index'[work'[i]]
             /\ \E x \in On' : index'[x] = lowlink'[work'[i]] /\ Reaches(work'[i], x)
  <2>1. CASE i = Len(work) + 1
    <3>1. work'[i] = v /\ v \in On' /\ lowlink'[v] = index'[v] /\ Reaches(v, v)
      BY <1>0, <1>1, <2>1, ReachesRefl DEF PathNow, NumberedNow, StackNow
    <3>2. index'[v] <= index'[v]
      BY <1>0 DEF NumberedNow
    <3> QED BY <3>1, <3>2
  <2>2. CASE i \in Path
    <3>1. /\ lowlink[work[i]] <= index[work[i]] /\ work'[i] = work[i]
          /\ lowlink'[work[i]] = lowlink[work[i]] /\ index'[work[i]] = index[work[i]]
      BY <1>0, <1>1, <2>2 DEF Lowlinks, PathNow, NumberedNow
    <3>2. PICK x \in On : index[x] = lowlink[work[i]] /\ Reaches(work[i], x)
      BY <2>2 DEF Lowlinks
    <3>3. x \in On' /\ index'[x] = index[x]
      BY <1>0 DEF StackNow, NumberedNow
    <3> QED BY <3>1, <3>2, <3>3
  <2> QED BY <1>0, <2>1, <2>2 DEF PathNow
<1>4. ASSUME NEW u \in On', NEW i \in Path', InSegment(u, i)',
             NEW c \in cables, c.from = u, c \notin left'[u], c.to \in On'
      PROVE  lowlink'[work'[i]] <= index'[c.to]
  <2>1. c.to \in Nodes
    BY ReachesEdge DEF SearchTypes
  <2>2. u # v
    <3>1. v # Top \/ work = <<>>
      BY TopFacts
    <3>2. left'[v] = left[v]
      BY <3>1 DEF FollowedTo
    <3> QED BY <1>4, <3>2 DEF Following, CablesFrom
  <2>3. u \in On /\ u \in Nodes
    BY <1>0, <2>2 DEF StackNow
  <2>4. i \in Path
    <3>1. index'[work'[i]] <= index'[u]
      BY <1>4 DEF InSegment
    <3>2. index'[u] < NextIndex /\ NextIndex \in Int /\ index'[v] = NextIndex
      BY <1>0, <2>2, <2>3 DEF NumberedNow
    <3>3. i # Len(work) + 1
      BY <1>0, <3>1, <3>2, <2>3 DEF PathNow, NumberedNow
    <3> QED BY <1>0, <3>3 DEF PathNow
  <2>5. lowlink'[work'[i]] = lowlink[work[i]] /\ work[i] \in Nodes
    BY <1>0, <1>1, <2>4 DEF PathNow
  <2>6. CASE c.to = v
    <3>1. lowlink[work[i]] <= index[work[i]]
      BY <2>4 DEF Lowlinks
    <3>2. index[work[i]] < NextIndex /\ index'[c.to] = NextIndex /\ NextIndex \in Int
          /\ index[work[i]] \in Int
      BY <1>0, <2>5, <2>6 DEF NumberedNow
    <3>3. lowlink[work[i]] \in Int
      BY <2>5 DEF SearchTypes
    <3> QED BY <2>5, <3>1, <3>2, <3>3
  <2>7. CASE c.to # v
    <3>1. InSegment(u, i)
      <4>1. /\ index'[work'[i]] <= index'[u]
            /\ \A j \in Path' : i < j => index'[u] < index'[work'[j]]
        BY <1>4 DEF InSegment
      <4>2. \A j \in Path : index'[work'[j]] = index[work[j]] /\ j \in Path'
        BY <1>0 DEF PathNow, NumberedNow
      <4>3. index'[u] = index[u]
        BY <1>0, <2>2, <2>3 DEF NumberedNow
      <4> QED BY <2>4, <4>1, <4>2, <4>3 DEF InSegment
    <3>2. c \notin left[u]
      BY <1>4, <2>7 DEF FollowedTo
    <3>3. c.to \in On /\ index'[c.to] = index[c.to]
      BY <1>0, <1>4, <2>1, <2>7 DEF StackNow, NumberedNow
    <3>4. lowlink[work[i]] <= index[c.to]
      BY <1>4, <2>3, <2>4, <3>1, <3>2, <3>3 DEF Lowlinks
    <3> QED BY <2>5, <3>3, <3>4
  <2> QED BY <2>6, <2>7
<1>5. \A i \in Path' :
        /\ lowlink'[work'[i]] <= index'[work'[i]]
        /\ \E x \in On' : index'[x] = lowlink'[work'[i]] /\ Reaches(work'[i], x)
  BY <1>3
<1>6. \A u \in On', i \in Path' : InSegment(u, i)' =>
        \A c \in cables' : c.from = u /\ c \notin left'[u] /\ c.to \in On' =>
          lowlink'[work'[i]] <= index'[c.to]
  BY <1>4
<1> QED BY <1>2, <1>5, <1>6 DEF Lowlinks

LEMMA VisitKeeps ==
  ASSUME stage = "search", SearchInv, NEW v \in Nodes, ~Visited(v), Visit(v),
         UNCHANGED <<cables, stage, scc_id>>, FollowedTo(v), work # <<>> => Reaches(Top, v)
  PROVE  SearchInv'
<1>1. SearchTypes /\ Numbering /\ Connected /\ Lowlinks /\ Following /\ ClosedRight
  BY DEF SearchInv
<1>2. SearchTypes'
  BY <1>1, VisitTypes DEF FollowedTo
<1> QED BY <1>1, <1>2, VisitNumbers, VisitConnects, VisitLowlinks, VisitFollows, ClosedKept
        DEF SearchInv

LEMMA VisitRootKeeps ==
  ASSUME SearchInv, NEW v \in Nodes, VisitRoot(v) PROVE SearchInv'
<1>1. FollowedTo(v)
  BY DEF VisitRoot, FollowedTo, SearchInv, SearchTypes
<1> QED BY <1>1, VisitKeeps DEF VisitRoot

LEMMA FollowNewKeeps ==
  ASSUME SearchInv, NEW c \in cables, Follow(c), ~Visited(c.to) PROVE SearchInv'
<1>1. SearchTypes /\ Numbering /\ Following /\ stage = "search" /\ work # <<>>
  BY DEF SearchInv, Follow
<1>2. Top \in Nodes
  BY <1>1, TopFacts
<1>3. c.from \in Nodes /\ c.to \in Nodes /\ Reaches(c.from, c.to)
  BY <1>1, ReachesEdge DEF SearchTypes
<1>4. c.from = Top
  BY <1>1, <1>2 DEF Follow, Following, CablesFrom
<1>5. FollowedTo(c.to)
  BY <1>1, <1>2, <1>3, <1>4, ReachesEdge DEF Follow, FollowedTo, SearchTypes
<1>6. Visit(c.to)
  BY DEF Follow
<1> QED BY <1>1, <1>3, <1>4, <1>5, <1>6, VisitKeeps DEF Follow

-----------------------------------------------------------------------------
(* A cable to a node visited before: the lowlink of the top may fall.        *)

LEMMA NumbersKept ==
  ASSUME Numbering, UNCHANGED <<index, stack, work, scc_id>>
  PROVE  Numbering'
<1>1. NextIndex' = NextIndex
  BY DEF NextIndex, Visited
<1> QED BY <1>1 DEF Numbering, On, Path, Visited, Closes

LEMMA ConnectionKept ==
  ASSUME Connected, UNCHANGED <<cables, index, stack, work>>
  PROVE  Connected'
<1>1. \A u, w : Reaches(u, w)' <=> Reaches(u, w)
  BY ReachesKept
<1> QED BY <1>1 DEF Connected, On, Path

LEMMA FollowOldFacts ==
  ASSUME SearchInv, NEW c \in cables, Follow(c), Visited(c.to)
  PROVE  /\ UNCHANGED <<cables, stage, index, stack, work, scc_id>> /\ stage = "search"
         /\ left' \in [Nodes -> SUBSET cables]
         /\ c.from = Top /\ c.to \in Nodes /\ Reaches(Top, c.to)
         /\ \A u \in Nodes : u # Top => left'[u] = left[u] /\ lowlink'[u] = lowlink[u]
         /\ left'[Top] = left[Top] \ {c}
         /\ lowlink'[Top] = lowlink[Top] \/ (c.to \in On /\ lowlink'[Top] = index[c.to])
         /\ lowlink'[Top] <= lowlink[Top]
         /\ c.to \in On => lowlink'[Top] <= index[c.to]
         /\ lowlink' \in [Nodes -> 0 .. NodeCount - 1]
<1>1. SearchTypes /\ Numbering /\ Following /\ stage = "search" /\ work # <<>>
  BY DEF SearchInv, Follow
<1>2. Top \in Nodes
  BY <1>1, TopFacts
<1>3. c.from \in Nodes /\ c.to \in Nodes /\ Reaches(c.from, c.to)
  BY <1>1, ReachesEdge DEF SearchTypes
<1>4. c.from = Top
  BY <1>1, <1>2 DEF Follow, Following, CablesFrom
<1>5. /\ UNCHANGED <<cables, stage, index, stack, work, scc_id>>
      /\ left' = [left EXCEPT ![Top] = @ \ {c}]
      /\ lowlink' = [lowlink EXCEPT ![Top] = Tightened(Top, c.to)]
  BY DEF Follow
<1>6. left \in [Nodes -> SUBSET cables] /\ lowlink \in [Nodes -> 0 .. NodeCount - 1]
      /\ index \in [Nodes -> -1 .. NodeCount - 1]
  BY <1>1 DEF SearchTypes
<1>7. index[c.to] \in 0 .. NodeCount - 1 /\ lowlink[Top] \in 0 .. NodeCount - 1
  BY <1>2, <1>3, <1>6, NodesFinite DEF Visited, Unset
<1>8. \/ Tightened(Top, c.to) = lowlink[Top] /\ (c.to \in On => lowlink[Top] <= index[c.to])
      \/ /\ c.to \in On /\ Tightened(Top, c.to) = index[c.to]
         /\ index[c.to] < lowlink[Top]
  BY <1>7, NodesFinite DEF Tightened, OnStack, On, MinOf
<1>9. lowlink'[Top] = Tightened(Top, c.to) /\ left'[Top] = left[Top] \ {c}
      /\ \A u \in Nodes : u # Top => left'[u] = left[u] /\ lowlink'[u] = lowlink[u]
  BY <1>2, <1>5, <1>6
<1>10. /\ left' \in [Nodes -> SUBSET cables]
       /\ lowlink' \in [Nodes -> 0 .. NodeCount - 1]
  BY <1>2, <1>5, <1>6, <1>7, <1>8
<1>11. /\ lowlink'[Top] = lowlink[Top] \/ (c.to \in On /\ lowlink'[Top] = index[c.to])
       /\ lowlink'[Top] <= lowlink[Top]
       /\ c.to \in On => lowlink'[Top] <= index[c.to]
  BY <1>7, <1>8, <1>9, NodesFinite
<1> QED BY <1>1, <1>3, <1>4, <1>5, <1>9, <1>10, <1>11

LEMMA FollowOldLowlinks ==
  ASSUME SearchInv, NEW c \in cables, Follow(c), Visited(c.to)
  PROVE  Lowlinks'
<1>0. SearchTypes /\ Numbering /\ Lowlinks /\ work # <<>>
  BY DEF SearchInv, Follow
<1>1. /\ UNCHANGED <<cables, stage, index, stack, work, scc_id>>
      /\ Reaches(Top, c.to)
      /\ \A u \in Nodes : u # Top => left'[u] = left[u] /\ lowlink'[u] = lowlink[u]
      /\ left'[Top] = left[Top] \ {c}
      /\ lowlink'[Top] = lowlink[Top] \/ (c.to \in On /\ lowlink'[Top] = index[c.to])
      /\ lowlink'[Top] <= lowlink[Top]
      /\ c.to \in On => lowlink'[Top] <= index[c.to]
  BY FollowOldFacts
<1>2. \A i \in Path : work[i] \in Nodes /\ index[work[i]] \in Int
                      /\ lowlink[work[i]] \in Int /\ lowlink'[work[i]] \in Int
                      /\ lowlink'[work[i]] <= lowlink[work[i]]
  <2>1. lowlink' \in [Nodes -> 0 .. NodeCount - 1]
    BY FollowOldFacts
  <2>2. \A i \in Path : work[i] \in Nodes
    BY <1>0, TopFacts
  <2>3. \A u \in Nodes : index[u] \in Int /\ lowlink[u] \in Int /\ lowlink'[u] \in Int
    BY <1>0, <2>1 DEF SearchTypes
  <2> QED BY <1>1, <2>2, <2>3
<1>3. ASSUME NEW i \in Path
      PROVE  /\ lowlink'[work[i]] <= index[work[i]]
             /\ \E x \in On : index[x] = lowlink'[work[i]] /\ Reaches(work[i], x)
  <2>1. lowlink'[work[i]] <= index[work[i]]
    BY <1>0, <1>2 DEF Lowlinks
  <2>2. CASE lowlink'[work[i]] = lowlink[work[i]]
    BY <1>0, <2>1, <2>2 DEF Lowlinks
  <2>3. CASE work[i] = Top /\ c.to \in On /\ lowlink'[Top] = index[c.to]
    BY <1>1, <2>1, <2>3
  <2> QED BY <1>1, <1>2, <2>2, <2>3
<1>4. ASSUME NEW u \in On, NEW i \in Path, InSegment(u, i),
             NEW d \in cables, d.from = u, d \notin left'[u], d.to \in On
      PROVE  lowlink'[work[i]] <= index[d.to]
  <2>0. \A x \in On : x \in Nodes
    BY <1>0 DEF SearchTypes, On, ToSet
  <2>1. u \in Nodes /\ d.to \in Nodes
    BY <1>4, <2>0
  <2>2. CASE d \notin left[u]
    <3>1. lowlink[work[i]] <= index[d.to]
      BY <1>0, <1>4, <2>2 DEF Lowlinks
    <3>2. index[d.to] \in Int
      BY <1>0, <2>1 DEF SearchTypes
    <3> QED BY <1>2, <3>1, <3>2
  <2>3. CASE d \in left[u]
    <3>1. u = Top /\ d = c
      BY <1>1, <1>4, <2>1, <2>3
    <3>2. i = Len(work)
      <4>1. Len(work) \in Nat \ {0} /\ Path = 1 .. Len(work) /\ Top = work[Len(work)]
        BY <1>0, TopFacts
      <4>2. ~(i < Len(work))
        BY <1>2, <1>4, <3>1, <4>1 DEF InSegment
      <4> QED BY <4>1, <4>2
    <3>3. work[i] = Top
      BY <1>0, <3>2, TopFacts
    <3> QED BY <1>1, <1>4, <3>1, <3>3
  <2> QED BY <2>2, <2>3
<1>5. \A u, w : Reaches(u, w)' <=> Reaches(u, w)
  BY <1>1, ReachesKept
<1>6. On' = On /\ Path' = Path /\ \A u, i : InSegment(u, i)' <=> InSegment(u, i)
  BY <1>1 DEF On, Path, InSegment
<1> QED BY <1>1, <1>3, <1>4, <1>5, <1>6 DEF Lowlinks

LEMMA FollowOldKeeps ==
  ASSUME SearchInv, NEW c \in cables, Follow(c), Visited(c.to)
  PROVE  SearchInv'
<1>0. SearchTypes /\ Numbering /\ Connected /\ Following /\ ClosedRight
  BY DEF SearchInv, Follow
<1>1. /\ UNCHANGED <<cables, stage, index, stack, work, scc_id>>
      /\ left' \in [Nodes -> SUBSET cables]
      /\ lowlink' \in [Nodes -> 0 .. NodeCount - 1]
      /\ c.from = Top /\ c.to \in Nodes
      /\ \A u \in Nodes : u # Top => left'[u] = left[u]
      /\ left'[Top] = left[Top] \ {c}
  BY FollowOldFacts
<1>2. SearchTypes'
  BY <1>0, <1>1 DEF SearchTypes
<1>3. Following'
  <2>1. Top \in Nodes /\ Visited(Top)
    BY <1>0, TopFacts DEF Follow
  <2>2. \A u \in Nodes : left'[u] \subseteq left[u]
    BY <1>1
  <2>3. \A u \in Nodes : CablesFrom(u)' = CablesFrom(u) /\ (Visited(u)' <=> Visited(u))
    BY <1>1 DEF CablesFrom, Visited
  <2>4. \A u \in Nodes : ~Visited(u)' => left'[u] = CablesFrom(u)'
    BY <1>0, <1>1, <2>1, <2>3 DEF Following
  <2>5. \A u \in Nodes : left'[u] \subseteq CablesFrom(u)'
    BY <1>0, <2>2, <2>3 DEF Following
  <2>6. \A u \in Nodes : Visited(u)' /\ u \notin ToSet(work)' => left'[u] = {}
    BY <1>0, <1>1, <2>2, <2>3 DEF Following
  <2>7. \A d \in cables : d.from \in Nodes /\ d.to \in Nodes
    BY <1>0, ReachesEdge DEF SearchTypes
  <2>8. \A d \in cables : d \notin left'[d.from] => d \notin left[d.from] \/ d = c
    BY <1>1, <2>7
  <2>9. \A d \in cables' : d \notin left'[d.from] => Visited(d.to)'
    BY <1>0, <1>1, <2>3, <2>7, <2>8 DEF Following
  <2> QED BY <2>4, <2>5, <2>6, <2>9 DEF Following
<1> QED BY <1>0, <1>1, <1>2, <1>3, NumbersKept, ConnectionKept, ClosedKept, FollowOldLowlinks
        DEF SearchInv

-----------------------------------------------------------------------------
(* The top is left: the path gets shorter, its lowlink goes to its parent.   *)

PathBack ==
  /\ Len(work) \in Nat \ {0} /\ Path = 1 .. Len(work) /\ Path' = 1 .. Len(work) - 1
  /\ \A i \in Path' : i \in Path /\ work'[i] = work[i]
  /\ \A i \in Path : work[i] \in Nodes /\ work[i] \in On
  /\ Top = work[Len(work)]
  /\ \A i \in Path' : index[work[i]] < index[Top]
  /\ ToSet(work) \subseteq ToSet(work)' \cup {Top}
LowlinkBack ==
  /\ lowlink' \in [Nodes -> 0 .. NodeCount - 1]
  /\ \A i \in Path' : i # Len(work) - 1 => lowlink'[work[i]] = lowlink[work[i]]
  /\ Len(work) - 1 \in Path' =>
       lowlink'[work[Len(work) - 1]] = MinOf(lowlink[work[Len(work) - 1]], lowlink[Top])

LEMMA RetreatFacts ==
  ASSUME SearchInv, Retreat
  PROVE  /\ SearchTypes /\ Numbering /\ Connected /\ Lowlinks /\ Following /\ ClosedRight
         /\ UNCHANGED <<cables, stage, index, left>> /\ stage = "search" /\ work # <<>>
         /\ left[Top] = {} /\ work' \in Seq(Nodes)
         /\ PathBack /\ LowlinkBack
<1>1. SearchTypes /\ Numbering /\ Connected /\ Lowlinks /\ Following /\ ClosedRight
  BY DEF SearchInv, Retreat
<1>2. /\ UNCHANGED <<cables, stage, index, left>> /\ stage = "search" /\ work # <<>>
      /\ left[Top] = {}
  BY DEF Retreat
<1>3. /\ work' \in Seq(Nodes) /\ DOMAIN work' = 1 .. Len(work) - 1
      /\ Len(work') = Len(work) - 1
      /\ \A i \in 1 .. Len(work) - 1 : work'[i] = work[i]
  <2>1. work \in Seq(Nodes) /\ work' = Front(work)
    BY <1>1 DEF SearchTypes, Retreat
  <2> QED BY <1>2, <2>1, FrontFacts
<1>4. /\ Len(work) \in Nat \ {0} /\ Path = 1 .. Len(work) /\ Top = work[Len(work)]
      /\ Top \in Nodes
      /\ \A i \in Path : i # Len(work) => index[work[i]] < index[Top]
      /\ \A i \in Path : work[i] \in Nodes /\ work[i] \in On
  BY <1>1, <1>2, TopFacts
<1>5. ToSet(work) \subseteq ToSet(work)' \cup {Top}
  <2>1. \A i \in Path : i = Len(work) \/ i \in DOMAIN work'
    BY <1>3, <1>4
  <2> QED BY <1>3, <1>4, <2>1 DEF ToSet, Path
<1>6. PathBack
  BY <1>3, <1>4, <1>5 DEF PathBack, Path
<1>7. work' # <<>> <=> Len(work) - 1 \in DOMAIN work'
  BY <1>3, <1>4
<1>8. work' # <<>> => Last(work') = work[Len(work) - 1]
  BY <1>3, <1>4, <1>7 DEF Last
<1>9. lowlink' = [v \in Nodes |-> IF work' # <<>> /\ v = Last(work')
                                  THEN MinOf(lowlink[v], lowlink[Top]) ELSE lowlink[v]]
  BY DEF Retreat
<1>10. \A v, w \in Nodes : MinOf(lowlink[v], lowlink[w]) \in 0 .. NodeCount - 1
  BY <1>1 DEF SearchTypes, MinOf
<1>11. LowlinkBack
  <2>1. lowlink' \in [Nodes -> 0 .. NodeCount - 1]
    BY <1>1, <1>4, <1>9, <1>10 DEF SearchTypes
  <2>2. \A i \in Path' : i # Len(work) - 1 => work[i] # Last(work')
    <3>1. \A i \in Path' : i # Len(work) - 1 => i < Len(work) - 1 /\ Len(work) - 1 \in Path'
                                                /\ i \in Path /\ Len(work) - 1 \in Path
      BY <1>3, <1>4 DEF Path
    <3>2. \A i \in Path' : i # Len(work) - 1 => index[work[i]] < index[work[Len(work) - 1]]
      BY <1>1, <3>1 DEF Numbering
    <3>3. \A v \in Nodes : index[v] \in Int
      BY <1>1 DEF SearchTypes
    <3> QED BY <1>4, <1>7, <1>8, <3>1, <3>2, <3>3 DEF Path
  <2>3. \A i \in Path' : work[i] \in Nodes
    BY <1>6 DEF PathBack
  <2> QED BY <1>7, <1>8, <1>9, <2>1, <2>2, <2>3 DEF LowlinkBack, Path
<1> QED BY <1>1, <1>2, <1>3, <1>6, <1>11

\* Whether or not a component closes, what is left to follow stays.
LEMMA RetreatFollows ==
  ASSUME SearchInv, Retreat PROVE Following'
<1>1. Following /\ UNCHANGED <<cables, index, left>> /\ left[Top] = {}
      /\ ToSet(work) \subseteq ToSet(work)' \cup {Top}
  BY RetreatFacts DEF PathBack
<1>2. \A v \in Nodes : CablesFrom(v)' = CablesFrom(v) /\ (Visited(v)' <=> Visited(v))
  BY <1>1 DEF CablesFrom, Visited
<1>3. \A c \in cables' : c \notin left'[c.from] => Visited(c.to)'
  BY <1>1 DEF Following, Visited
<1> QED BY <1>1, <1>2, <1>3 DEF Following

\* A node that reaches below itself reaches its parent.
LEMMA TopReachesParent ==
  ASSUME SearchInv, Retreat, lowlink[Top] # index[Top]
  PROVE  Len(work) - 1 \in Path' /\ Reaches(Top, work[Len(work) - 1])
<1>0. SearchTypes /\ Numbering /\ Connected /\ Lowlinks /\ PathBack
  BY RetreatFacts
<1>1. \A u \in On : u \in Nodes /\ index[u] \in Int
  BY <1>0 DEF SearchTypes, On, ToSet
<1>2. Len(work) \in Path /\ Top = work[Len(work)] /\ Top \in On
  BY <1>0 DEF PathBack
<1>3. PICK x \in On : index[x] = lowlink[Top] /\ Reaches(Top, x)
  BY <1>0, <1>2 DEF Lowlinks
<1>4. PICK i \in Path : index[work[i]] <= index[x] /\ Reaches(x, work[i])
  BY <1>0, <1>3 DEF Connected
<1>5. index[work[i]] < index[Top]
  <2>1. lowlink[Top] <= index[Top]
    BY <1>0, <1>2 DEF Lowlinks
  <2>2. work[i] \in On
    BY <1>0 DEF PathBack
  <2> QED BY <1>1, <1>2, <1>3, <1>4, <2>1, <2>2
<1>6. i # Len(work) /\ i \in 1 .. Len(work) - 1
  BY <1>0, <1>1, <1>2, <1>5 DEF PathBack
<1>7. Len(work) - 1 \in Path' /\ Len(work) - 1 \in Path /\ i <= Len(work) - 1
  BY <1>0, <1>6 DEF PathBack
<1>8. Reaches(Top, work[i])
  BY <1>0, <1>1, <1>2, <1>3, <1>4, ReachesTrans DEF PathBack
<1>9. i = Len(work) - 1 \/ Reaches(work[i], work[Len(work) - 1])
  <2>1. i = Len(work) - 1 \/ i < Len(work) - 1
    BY <1>0, <1>6, <1>7 DEF PathBack
  <2> QED BY <1>0, <1>7, <2>1 DEF Connected
<1> QED BY <1>0, <1>1, <1>2, <1>7, <1>8, <1>9, ReachesTrans DEF PathBack

-----------------------------------------------------------------------------
(* Its component goes on: its segment joins that of its parent.              *)

LEMMA RetreatOpenConnects ==
  ASSUME SearchInv, Retreat, lowlink[Top] # index[Top]
  PROVE  Connected'
<1>0. /\ SearchTypes /\ Numbering /\ Connected /\ PathBack
      /\ UNCHANGED <<cables, index>>
  BY RetreatFacts
<1>1. UNCHANGED stack
  BY DEF Retreat
<1>2. Len(work) - 1 \in Path' /\ Reaches(Top, work[Len(work) - 1])
  BY TopReachesParent
<1>3. \A u \in On : u \in Nodes /\ index[u] \in Int
  BY <1>0 DEF SearchTypes, On, ToSet
<1>4. \A u \in On : \E i \in Path' : index[work[i]] <= index[u] /\ Reaches(u, work[i])
  <2> SUFFICES ASSUME NEW u \in On
               PROVE \E i \in Path' : index[work[i]] <= index[u] /\ Reaches(u, work[i])
    OBVIOUS
  <2>1. PICK i \in Path : index[work[i]] <= index[u] /\ Reaches(u, work[i])
    BY <1>0 DEF Connected
  <2>2. CASE i \in Path'
    BY <2>1, <2>2
  <2>3. CASE i = Len(work)
    <3>1. work[i] = Top /\ work[i] \in On /\ work[Len(work) - 1] \in On
          /\ index[work[Len(work) - 1]] < index[Top]
      BY <1>0, <1>2, <2>3 DEF PathBack
    <3>2. Reaches(u, work[Len(work) - 1])
      BY <1>2, <1>3, <2>1, <3>1, ReachesTrans
    <3>3. index[work[Len(work) - 1]] <= index[u]
      BY <1>3, <2>1, <3>1
    <3> QED BY <1>2, <3>2, <3>3
  <2>4. \A j \in Path : j \in Path' \/ j = Len(work)
    BY <1>0 DEF PathBack
  <2> QED BY <2>2, <2>3, <2>4
<1>5. \A u, w : Reaches(u, w)' <=> Reaches(u, w)
  BY <1>0, ReachesKept
<1>6. \A i \in Path' : i \in Path /\ work'[i] = work[i]
  BY <1>0 DEF PathBack
<1>7. \A i, j \in Path' : i < j => Reaches(work[i], work[j])
  BY <1>0, <1>6 DEF Connected
<1>8. \A u \in On, i \in Path' : index[work[i]] <= index[u] => Reaches(work[i], u)
  BY <1>0, <1>6 DEF Connected
<1> QED BY <1>0, <1>1, <1>4, <1>5, <1>6, <1>7, <1>8 DEF Connected, On

LEMMA RetreatOpenLowlinks ==
  ASSUME SearchInv, Retreat, lowlink[Top] # index[Top]
  PROVE  Lowlinks'
<1>0. /\ SearchTypes /\ Numbering /\ Connected /\ Lowlinks /\ PathBack /\ LowlinkBack
      /\ UNCHANGED <<cables, index, left>>
  BY RetreatFacts
<1>1. UNCHANGED stack
  BY DEF Retreat
<1> DEFINE n == Len(work)
           P == work[n - 1]
<1>2. n - 1 \in Path' /\ n - 1 \in Path /\ n \in Path /\ Top = work[n] /\ n \in Int
  BY <1>0, TopReachesParent DEF PathBack
<1>3. \A u \in On : u \in Nodes /\ index[u] \in Int /\ lowlink[u] \in Int /\ lowlink'[u] \in Int
  BY <1>0 DEF SearchTypes, LowlinkBack, On, ToSet
<1>4. P \in On /\ Top \in On /\ index[P] < index[Top]
  BY <1>0, <1>2 DEF PathBack
<1>5. /\ lowlink'[P] \in {lowlink[P], lowlink[Top]}
      /\ lowlink'[P] <= lowlink[P] /\ lowlink'[P] <= lowlink[Top]
  <2>1. lowlink'[P] = MinOf(lowlink[P], lowlink[Top])
    BY <1>0, <1>2 DEF LowlinkBack
  <2> QED BY <1>3, <1>4, <2>1 DEF MinOf
<1>6. \A i \in Path' : /\ i \in Path /\ work'[i] = work[i] /\ work[i] \in On
                       /\ lowlink'[work[i]] <= lowlink[work[i]]
                       /\ i # n - 1 => lowlink'[work[i]] = lowlink[work[i]]
  <2>1. \A i \in Path' : i \in Path /\ work'[i] = work[i] /\ work[i] \in On
                         /\ (i # n - 1 => lowlink'[work[i]] = lowlink[work[i]])
    BY <1>0 DEF PathBack, LowlinkBack
  <2> QED BY <1>3, <1>5, <2>1
<1>7. ASSUME NEW i \in Path'
      PROVE  /\ lowlink'[work[i]] <= index[work[i]]
             /\ \E x \in On : index[x] = lowlink'[work[i]] /\ Reaches(work[i], x)
  <2>1. lowlink'[work[i]] <= index[work[i]]
    <3>1. lowlink[work[i]] <= index[work[i]]
      BY <1>0, <1>6 DEF Lowlinks
    <3> QED BY <1>3, <1>6, <3>1
  <2>2. CASE lowlink'[work[i]] = lowlink[work[i]]
    BY <1>0, <1>6, <2>1, <2>2 DEF Lowlinks
  <2>3. CASE i = n - 1 /\ lowlink'[P] = lowlink[Top]
    <3>1. PICK x \in On : index[x] = lowlink[Top] /\ Reaches(Top, x)
      BY <1>0, <1>2 DEF Lowlinks
    <3>2. Reaches(P, Top)
      BY <1>0, <1>2 DEF Connected
    <3>3. Reaches(P, x)
      BY <1>3, <1>4, <3>1, <3>2, ReachesTrans
    <3> QED BY <2>1, <2>3, <3>1, <3>3
  <2> QED BY <1>5, <1>6, <2>2, <2>3
<1>8. ASSUME NEW u \in On, NEW i \in Path', InSegment(u, i)',
             NEW c \in cables, c.from = u, c \notin left[u], c.to \in On
      PROVE  lowlink'[work[i]] <= index[c.to]
  <2>1. /\ index[work[i]] <= index[u]
        /\ \A j \in Path' : i < j => index[u] < index[work[j]]
    BY <1>0, <1>6, <1>8 DEF InSegment
  <2>2. \A j \in Path : j \in Path' \/ j = n
    BY <1>0 DEF PathBack
  <2>3. CASE index[u] < index[Top]
    <3>1. InSegment(u, i)
      BY <1>2, <2>1, <2>2, <2>3 DEF InSegment
    <3>2. lowlink[work[i]] <= index[c.to]
      BY <1>0, <1>6, <1>8, <3>1 DEF Lowlinks
    <3> QED BY <1>3, <1>6, <1>8, <3>2
  <2>4. CASE index[Top] <= index[u]
    <3>1. InSegment(u, n)
      <4>1. \A j \in Path : ~(n < j)
        BY <1>0 DEF PathBack
      <4> QED BY <1>2, <2>4, <4>1 DEF InSegment
    <3>2. lowlink[Top] <= index[c.to]
      BY <1>0, <1>2, <1>8, <3>1 DEF Lowlinks
    <3>3. i = n - 1
      <4>1. i <= n - 1 /\ i \in Int
        BY <1>0, <1>2 DEF PathBack
      <4>2. ~(i < n - 1)
        BY <1>2, <1>3, <1>4, <2>1, <2>4
      <4> QED BY <1>2, <4>1, <4>2
    <3> QED BY <1>3, <1>4, <1>5, <1>8, <3>2, <3>3
  <2> QED BY <1>3, <1>4, <2>3, <2>4
<1>9. \A u, w : Reaches(u, w)' <=> Reaches(u, w)
  BY <1>0, ReachesKept
<1>10. On' = On
  BY <1>1 DEF On
<1> QED BY <1>0, <1>6, <1>7, <1>8, <1>9, <1>10 DEF Lowlinks

LEMMA RetreatOpenKeeps ==
  ASSUME SearchInv, Retreat, lowlink[Top] # index[Top]
  PROVE  SearchInv'
<1>0. /\ SearchTypes /\ Numbering /\ ClosedRight /\ PathBack /\ LowlinkBack
      /\ UNCHANGED <<cables, index, left, stage>> /\ work' \in Seq(Nodes)
  BY RetreatFacts
<1>1. UNCHANGED <<stack, scc_id>>
  BY DEF Retreat
<1>2. SearchTypes'
  BY <1>0, <1>1 DEF SearchTypes, LowlinkBack
<1>3. Numbering'
  <2>1. NextIndex' = NextIndex
    BY <1>0 DEF NextIndex, Visited
  <2>2. /\ \A i, j \in Path' : i < j => index[work[i]] < index[work[j]]
        /\ \A i \in Path' : work'[i] = work[i] /\ work[i] \in On
    BY <1>0 DEF Numbering, PathBack
  <2> QED BY <1>0, <1>1, <2>1, <2>2 DEF Numbering, On, Visited, Closes
<1> QED BY <1>0, <1>1, <1>2, <1>3, ClosedKept, RetreatFollows, RetreatOpenConnects,
           RetreatOpenLowlinks DEF SearchInv

-----------------------------------------------------------------------------
(* The top is the root of a component, which closes with it.                 *)

InGroup(u) == u \in On /\ index[Top] <= index[u]

\* The component is what was visited since the top.
CloseNow ==
  /\ stack' \in Seq(Nodes)
  /\ \A i \in DOMAIN stack' : i \in DOMAIN stack /\ stack'[i] = stack[i]
  /\ \A u : u \in On' <=> u \in On /\ index[u] < index[Top]
  /\ \A u \in Nodes : scc_id'[u] = IF InGroup(u) THEN SccCount ELSE scc_id[u]
  /\ SccCount \in 0 .. NodeCount - 1 /\ SccCount' = SccCount + 1
  /\ scc_id' \in [Nodes -> -1 .. NodeCount - 1]

LEMMA SubSeqToSet ==
  ASSUME NEW s \in Seq(Nodes), NEW m \in 1 .. Len(s), NEW n \in 0 .. Len(s)
  PROVE  /\ SubSeq(s, m, n) \in Seq(Nodes)
         /\ \A x : x \in ToSet(SubSeq(s, m, n)) <=> \E i \in m .. n : s[i] = x
         /\ m = 1 => /\ DOMAIN SubSeq(s, m, n) = 1 .. n
                     /\ \A i \in 1 .. n : SubSeq(s, m, n)[i] = s[i]
<1>1. \A i \in m .. n : s[i] \in Nodes
  OBVIOUS
<1>2. /\ SubSeq(s, m, n) \in Seq(Nodes)
      /\ Len(SubSeq(s, m, n)) = IF m <= n THEN n - m + 1 ELSE 0
      /\ \A i \in 1 .. n - m + 1 : SubSeq(s, m, n)[i] = s[m + i - 1]
  BY <1>1, SubSeqProperties
<1> DEFINE t == SubSeq(s, m, n)
<1>3. DOMAIN t = 1 .. n - m + 1 /\ \A i \in 1 .. n - m + 1 : t[i] = s[m + i - 1]
  <2>1. t \in Seq(Nodes) /\ Len(t) = IF m <= n THEN n - m + 1 ELSE 0
    BY <1>2
  <2>2. DOMAIN t = 1 .. Len(t)
    BY <2>1
  <2> QED BY <1>2, <2>1, <2>2
<1> HIDE DEF t
<1>4. \A i \in m .. n : i - m + 1 \in DOMAIN t /\ t[i - m + 1] = s[i]
  BY <1>3
<1>5. \A j \in DOMAIN t : m + j - 1 \in m .. n /\ t[j] = s[m + j - 1]
  BY <1>3
<1>6. \A x : x \in ToSet(t) <=> \E i \in m .. n : s[i] = x
  <2>1. \A x : x \in ToSet(t) <=> \E j \in DOMAIN t : t[j] = x
    BY DEF ToSet
  <2>2. \A x : x \in ToSet(t) => \E i \in m .. n : s[i] = x
    BY <1>5, <2>1, Zenon
  <2>3. \A x : (\E i \in m .. n : s[i] = x) => x \in ToSet(t)
    BY <1>4, <2>1, Zenon
  <2> QED BY <2>2, <2>3
<1>7. m = 1 => DOMAIN t = 1 .. n /\ \A i \in 1 .. n : t[i] = s[i]
  BY <1>3
<1> QED BY <1>2, <1>6, <1>7 DEF t

LEMMA CloseStack ==
  ASSUME SearchInv, Retreat, lowlink[Top] = index[Top]
  PROVE  /\ stack' \in Seq(Nodes)
         /\ \A i \in DOMAIN stack' : i \in DOMAIN stack /\ stack'[i] = stack[i]
         /\ \A u : u \in On' <=> u \in On /\ index[u] < index[Top]
         /\ scc_id' = [u \in Nodes |-> IF InGroup(u) THEN SccCount ELSE scc_id[u]]
<1>0. SearchTypes /\ Numbering /\ PathBack
  BY RetreatFacts
<1> DEFINE at == CHOOSE i \in DOMAIN stack : stack[i] = Top
<1>1. stack \in Seq(Nodes) /\ DOMAIN stack = 1 .. Len(stack) /\ Len(stack) \in Nat
  BY <1>0 DEF SearchTypes
<1>2. Top \in On
  BY <1>0 DEF PathBack
<1>3. at \in DOMAIN stack /\ stack[at] = Top
  BY <1>2 DEF On, ToSet
<1>4. /\ stack' = SubSeq(stack, 1, at - 1)
      /\ scc_id' = [u \in Nodes |-> IF u \in ToSet(SubSeq(stack, at, Len(stack)))
                                    THEN SccCount ELSE scc_id[u]]
  BY DEF Retreat, CloseComponent
<1> HIDE DEF at
<1>5. /\ stack' \in Seq(Nodes) /\ DOMAIN stack' = 1 .. at - 1
      /\ \A i \in 1 .. at - 1 : stack'[i] = stack[i]
      /\ \A x : x \in ToSet(stack') <=> \E i \in 1 .. at - 1 : stack[i] = x
  <2>1. 1 \in 1 .. Len(stack) /\ at - 1 \in 0 .. Len(stack)
    BY <1>1, <1>3
  <2> QED BY <1>1, <1>4, <2>1, SubSeqToSet
<1>6. \A x : x \in ToSet(SubSeq(stack, at, Len(stack))) <=> \E i \in at .. Len(stack) : stack[i] = x
  <2>1. at \in 1 .. Len(stack) /\ Len(stack) \in 0 .. Len(stack)
    BY <1>1, <1>3
  <2> QED BY <1>1, <2>1, SubSeqToSet
<1>7. \A i, j \in DOMAIN stack : i < j => index[stack[i]] < index[stack[j]]
  BY <1>0 DEF Numbering
<1>8. \A i \in DOMAIN stack : index[stack[i]] \in Int
  BY <1>0, <1>1 DEF SearchTypes
<1>9. \A i \in DOMAIN stack : /\ i \in 1 .. at - 1 <=> index[stack[i]] < index[Top]
                              /\ i \in at .. Len(stack) <=> index[Top] <= index[stack[i]]
  <2> SUFFICES ASSUME NEW i \in DOMAIN stack
               PROVE /\ i \in 1 .. at - 1 <=> index[stack[i]] < index[Top]
                     /\ i \in at .. Len(stack) <=> index[Top] <= index[stack[i]]
    OBVIOUS
  <2>1. i < at => index[stack[i]] < index[Top]
    BY <1>3, <1>7
  <2>2. at < i => index[Top] < index[stack[i]]
    BY <1>3, <1>7
  <2>3. i = at => index[Top] = index[stack[i]]
    BY <1>3
  <2>4. i \in 1 .. Len(stack) /\ at \in 1 .. Len(stack)
    BY <1>1, <1>3
  <2>5. index[stack[i]] \in Int /\ index[Top] \in Int
    BY <1>3, <1>8
  <2> QED BY <1>1, <2>1, <2>2, <2>3, <2>4, <2>5
<1>10. \A x : x \in On <=> \E i \in DOMAIN stack : stack[i] = x
  BY DEF On, ToSet
<1>11. 1 .. at - 1 \subseteq DOMAIN stack /\ at .. Len(stack) \subseteq DOMAIN stack
  BY <1>1, <1>3
<1>12. \A u : u \in On' <=> u \in On /\ index[u] < index[Top]
  <2>1. \A u : u \in On' <=> \E i \in 1 .. at - 1 : stack[i] = u
    BY <1>5 DEF On
  <2> QED BY <1>9, <1>10, <1>11, <2>1
<1>13. \A u : u \in ToSet(SubSeq(stack, at, Len(stack))) <=> InGroup(u)
  BY <1>6, <1>9, <1>10, <1>11 DEF InGroup
<1>14. scc_id' = [u \in Nodes |-> IF InGroup(u) THEN SccCount ELSE scc_id[u]]
  BY <1>4, <1>13
<1> QED BY <1>5, <1>11, <1>12, <1>14

LEMMA CloseFacts ==
  ASSUME SearchInv, Retreat, lowlink[Top] = index[Top]
  PROVE  CloseNow
<1>0. SearchTypes /\ Numbering /\ ClosedRight /\ PathBack
  BY RetreatFacts
<1>1. scc_id' = [u \in Nodes |-> IF InGroup(u) THEN SccCount ELSE scc_id[u]]
  BY CloseStack
<1>2. InGroup(Top) /\ Top \in Nodes /\ ~Closes(Top)
  <2>1. Top \in On /\ Top \in Nodes
    BY <1>0 DEF PathBack
  <2>2. index[Top] \in Int
    BY <1>0, <2>1 DEF SearchTypes
  <2> QED BY <1>0, <2>1, <2>2 DEF InGroup, Numbering
<1>3. \A u \in Nodes : InGroup(u) => ~Closes(u)
  BY <1>0 DEF InGroup, Numbering
<1> DEFINE ids == {scc_id[v] : v \in Nodes} \ {Unset}
           closed == {v \in Nodes : Closes(v)}
<1>4. IsFiniteSet(closed) /\ Cardinality(closed) < NodeCount /\ Cardinality(closed) \in Nat
  <2>1. closed \in SUBSET Nodes /\ closed # Nodes
    BY <1>2
  <2> HIDE DEF closed
  <2>2. IsFiniteSet(closed) /\ Cardinality(closed) <= Cardinality(Nodes)
        /\ Cardinality(closed) # Cardinality(Nodes)
    BY <2>1, NodesFinite, FS_Subset
  <2>3. Cardinality(closed) \in Nat
    BY <2>2, FS_CardinalityType
  <2> QED BY <2>2, <2>3, NodesFinite
<1>5. IsFiniteSet(ids) /\ Cardinality(ids) <= Cardinality(closed) /\ Cardinality(ids) \in Nat
  <2> DEFINE f == [v \in closed |-> scc_id[v]]
  <2>1. f \in Surjection(closed, ids)
    BY DEF Closes, Surjection
  <2> HIDE DEF f, closed, ids
  <2>2. IsFiniteSet(ids) /\ Cardinality(ids) <= Cardinality(closed)
    BY <1>4, <2>1, FS_Surjection
  <2> QED BY <2>2, FS_CardinalityType
<1>6. SccCount \in 0 .. NodeCount - 1
  BY <1>4, <1>5, NodesFinite DEF SccCount
<1>7. SccCount' = SccCount + 1
  <2>1. SccCount \notin ids /\ SccCount # Unset
    BY <1>0, <1>6 DEF ClosedRight, Unset
  <2>2. {scc_id'[v] : v \in Nodes} \ {Unset} = ids \cup {SccCount}
    <3>1. \A v \in Nodes : scc_id'[v] = IF InGroup(v) THEN SccCount ELSE scc_id[v]
      BY <1>1
    <3>2. \A v \in Nodes : scc_id[v] # Unset => scc_id'[v] = scc_id[v]
      BY <1>3, <3>1 DEF Closes
    <3>3. scc_id'[Top] = SccCount
      BY <1>2, <3>1
    <3> QED BY <1>2, <2>1, <3>1, <3>2, <3>3
  <2> HIDE DEF ids
  <2>3. Cardinality(ids \cup {SccCount}) = Cardinality(ids) + 1
    BY <1>5, <2>1, FS_AddElement
  <2> QED BY <2>2, <2>3 DEF SccCount, ids
<1>8. scc_id' \in [Nodes -> -1 .. NodeCount - 1]
  BY <1>0, <1>1, <1>6 DEF SearchTypes
<1>9. \A u \in Nodes : scc_id'[u] = IF InGroup(u) THEN SccCount ELSE scc_id[u]
  BY <1>1
<1> QED BY <1>6, <1>7, <1>8, <1>9, CloseStack DEF CloseNow

\* What the followed cables of a closing component lead to is closed, or closes with it.
LEMMA GroupKeepsIn ==
  ASSUME SearchInv, Retreat, lowlink[Top] = index[Top],
         NEW c \in cables, InGroup(c.from)
  PROVE  Closes(c.to) \/ InGroup(c.to)
<1>0. /\ SearchTypes /\ Numbering /\ Lowlinks /\ Following /\ PathBack
      /\ left[Top] = {}
  BY RetreatFacts
<1>1. c.from \in Nodes /\ c.to \in Nodes
  BY <1>0, ReachesEdge DEF SearchTypes
<1>2. \A v \in Nodes : index[v] \in Int
  BY <1>0 DEF SearchTypes
<1>3. c.from \in On /\ index[Top] <= index[c.from] /\ Visited(c.from)
  BY <1>0, <1>1 DEF InGroup, Numbering
<1>4. c \notin left[c.from]
  <2>1. CASE c.from = Top
    BY <1>0, <2>1
  <2>2. CASE c.from # Top
    <3>1. \A i \in Path : work[i] \in Nodes /\ (i \in Path' \/ work[i] = Top)
                          /\ (i \in Path' => index[work[i]] < index[Top])
      BY <1>0 DEF PathBack
    <3>2. \A i \in Path : work[i] # c.from
      <4>1. \A i \in Path' : i \in Path => work[i] # c.from
        BY <1>0, <1>1, <1>2, <1>3, <3>1 DEF PathBack
      <4> QED BY <2>2, <3>1, <4>1
    <3>3. c.from \notin ToSet(work)
      BY <3>2 DEF ToSet, Path
    <3> QED BY <1>0, <1>1, <1>3, <3>3 DEF Following
  <2> QED BY <2>1, <2>2
<1>5. CASE Closes(c.to)
  BY <1>5
<1>6. CASE ~Closes(c.to)
  <2>1. Visited(c.to)
    BY <1>0, <1>4 DEF Following
  <2>2. c.to \in On
    BY <1>0, <1>1, <1>6, <2>1 DEF Numbering
  <2>3. InSegment(c.from, Len(work))
    <3>1. Len(work) \in Path /\ work[Len(work)] = Top /\ \A j \in Path : ~(Len(work) < j)
      BY <1>0 DEF PathBack
    <3> QED BY <1>3, <3>1 DEF InSegment
  <2>4. Len(work) \in Path /\ work[Len(work)] = Top
    BY <1>0 DEF PathBack
  <2>5. lowlink[Top] <= index[c.to]
    BY <1>0, <1>3, <1>4, <2>2, <2>3, <2>4 DEF Lowlinks
  <2> QED BY <2>2, <2>5 DEF InGroup
<1> QED BY <1>5, <1>6

LEMMA GroupConnected ==
  ASSUME SearchInv, Retreat,
         NEW u \in Nodes, NEW w \in Nodes, InGroup(u), InGroup(w)
  PROVE  Reaches(u, w)
<1>0. SearchTypes /\ Numbering /\ Connected /\ PathBack
  BY RetreatFacts
<1>1. Len(work) \in Path /\ work[Len(work)] = Top /\ Top \in Nodes
      /\ \A i \in Path : i = Len(work) \/ i < Len(work)
  BY <1>0 DEF PathBack
<1>2. PICK i \in Path : Reaches(u, work[i])
  BY <1>0 DEF Connected, InGroup
<1>3. work[i] \in Nodes
  BY <1>0 DEF PathBack
<1>4. i = Len(work) \/ Reaches(work[i], Top)
  BY <1>0, <1>1 DEF Connected
<1>5. Reaches(u, Top)
  BY <1>1, <1>2, <1>3, <1>4, ReachesTrans
<1>6. Reaches(Top, w)
  BY <1>0, <1>1 DEF Connected, InGroup
<1> QED BY <1>1, <1>5, <1>6, ReachesTrans

LEMMA CloseKeepsClosed ==
  ASSUME SearchInv, Retreat, lowlink[Top] = index[Top]
  PROVE  ClosedRight'
<1>0. /\ SearchTypes /\ Numbering /\ ClosedRight /\ CloseNow
      /\ UNCHANGED cables
  BY RetreatFacts, CloseFacts
<1>1. SccCount \in Nat /\ SccCount' = SccCount + 1
      /\ \A u \in Nodes : scc_id'[u] = IF InGroup(u) THEN SccCount ELSE scc_id[u]
  BY <1>0 DEF CloseNow
<1>2. \A u \in Nodes : scc_id[u] \in Int /\ scc_id[u] < SccCount /\ SccCount # Unset
  BY <1>0, <1>1 DEF SearchTypes, ClosedRight, Unset
<1>3. \A u \in Nodes : InGroup(u) => ~Closes(u)
  BY <1>0 DEF InGroup, Numbering
<1>4. \A u \in Nodes : Closes(u)' <=> Closes(u) \/ InGroup(u)
  BY <1>1, <1>2 DEF Closes
<1>5. \A u, w : Reaches(u, w)' <=> Reaches(u, w)
  BY <1>0, ReachesKept
<1>6. \A v \in Nodes : scc_id'[v] < SccCount'
  BY <1>1, <1>2
<1>7. \A v, w \in Nodes : Closes(v)' /\ scc_id'[v] = scc_id'[w] => Reaches(v, w)
  <2> SUFFICES ASSUME NEW v \in Nodes, NEW w \in Nodes, Closes(v)', scc_id'[v] = scc_id'[w]
               PROVE Reaches(v, w)
    OBVIOUS
  <2>1. CASE InGroup(v)
    <3>1. InGroup(w)
      BY <1>1, <1>2, <2>1
    <3> QED BY <2>1, <3>1, GroupConnected
  <2>2. CASE ~InGroup(v)
    <3>1. ~InGroup(w) /\ scc_id[v] = scc_id[w]
      BY <1>1, <1>2, <2>2
    <3> QED BY <1>0, <1>4, <2>2, <3>1 DEF ClosedRight
  <2> QED BY <2>1, <2>2
<1>8. ASSUME NEW k \in Nat PROVE Closed(UpTo(k)')
  <2>1. CASE k < SccCount
    <3>1. UpTo(k)' = UpTo(k)
      BY <1>1, <1>2, <1>3, <1>4, <2>1 DEF UpTo
    <3> QED BY <1>0, <3>1 DEF ClosedRight
  <2>2. CASE SccCount <= k
    <3>1. \A u \in Nodes : u \in UpTo(k)' <=> Closes(u) \/ InGroup(u)
      BY <1>1, <1>2, <1>4, <2>2 DEF UpTo
    <3>2. \A u \in Nodes : u \in UpTo(k) <=> Closes(u)
      BY <1>1, <1>2, <2>2 DEF UpTo
    <3>3. \A c \in cables : c.from \in Nodes /\ c.to \in Nodes
      BY <1>0, ReachesEdge DEF SearchTypes
    <3>4. \A c \in cables : c.from \in UpTo(k) => c.to \in UpTo(k)
      BY <1>0 DEF ClosedRight, Closed
    <3> QED BY <3>1, <3>2, <3>3, <3>4, GroupKeepsIn DEF Closed
  <2> QED BY <1>1, <2>1, <2>2
<1>9. \A k \in Nat : Closed(UpTo(k))'
  BY <1>0, <1>8 DEF Closed
<1> QED BY <1>5, <1>6, <1>7, <1>9 DEF ClosedRight

LEMMA CloseConnects ==
  ASSUME SearchInv, Retreat, lowlink[Top] = index[Top]
  PROVE  Connected'
<1>0. /\ SearchTypes /\ Numbering /\ Connected /\ PathBack /\ CloseNow
      /\ UNCHANGED <<cables, index>>
  BY RetreatFacts, CloseFacts
<1>1. \A u \in Nodes : index[u] \in Int
  BY <1>0 DEF SearchTypes
<1>2. \A u \in On : u \in Nodes
  BY <1>0 DEF SearchTypes, On, ToSet
<1>3. \A u \in On' : u \in On /\ index[u] < index[Top]
  BY <1>0 DEF CloseNow
<1>4. \A i \in Path' : i \in Path /\ work'[i] = work[i]
  BY <1>0 DEF PathBack
<1>5. \A i \in Path : i \in Path' \/ work[i] = Top
  BY <1>0 DEF PathBack
<1>6. \A i, j \in Path' : i < j => Reaches(work[i], work[j])
  BY <1>0, <1>4 DEF Connected
<1>7. \A u \in On' : \E i \in Path' : index[work[i]] <= index[u] /\ Reaches(u, work[i])
  <2> SUFFICES ASSUME NEW u \in On'
               PROVE \E i \in Path' : index[work[i]] <= index[u] /\ Reaches(u, work[i])
    OBVIOUS
  <2>1. PICK i \in Path : index[work[i]] <= index[u] /\ Reaches(u, work[i])
    BY <1>0, <1>3 DEF Connected
  <2>2. work[i] # Top
    <3>1. Top \in Nodes /\ u \in Nodes /\ index[u] < index[Top] /\ work[i] \in Nodes
      BY <1>0, <1>2, <1>3 DEF PathBack
    <3> QED BY <1>1, <2>1, <3>1
  <2> QED BY <1>5, <2>1, <2>2
<1>8. \A u \in On', i \in Path' : index[work[i]] <= index[u] => Reaches(work[i], u)
  BY <1>0, <1>3, <1>4 DEF Connected
<1>9. \A u, w : Reaches(u, w)' <=> Reaches(u, w)
  BY <1>0, ReachesKept
<1> QED BY <1>0, <1>4, <1>6, <1>7, <1>8, <1>9 DEF Connected

LEMMA CloseLowlinks ==
  ASSUME SearchInv, Retreat, lowlink[Top] = index[Top]
  PROVE  Lowlinks'
<1>0. /\ SearchTypes /\ Numbering /\ Lowlinks /\ PathBack /\ LowlinkBack /\ CloseNow
      /\ UNCHANGED <<cables, index, left>>
  BY RetreatFacts, CloseFacts
<1>1. \A u \in Nodes : index[u] \in Int /\ lowlink[u] \in Int
  BY <1>0 DEF SearchTypes
<1>2. \A u \in On' : u \in Nodes /\ u \in On /\ index[u] < index[Top]
  <2>1. \A u \in On : u \in Nodes
    BY <1>0 DEF SearchTypes, On, ToSet
  <2> QED BY <1>0, <2>1 DEF CloseNow
<1>3. \A i \in Path' : /\ i \in Path /\ work'[i] = work[i] /\ work[i] \in Nodes
                       /\ index[work[i]] < index[Top] /\ lowlink[work[i]] <= index[work[i]]
  BY <1>0 DEF PathBack, Lowlinks
<1>4. Top \in Nodes
  BY <1>0 DEF PathBack
<1>5. \A i \in Path' : lowlink'[work[i]] = lowlink[work[i]]
  <2> SUFFICES ASSUME NEW i \in Path' PROVE lowlink'[work[i]] = lowlink[work[i]]
    OBVIOUS
  <2>1. CASE i = Len(work) - 1
    <3>1. lowlink'[work[i]] = MinOf(lowlink[work[i]], lowlink[Top])
      BY <1>0, <2>1 DEF LowlinkBack
    <3>2. lowlink[work[i]] < lowlink[Top]
      BY <1>1, <1>3, <1>4
    <3> QED BY <1>1, <1>3, <1>4, <3>1, <3>2 DEF MinOf
  <2>2. CASE i # Len(work) - 1
    BY <1>0, <2>2 DEF LowlinkBack
  <2> QED BY <2>1, <2>2
<1>6. ASSUME NEW i \in Path'
      PROVE  \E x \in On' : index[x] = lowlink[work[i]] /\ Reaches(work[i], x)
  <2>1. PICK x \in On : index[x] = lowlink[work[i]] /\ Reaches(work[i], x)
    BY <1>0, <1>3 DEF Lowlinks
  <2>2. index[x] < index[Top]
    BY <1>1, <1>3, <1>4, <2>1
  <2> QED BY <1>0, <2>1, <2>2 DEF CloseNow
<1>7. ASSUME NEW u \in On', NEW i \in Path', InSegment(u, i)',
             NEW c \in cables, c.from = u, c \notin left[u], c.to \in On'
      PROVE  lowlink[work[i]] <= index[c.to]
  <2>1. InSegment(u, i)
    <3>1. /\ index[work[i]] <= index[u]
          /\ \A j \in Path' : i < j => index[u] < index[work[j]]
      BY <1>0, <1>3, <1>7 DEF InSegment
    <3>2. \A j \in Path : j \in Path' \/ work[j] = Top
      BY <1>0 DEF PathBack
    <3> QED BY <1>2, <3>1, <3>2 DEF InSegment
  <2>2. c.to \in On /\ u \in On
    BY <1>2, <1>7
  <2> QED BY <1>0, <1>3, <1>7, <2>1, <2>2 DEF Lowlinks
<1>8. \A u, w : Reaches(u, w)' <=> Reaches(u, w)
  BY <1>0, ReachesKept
<1> QED BY <1>0, <1>3, <1>5, <1>6, <1>7, <1>8 DEF Lowlinks

LEMMA RetreatCloseKeeps ==
  ASSUME SearchInv, Retreat, lowlink[Top] = index[Top]
  PROVE  SearchInv'
<1>0. /\ SearchTypes /\ Numbering /\ PathBack /\ LowlinkBack /\ CloseNow /\ ClosedRight
      /\ UNCHANGED <<cables, index, left, stage>> /\ work' \in Seq(Nodes)
  BY RetreatFacts, CloseFacts
<1>1. SearchTypes'
  BY <1>0 DEF SearchTypes, LowlinkBack, CloseNow
<1>2. Numbering'
  <2>1. NextIndex' = NextIndex /\ \A v \in Nodes : Visited(v)' <=> Visited(v)
    BY <1>0 DEF NextIndex, Visited
  <2>2. /\ \A i, j \in Path' : i < j => index[work[i]] < index[work[j]]
        /\ \A i \in Path' : work'[i] = work[i] /\ work[i] \in On'
    BY <1>0 DEF Numbering, PathBack, CloseNow
  <2>3. \A i, j \in DOMAIN stack' : i < j => index[stack'[i]] < index[stack'[j]]
    BY <1>0 DEF Numbering, CloseNow
  <2>4. \A v \in Nodes : Closes(v)' <=> Closes(v) \/ InGroup(v)
    BY <1>0 DEF CloseNow, Closes, ClosedRight, Unset
  <2>5. \A v \in Nodes : v \in On' <=> v \in On /\ ~InGroup(v)
    <3>1. Top \in Nodes /\ \A v \in Nodes : index[v] \in Int
      BY <1>0 DEF SearchTypes, PathBack
    <3> QED BY <1>0, <3>1 DEF CloseNow, InGroup
  <2>6. \A v \in Nodes : InGroup(v) => Visited(v)
    BY <1>0 DEF InGroup, Numbering
  <2>7. \A v \in Nodes : v \in On' <=> Visited(v)' /\ ~Closes(v)'
    BY <1>0, <2>1, <2>4, <2>5, <2>6 DEF Numbering
  <2>8. \A v \in Nodes : Closes(v)' => Visited(v)'
    BY <1>0, <2>1, <2>4, <2>6 DEF Numbering
  <2>9. /\ \A v \in Nodes : index'[v] < NextIndex'
        /\ \A v, w \in Nodes : Visited(v)' /\ index'[v] = index'[w] => v = w
    BY <1>0, <2>1 DEF Numbering
  <2> QED BY <1>0, <2>2, <2>3, <2>7, <2>8, <2>9 DEF Numbering
<1> QED BY <1>0, <1>1, <1>2, RetreatFollows, CloseConnects, CloseLowlinks, CloseKeepsClosed
        DEF SearchInv

-----------------------------------------------------------------------------
(* Every step of the search, and what it ends with.                          *)

LEMMA SearchKept ==
  ASSUME SearchInv, UNCHANGED <<cables, stage, searchVars>> PROVE SearchInv'
<1> SUFFICES ASSUME stage = "search" PROVE SearchInv'
  BY DEF SearchInv
<1>0. SearchTypes /\ Numbering /\ Connected /\ Lowlinks /\ Following /\ ClosedRight
      /\ UNCHANGED <<cables, stage, index, lowlink, stack, work, left, scc_id>>
  BY DEF SearchInv, searchVars
<1>1. SearchTypes'
  BY <1>0 DEF SearchTypes
<1>2. Lowlinks'
  <2>1. \A u, w : Reaches(u, w)' <=> Reaches(u, w)
    BY <1>0, ReachesKept
  <2>2. On' = On /\ Path' = Path /\ \A u, i : InSegment(u, i)' <=> InSegment(u, i)
    BY <1>0 DEF On, Path, InSegment
  <2> QED BY <1>0, <2>1, <2>2 DEF Lowlinks
<1>3. Following'
  BY <1>0 DEF Following, CablesFrom, Visited
<1> QED BY <1>0, <1>1, <1>2, <1>3, NumbersKept, ConnectionKept, ClosedKept DEF SearchInv

LEMMA SearchStep == SearchInv /\ [Next]_vars => SearchInv'
<1> SUFFICES ASSUME SearchInv, [Next]_vars PROVE SearchInv' OBVIOUS
<1>1. CASE \E v \in Nodes : VisitRoot(v)
  BY <1>1, VisitRootKeeps
<1>2. CASE \E c \in cables : Follow(c)
  BY <1>2, FollowNewKeeps, FollowOldKeeps
<1>3. CASE Retreat
  BY <1>3, RetreatCloseKeeps, RetreatOpenKeeps
<1>4. CASE Condense \/ Classify
  BY <1>4 DEF Condense, Classify, SearchInv
<1>5. CASE BeginTick \/ Process \/ EndTick
  BY <1>5, SearchKept DEF BeginTick, Process, EndTick
<1>6. CASE UNCHANGED vars
  BY <1>6, SearchKept DEF vars
<1> QED BY <1>1, <1>2, <1>3, <1>4, <1>5, <1>6 DEF Next

LEMMA SearchEnds ==
  ASSUME SearchInv, SearchDone
  PROVE  stack = <<>> /\ \A v \in Nodes : Closes(v)
<1>0. SearchTypes /\ Numbering /\ Connected /\ work = <<>>
  BY DEF SearchInv, SearchDone
<1>1. Path = {}
  BY <1>0 DEF Path
<1>2. On = {}
  BY <1>0, <1>1 DEF Connected
<1>3. stack = <<>>
  <2>1. DOMAIN stack = {}
    BY <1>2 DEF On, ToSet
  <2> QED BY <1>0, <2>1 DEF SearchTypes
<1>4. \A v \in Nodes : Closes(v)
  BY <1>0, <1>2 DEF Numbering, SearchDone
<1> QED BY <1>3, <1>4

LEMMA PartitionRight == SearchInv => PartitionCorrect
<1> SUFFICES ASSUME SearchInv, SearchDone, NEW v \in Nodes, NEW w \in Nodes
             PROVE  /\ scc_id[v] = scc_id[w] <=> Reaches(v, w) /\ Reaches(w, v)
                    /\ Reaches(v, w) => scc_id[v] >= scc_id[w]
  BY DEF PartitionCorrect
<1>0. SearchTypes /\ ClosedRight /\ \A u \in Nodes : Closes(u)
  BY SearchEnds DEF SearchInv, SearchDone
<1>1. \A u \in Nodes : scc_id[u] \in Nat
  BY <1>0 DEF SearchTypes, Closes, Unset
<1>2. \A u, x \in Nodes : Reaches(u, x) => scc_id[u] >= scc_id[x]
  <2> SUFFICES ASSUME NEW u \in Nodes, NEW x \in Nodes, Reaches(u, x)
               PROVE  scc_id[u] >= scc_id[x]
    OBVIOUS
  <2>1. Closed(UpTo(scc_id[u]))
    BY <1>0, <1>1 DEF ClosedRight
  <2>2. u \in UpTo(scc_id[u]) /\ UpTo(scc_id[u]) \in SUBSET Nodes
    BY <1>0, <1>1 DEF UpTo
  <2>3. x \in UpTo(scc_id[u])
    BY <2>1, <2>2, ReachesInside
  <2> QED BY <1>1, <2>3 DEF UpTo
<1>3. \A u, x \in Nodes : scc_id[u] = scc_id[x] => Reaches(u, x)
  BY <1>0 DEF ClosedRight
<1> QED BY <1>1, <1>2, <1>3

-----------------------------------------------------------------------------
(* The plan the search leads to.                                             *)

OrderRight ==
  /\ order \in Seq(Nodes) /\ DOMAIN order = Nodes
  /\ \A i, j \in Nodes : order[i] = order[j] => i = j
  /\ \A v \in Nodes : \E i \in Nodes : order[i] = v
  /\ \A c \in cable_fused : \A i, j \in Nodes : order[i] = c.from /\ order[j] = c.to => i < j

\* The cables that close no loop are the fused ones; a port is a cycle port
\* when one of its cables is not.
FusedRight ==
  /\ cable_fused = {c \in cables : ~ClosesLoop(c)}
  /\ cycle_ports = IF stage = "run" THEN CyclePorts ELSE {}

PlanInv ==
  /\ cables \subseteq Cables
  /\ stage \in {"search", "classify", "run"}
  /\ stage = "search" => order = <<>> /\ cable_fused = {} /\ cycle_ports = {}
  /\ stage # "search" =>
       /\ index = AllUnset /\ scc_id = AllUnset /\ lowlink = [v \in Nodes |-> 0]
       /\ stack = <<>> /\ work = <<>> /\ left \in [Nodes -> SUBSET cables]
       /\ OrderRight /\ FusedRight

\* The components are run in a total order.
LEMMA RunsBeforeOrder ==
  ASSUME SearchTypes
  PROVE  \A u, v, w \in Nodes :
           /\ ~RunsBefore(u, u)
           /\ RunsBefore(u, v) /\ RunsBefore(v, w) => RunsBefore(u, w)
           /\ u # v => RunsBefore(u, v) \/ RunsBefore(v, u)
<1>1. \A u \in Nodes : u \in Int
  BY NodesFinite DEF Nodes
<1>2. \A u \in Nodes : scc_id[u] \in Int
  BY DEF SearchTypes
<1> QED BY <1>1, <1>2 DEF RunsBefore

LEMMA RankFacts ==
  ASSUME SearchTypes
  PROVE  /\ \A v \in Nodes : Rank(v) \in Nodes
         /\ \A u, v \in Nodes : RunsBefore(u, v) => Rank(u) < Rank(v)
         /\ \A u, v \in Nodes : Rank(u) = Rank(v) => u = v
         /\ \A i \in Nodes : \E v \in Nodes : Rank(v) = i
<1> DEFINE before(v) == {u \in Nodes : RunsBefore(u, v)}
<1>1. ASSUME NEW v \in Nodes
      PROVE  IsFiniteSet(before(v)) /\ Cardinality(before(v)) \in 0 .. NodeCount - 1
  <2>1. before(v) \in SUBSET Nodes /\ before(v) # Nodes
    BY RunsBeforeOrder
  <2> HIDE DEF before
  <2>2. IsFiniteSet(before(v)) /\ Cardinality(before(v)) <= NodeCount
        /\ Cardinality(before(v)) # NodeCount
    BY <2>1, NodesFinite, FS_Subset
  <2> QED BY <2>2, FS_CardinalityType, NodesFinite
<1>2. \A v \in Nodes : Rank(v) \in Nodes
  <2>1. \A v \in Nodes : Cardinality(before(v)) + 1 \in 1 .. NodeCount
    <3> HIDE DEF before
    <3> QED BY <1>1, NodesFinite
  <2> QED BY <2>1 DEF Rank, Nodes
<1>3. ASSUME NEW u \in Nodes, NEW v \in Nodes, RunsBefore(u, v) PROVE Rank(u) < Rank(v)
  <2>1. before(u) \in SUBSET before(v) /\ before(u) # before(v)
    BY <1>3, RunsBeforeOrder
  <2>2. Cardinality(before(u)) <= Cardinality(before(v))
        /\ Cardinality(before(u)) # Cardinality(before(v))
    <3> HIDE DEF before
    <3> QED BY <1>1, <2>1, FS_Subset
  <2> QED BY <1>1, <2>2 DEF Rank
<1>4. ASSUME NEW u \in Nodes, NEW v \in Nodes, Rank(u) = Rank(v) PROVE u = v
  <2>1. Rank(u) \in Int
    BY <1>2 DEF Nodes
  <2>2. ~RunsBefore(u, v) /\ ~RunsBefore(v, u)
    BY <1>3, <1>4, <2>1
  <2> QED BY <2>2, RunsBeforeOrder
<1>5. \A i \in Nodes : \E v \in Nodes : Rank(v) = i
  <2> DEFINE f == [v \in Nodes |-> Rank(v)]
  <2>1. f \in Injection(Nodes, Nodes)
    BY <1>2, <1>4 DEF Injection, IsInjective
  <2>2. \A v \in Nodes : f[v] = Rank(v)
    OBVIOUS
  <2> HIDE DEF f
  <2>3. f \in Surjection(Nodes, Nodes)
    BY <2>1, NodesFinite, FS_Injection
  <2> QED BY <2>2, <2>3 DEF Surjection
<1> QED BY <1>2, <1>3, <1>4, <1>5

LEMMA CondenseOrders ==
  ASSUME SearchInv, Condense
  PROVE  OrderRight' /\ cable_fused' = {c \in cables : ~ClosesLoop(c)}
<1>0. SearchTypes /\ SearchDone /\ PartitionCorrect
  BY PartitionRight DEF SearchInv, Condense, SearchDone
<1>1. /\ order' = [i \in 1 .. NodeCount |-> CHOOSE v \in Nodes : Rank(v) = i]
      /\ cable_fused' = {c \in cables : scc_id[c.from] # scc_id[c.to]}
  BY DEF Condense
<1>2. \A c \in cables : c.from \in Nodes /\ c.to \in Nodes /\ Reaches(c.from, c.to)
  BY <1>0, ReachesEdge DEF SearchTypes
<1>3. \A c \in cables : scc_id[c.from] = scc_id[c.to] <=> ClosesLoop(c)
  BY <1>0, <1>2 DEF PartitionCorrect, ClosesLoop
<1>4. \A i \in Nodes : order'[i] \in Nodes /\ Rank(order'[i]) = i
  <2>1. \A i \in Nodes : \E v \in Nodes : Rank(v) = i
    BY <1>0, RankFacts
  <2>2. \A i \in Nodes : order'[i] = CHOOSE v \in Nodes : Rank(v) = i
    BY <1>1 DEF Nodes
  <2> QED BY <2>1, <2>2
<1>5. \A v \in Nodes : Rank(v) \in Nodes /\ order'[Rank(v)] = v
  BY <1>0, <1>4, RankFacts
<1>6. order' \in Seq(Nodes) /\ DOMAIN order' = Nodes
  <2>1. order' \in [1 .. NodeCount -> Nodes]
    BY <1>1, <1>4 DEF Nodes
  <2>2. order' \in Seq(Nodes)
    BY <2>1, NodesFinite, IsASeq
  <2> QED BY <2>1, <2>2 DEF Nodes
<1>7. \A c \in cable_fused' : Rank(c.from) < Rank(c.to)
  <2> SUFFICES ASSUME NEW c \in cables, scc_id[c.from] # scc_id[c.to]
               PROVE  Rank(c.from) < Rank(c.to)
    BY <1>1
  <2>1. scc_id[c.from] >= scc_id[c.to]
    BY <1>0, <1>2 DEF PartitionCorrect
  <2>2. scc_id[c.from] \in Int /\ scc_id[c.to] \in Int
    BY <1>0, <1>2 DEF SearchTypes
  <2>3. RunsBefore(c.from, c.to)
    BY <2>1, <2>2 DEF RunsBefore
  <2> QED BY <1>0, <1>2, <2>3, RankFacts
<1>8. \A c \in cable_fused' : \A i, j \in Nodes : order'[i] = c.from /\ order'[j] = c.to => i < j
  BY <1>4, <1>7
<1>9. \A i, j \in Nodes : order'[i] = order'[j] => i = j
  BY <1>4
<1>10. \A v \in Nodes : \E i \in Nodes : order'[i] = v
  BY <1>5
<1>11. OrderRight'
  BY <1>6, <1>8, <1>9, <1>10 DEF OrderRight
<1> QED BY <1>1, <1>3, <1>11

LEMMA PositionFacts ==
  ASSUME OrderRight
  PROVE  \A v \in Nodes : /\ Position(v) \in Nodes /\ order[Position(v)] = v
                          /\ \A i \in Nodes : order[i] = v <=> Position(v) = i
<1> SUFFICES ASSUME NEW v \in Nodes
             PROVE  /\ Position(v) \in Nodes /\ order[Position(v)] = v
                    /\ \A i \in Nodes : order[i] = v <=> Position(v) = i
  OBVIOUS
<1>1. \E i \in DOMAIN order : order[i] = v
  BY DEF OrderRight
<1>2. Position(v) \in DOMAIN order /\ order[Position(v)] = v
  BY <1>1 DEF Position
<1> QED BY <1>2 DEF OrderRight

\* No validator fires.
LEMMA ValidatorsPass ==
  ASSUME PlanInv, stage = "classify"
  PROVE  FusedPointForward /\ DelayedInCycle(CyclePorts)
<1>0. OrderRight /\ FusedRight /\ cables \subseteq Cables
  BY DEF PlanInv
<1>1. \A c \in cable_fused : c.from \in Nodes /\ c.to \in Nodes
  BY <1>0, ReachesEdge DEF FusedRight
<1>2. FusedPointForward
  <2>1. \A c \in cable_fused : /\ Position(c.from) \in Nodes /\ order[Position(c.from)] = c.from
                              /\ Position(c.to) \in Nodes /\ order[Position(c.to)] = c.to
    BY <1>0, <1>1, PositionFacts
  <2> QED BY <1>0, <2>1 DEF FusedPointForward, OrderRight
<1> QED BY <1>2 DEF DelayedInCycle, CyclePorts

LEMMA PlanKept ==
  ASSUME PlanInv, UNCHANGED <<cables, stage, planVars>>,
         stage = "search" \/ UNCHANGED searchVars
  PROVE  PlanInv'
<1>1. UNCHANGED <<cables, stage, order, cable_fused, cycle_ports>>
  BY DEF planVars
<1>2. OrderRight => OrderRight'
  BY <1>1 DEF OrderRight
<1>3. \A c : ClosesLoop(c)' <=> ClosesLoop(c)
  BY <1>1, ReachesKept DEF ClosesLoop
<1>4. FusedRight => FusedRight'
  BY <1>1, <1>3 DEF FusedRight, CyclePorts
<1>5. CASE stage = "search"
  BY <1>1, <1>5 DEF PlanInv
<1>6. CASE UNCHANGED searchVars
  BY <1>1, <1>2, <1>4, <1>6 DEF PlanInv, searchVars
<1> QED BY <1>5, <1>6

LEMMA PlanStep == SearchInv /\ PlanInv /\ [Next]_vars => PlanInv'
<1> SUFFICES ASSUME SearchInv, PlanInv, [Next]_vars PROVE PlanInv' OBVIOUS
<1>1. CASE \E v \in Nodes : VisitRoot(v)
  BY <1>1, PlanKept DEF VisitRoot
<1>2. CASE \E c \in cables : Follow(c)
  BY <1>2, PlanKept DEF Follow
<1>3. CASE Retreat
  BY <1>3, PlanKept DEF Retreat
<1>4. CASE Condense
  <2>1. OrderRight' /\ cable_fused' = {c \in cables : ~ClosesLoop(c)}
    BY <1>4, CondenseOrders
  <2>2. stage = "search" /\ stage' = "classify" /\ work = <<>> /\ SearchDone
        /\ UNCHANGED <<cables, stack, work, left, cycle_ports>>
        /\ index' = AllUnset /\ scc_id' = AllUnset /\ lowlink' = [v \in Nodes |-> 0]
    BY <1>4 DEF Condense, SearchDone
  <2>3. stack = <<>> /\ left \in [Nodes -> SUBSET cables]
    BY <2>2, SearchEnds DEF SearchInv, SearchTypes
  <2>4. \A c : ClosesLoop(c)' <=> ClosesLoop(c)
    BY <2>2, ReachesKept DEF ClosesLoop
  <2>5. FusedRight'
    BY <2>1, <2>2, <2>4 DEF FusedRight, PlanInv
  <2>6. stage' # "search" /\ stage' = "classify"
    BY <2>2
  <2>7. AllUnset' = AllUnset /\ cables' \subseteq Cables
    BY <2>2 DEF AllUnset, PlanInv
  <2> QED BY <2>1, <2>2, <2>3, <2>5, <2>6, <2>7 DEF PlanInv
<1>5. CASE Classify
  <2>1. /\ stage = "classify" /\ stage' = "run" /\ cycle_ports' = CyclePorts
        /\ UNCHANGED <<cables, searchVars, order, cable_fused>>
    BY <1>5, ValidatorsPass DEF Classify
  <2>2. \A c : ClosesLoop(c)' <=> ClosesLoop(c)
    BY <2>1, ReachesKept DEF ClosesLoop
  <2>3. OrderRight /\ FusedRight
    BY <2>1 DEF PlanInv
  <2>4. OrderRight' /\ FusedRight'
    BY <2>1, <2>2, <2>3 DEF OrderRight, FusedRight, CyclePorts
  <2> QED BY <2>1, <2>4 DEF PlanInv, searchVars
<1>6. CASE BeginTick \/ Process
  BY <1>6, PlanKept DEF BeginTick, Process, planVars
<1>7. CASE EndTick
  BY <1>7, PlanKept DEF EndTick
<1>8. CASE UNCHANGED vars
  BY <1>8, PlanKept DEF vars
<1> QED BY <1>1, <1>2, <1>3, <1>4, <1>5, <1>6, <1>7, <1>8 DEF Next

-----------------------------------------------------------------------------
(* How old every value is.                                                   *)

\* Between ticks the next one is about to start, and nothing of it is written.
Now == IF pos = Between THEN tick + 1 ELSE tick
Wrote(p) == Position(p[1]) <= pos
TwoTicksAgo == IF Now = 1 THEN 0 ELSE Now - 2

PortAge(p) ==
  IF p \in cycle_ports
  THEN /\ cycle[p][wi] = IF Wrote(p) THEN Now ELSE TwoTicksAgo
       /\ cycle[p][1 - wi] = Now - 1
  ELSE scratch[p] = IF Wrote(p) THEN Now ELSE Now - 1

Resting ==
  /\ tick = 0 /\ pos = Between /\ wi = 0 /\ sample_counter = 0
  /\ \A p \in Ports : scratch[p] = 0 /\ cycle[p][0] = 0 /\ cycle[p][1] = 0

TickTypes ==
  /\ scratch \in [Ports -> 0 .. MaxTicks]
  /\ cycle \in [Ports -> [{0, 1} -> 0 .. MaxTicks]]
  /\ wi \in {0, 1} /\ tick \in 0 .. MaxTicks
  /\ sample_counter \in 0 .. UpdateInterval - 1
  /\ pos \in -1 .. NodeCount

TickInv ==
  /\ TickTypes
  /\ stage # "run" => Resting
  /\ pos # Between => tick > 0
  /\ stage = "run" => \A p \in Ports : PortAge(p)

LEMMA TickInit == Init => TickInv
<1> SUFFICES ASSUME Init PROVE TickInv OBVIOUS
<1>1. TickTypes
  BY BoundsAssumption, IntervalAssumption, NodesFinite DEF Init, TickTypes, Between
<1>2. \A p \in Ports : scratch[p] = 0 /\ cycle[p][0] = 0 /\ cycle[p][1] = 0
  BY DEF Init
<1>3. stage # "run" /\ Resting
  BY <1>2 DEF Init, Resting
<1> QED BY <1>1, <1>3 DEF TickInv, Resting

LEMMA PortOwner == \A p \in Ports : p[1] \in Nodes
  BY DEF Ports, PortsOf

LEMMA TickKept ==
  ASSUME TickInv, UNCHANGED <<stage, order, cycle_ports, tickVars>> PROVE TickInv'
<1>1. UNCHANGED <<stage, order, cycle_ports, scratch, cycle, wi, sample_counter, pos, tick>>
  BY DEF tickVars
<1>2. TickTypes' /\ (Resting => Resting')
  BY <1>1 DEF TickInv, TickTypes, Resting
<1>3. \A p : PortAge(p) => PortAge(p)'
  BY <1>1 DEF PortAge, Wrote, Now, TwoTicksAgo, Position
<1> QED BY <1>1, <1>2, <1>3 DEF TickInv

\* A plan is adopted with every slot silent.
LEMMA ClassifyTick ==
  ASSUME PlanInv, TickInv, Classify PROVE TickInv'
<1>1. /\ stage = "classify" /\ UNCHANGED <<order, scratch, cycle, wi, sample_counter, pos, tick>>
      /\ Resting
  BY DEF Classify, tickVars, TickInv
<1>2. TickTypes'
  BY <1>1 DEF TickInv, TickTypes
<1>3. OrderRight
  BY <1>1 DEF PlanInv
<1>4. \A p \in Ports : Position(p[1]) \in 1 .. NodeCount
  BY <1>3, PortOwner, PositionFacts DEF Nodes
<1>5. \A v : Position(v)' = Position(v)
  BY <1>1 DEF Position
<1>6. tick' = 0 /\ pos' = -1 /\ wi' = 0 /\ Now' = 1 /\ TwoTicksAgo' = 0
      /\ \A p \in Ports : scratch'[p] = 0 /\ cycle'[p][0] = 0 /\ cycle'[p][1] = 0
  BY <1>1 DEF Resting, Between, Now, TwoTicksAgo
<1>7. \A p \in Ports : ~Wrote(p)'
  BY <1>4, <1>5, <1>6 DEF Wrote
<1>8. \A p \in Ports : PortAge(p)'
  BY <1>6, <1>7 DEF PortAge
<1> QED BY <1>1, <1>2, <1>6, <1>8 DEF TickInv, Resting, Between

LEMMA BeginTickTick ==
  ASSUME PlanInv, TickInv, BeginTick PROVE TickInv'
<1>1. /\ stage = "run" /\ pos = -1 /\ tick < MaxTicks /\ tick' = tick + 1 /\ pos' = 0
      /\ sample_counter' = (sample_counter + 1) % UpdateInterval
      /\ UNCHANGED <<stage, order, cycle_ports, scratch, cycle, wi>>
  BY DEF BeginTick, Between, planVars
<1>2. tick \in 0 .. MaxTicks
  BY DEF TickInv, TickTypes
<1>3. TickTypes'
  <2>1. sample_counter' \in 0 .. UpdateInterval - 1
    <3>1. sample_counter + 1 \in Nat
      BY DEF TickInv, TickTypes
    <3> QED BY <1>1, <3>1, IntervalAssumption
  <2>2. tick' \in 0 .. MaxTicks
    BY <1>1, <1>2, BoundsAssumption
  <2>3. pos' \in -1 .. NodeCount
    BY <1>1, NodesFinite
  <2> QED BY <1>1, <2>1, <2>2, <2>3 DEF TickInv, TickTypes
<1>4. Now' = Now /\ TwoTicksAgo' = TwoTicksAgo
  BY <1>1 DEF Now, TwoTicksAgo, Between
<1>5. \A p \in Ports : ~Wrote(p) /\ ~Wrote(p)'
  <2>1. \A p \in Ports : Position(p[1]) \in 1 .. NodeCount
    BY <1>1, PortOwner, PositionFacts DEF PlanInv, Nodes
  <2>2. \A v : Position(v)' = Position(v)
    BY <1>1 DEF Position
  <2> QED BY <1>1, <2>1, <2>2 DEF Wrote
<1>6. \A p \in Ports : PortAge(p)'
  <2>1. \A p \in Ports : PortAge(p)
    BY <1>1 DEF TickInv
  <2> QED BY <1>1, <1>4, <1>5, <2>1 DEF PortAge
<1> QED BY <1>1, <1>2, <1>3, <1>6 DEF TickInv

LEMMA ProcessTick ==
  ASSUME PlanInv, TickInv, Process PROVE TickInv'
<1> DEFINE written == PortsOf(order[pos + 1])
<1>1. /\ stage = "run" /\ pos \in 0 .. NodeCount - 1 /\ pos' = pos + 1
      /\ scratch' = [p \in Ports |-> IF p \in written \ cycle_ports THEN tick ELSE scratch[p]]
      /\ cycle' = [p \in Ports |-> IF p \in written \cap cycle_ports
                                   THEN [cycle[p] EXCEPT ![wi] = tick] ELSE cycle[p]]
      /\ UNCHANGED <<stage, order, cycle_ports, wi, sample_counter, tick>>
  BY DEF Process, planVars
<1>2. TickTypes
  BY DEF TickInv
<1>3. TickTypes'
  <2>1. scratch' \in [Ports -> 0 .. MaxTicks]
    BY <1>1, <1>2 DEF TickTypes
  <2>2. cycle' \in [Ports -> [{0, 1} -> 0 .. MaxTicks]]
    <3>1. \A p \in Ports : cycle[p] \in [{0, 1} -> 0 .. MaxTicks] /\ tick \in 0 .. MaxTicks
      BY <1>2 DEF TickTypes
    <3>2. \A p \in Ports : [cycle[p] EXCEPT ![wi] = tick] \in [{0, 1} -> 0 .. MaxTicks]
      BY <3>1
    <3> QED BY <1>1, <3>1, <3>2
  <2>3. pos' \in -1 .. NodeCount
    BY <1>1, NodesFinite
  <2> QED BY <1>1, <1>2, <2>1, <2>2, <2>3 DEF TickTypes
<1>4. Now = tick /\ Now' = tick /\ TwoTicksAgo' = TwoTicksAgo /\ tick' > 0 /\ tick \in Int
  BY <1>1, <1>2 DEF Now, TwoTicksAgo, Between, TickInv, TickTypes
<1>5. \A p \in Ports : /\ p \in written <=> Position(p[1]) = pos + 1
                       /\ Position(p[1]) \in 1 .. NodeCount
  <2>1. OrderRight
    BY <1>1 DEF PlanInv
  <2>2. pos + 1 \in Nodes
    BY <1>1, NodesFinite DEF Nodes
  <2>3. \A p \in Ports : p \in written <=> p[1] = order[pos + 1]
    BY DEF Ports, PortsOf
  <2>4. \A p \in Ports : p[1] = order[pos + 1] <=> Position(p[1]) = pos + 1
    BY <2>1, <2>2, PortOwner, PositionFacts
  <2> QED BY <2>1, <2>3, <2>4, PortOwner, PositionFacts DEF Nodes
<1>6. \A p \in Ports : /\ p \in written => Wrote(p)' /\ ~Wrote(p)
                       /\ p \notin written => (Wrote(p)' <=> Wrote(p))
  <2>1. \A v : Position(v)' = Position(v)
    BY <1>1 DEF Position
  <2> HIDE DEF written
  <2> QED BY <1>1, <1>5, <2>1 DEF Wrote
<1>7. ASSUME NEW p \in Ports PROVE PortAge(p)'
  <2>1. PortAge(p)
    BY <1>1 DEF TickInv
  <2>2. cycle[p] \in [{0, 1} -> 0 .. MaxTicks] /\ wi \in {0, 1} /\ 1 - wi \in {0, 1} /\ 1 - wi # wi
    BY <1>2 DEF TickTypes
  <2>3. CASE p \in written /\ p \in cycle_ports
    <3>1. cycle'[p] = [cycle[p] EXCEPT ![wi] = tick]
      BY <1>1, <2>3
    <3>2. cycle'[p][wi] = tick /\ cycle'[p][1 - wi] = cycle[p][1 - wi]
      BY <2>2, <3>1
    <3> HIDE DEF written
    <3> QED BY <1>1, <1>4, <1>6, <2>1, <2>3, <3>2 DEF PortAge
  <2>4. CASE p \in written /\ p \notin cycle_ports
    <3>1. scratch'[p] = tick
      BY <1>1, <2>4
    <3> HIDE DEF written
    <3> QED BY <1>1, <1>4, <1>6, <2>4, <3>1 DEF PortAge
  <2>5. CASE p \notin written
    <3>1. scratch'[p] = scratch[p] /\ cycle'[p] = cycle[p]
      BY <1>1, <2>5
    <3> HIDE DEF written
    <3> QED BY <1>1, <1>4, <1>6, <2>1, <2>5, <3>1 DEF PortAge
  <2> QED BY <2>3, <2>4, <2>5
<1> QED BY <1>1, <1>3, <1>4, <1>7 DEF TickInv

LEMMA EndTickTick ==
  ASSUME PlanInv, TickInv, EndTick PROVE TickInv'
<1>1. /\ pos = NodeCount /\ pos' = -1 /\ wi' = 1 - wi
      /\ UNCHANGED <<stage, order, cycle_ports, scratch, cycle, sample_counter, tick>>
  BY DEF EndTick, planVars, Between
<1>2. TickTypes
  BY DEF TickInv
<1>3. pos # -1 /\ stage = "run" /\ tick > 0 /\ tick \in Int
  BY <1>1, <1>2, NodesFinite DEF TickInv, TickTypes, Resting, Between
<1>4. wi' \in {0, 1} /\ 1 - wi' = wi
  BY <1>1, <1>2 DEF TickTypes
<1>5. TickTypes'
  <2>1. pos' \in -1 .. NodeCount
    BY <1>1, NodesFinite
  <2> QED BY <1>1, <1>2, <1>4, <2>1 DEF TickTypes
<1>6. Now = tick /\ Now' = tick + 1 /\ TwoTicksAgo' = tick - 1
  BY <1>1, <1>3 DEF Now, TwoTicksAgo, Between
<1>7. \A p \in Ports : Wrote(p) /\ ~Wrote(p)'
  <2>1. \A p \in Ports : Position(p[1]) \in 1 .. NodeCount
    BY <1>3, PortOwner, PositionFacts DEF PlanInv, Nodes
  <2>2. \A v : Position(v)' = Position(v)
    BY <1>1 DEF Position
  <2> QED BY <1>1, <2>1, <2>2 DEF Wrote
<1>8. \A p \in Ports : PortAge(p)'
  <2>1. \A p \in Ports : PortAge(p)
    BY <1>3 DEF TickInv
  <2> QED BY <1>1, <1>3, <1>4, <1>6, <1>7, <2>1 DEF PortAge
<1> QED BY <1>1, <1>3, <1>5, <1>8 DEF TickInv, Between

LEMMA TickStep == PlanInv /\ TickInv /\ [Next]_vars => TickInv'
<1> SUFFICES ASSUME PlanInv, TickInv, [Next]_vars PROVE TickInv' OBVIOUS
<1>1. CASE \E v \in Nodes : VisitRoot(v)
  BY <1>1, TickKept DEF VisitRoot, planVars
<1>2. CASE \E c \in cables : Follow(c)
  BY <1>2, TickKept DEF Follow, planVars
<1>3. CASE Retreat
  BY <1>3, TickKept DEF Retreat, planVars
<1>4. CASE Condense
  <2>1. /\ stage # "run" /\ stage' # "run"
        /\ UNCHANGED <<scratch, cycle, wi, sample_counter, pos, tick>>
    BY <1>4 DEF Condense, tickVars
  <2> QED BY <2>1 DEF TickInv, TickTypes, Resting
<1>5. CASE Classify
  BY <1>5, ClassifyTick
<1>6. CASE BeginTick
  BY <1>6, BeginTickTick
<1>7. CASE Process
  BY <1>7, ProcessTick
<1>8. CASE EndTick
  BY <1>8, EndTickTick
<1>9. CASE UNCHANGED vars
  BY <1>9, TickKept DEF vars, planVars
<1> QED BY <1>1, <1>2, <1>3, <1>4, <1>5, <1>6, <1>7, <1>8, <1>9 DEF Next

-----------------------------------------------------------------------------
(* The theorems.                                                             *)

FusionInv == SearchInv /\ PlanInv /\ TickInv

\* The inductive invariant holds in every reachable state (CableFusion, every action).
THEOREM FusionInvariant == Spec => []FusionInv
<1>1. Init => FusionInv
  <2> SUFFICES ASSUME Init PROVE FusionInv OBVIOUS
  <2>1. PlanInv
    BY DEF Init, PlanInv
  <2> QED BY <2>1, SearchInit, TickInit DEF FusionInv
<1>2. FusionInv /\ [Next]_vars => FusionInv'
  BY SearchStep, PlanStep, TickStep DEF FusionInv
<1> QED BY <1>1, <1>2, PTL DEF Spec

LEMMA FusionTypes == FusionInv => TypeOK
<1> SUFFICES ASSUME SearchInv, PlanInv, TickInv PROVE TypeOK
  BY DEF FusionInv
<1>1. TickTypes
  BY DEF TickInv
<1>2. /\ SearchTypes /\ IsInjective(stack) /\ ToSet(work) \subseteq ToSet(stack)
  <2>1. CASE stage = "search"
    <3>1. SearchTypes /\ Numbering
      BY <2>1 DEF SearchInv
    <3>2. IsInjective(stack)
      <4>1. \A i \in DOMAIN stack : i \in Int /\ index[stack[i]] \in Int
        BY <3>1 DEF SearchTypes
      <4>2. \A i, j \in DOMAIN stack : i < j => index[stack[i]] < index[stack[j]]
        BY <3>1 DEF Numbering
      <4>3. \A i, j \in DOMAIN stack : stack[i] = stack[j] => ~(i < j) /\ ~(j < i)
        BY <4>1, <4>2
      <4> QED BY <4>1, <4>3 DEF IsInjective
    <3>3. ToSet(work) \subseteq ToSet(stack)
      BY <3>1 DEF Numbering, On, Path, ToSet
    <3> QED BY <3>1, <3>2, <3>3
  <2>2. CASE stage # "search"
    <3>1. /\ index = AllUnset /\ scc_id = AllUnset /\ lowlink = [v \in Nodes |-> 0]
          /\ stack = <<>> /\ work = <<>> /\ left \in [Nodes -> SUBSET cables]
          /\ cables \subseteq Cables
      BY <2>2 DEF PlanInv
    <3>2. -1 \in -1 .. NodeCount - 1 /\ 0 \in 0 .. NodeCount - 1
      BY NodeCountAssumption
    <3>3. SearchTypes
      BY <3>1, <3>2 DEF SearchTypes, AllUnset, Unset
    <3> QED BY <3>1, <3>3 DEF IsInjective, ToSet
  <2> QED BY <2>1, <2>2
<1>3. order \in Seq(Nodes) /\ IsInjective(order)
  <2>1. CASE stage = "search"
    BY <2>1 DEF PlanInv, IsInjective
  <2>2. CASE stage # "search"
    <3>1. OrderRight
      BY <2>2 DEF PlanInv
    <3> QED BY <3>1 DEF OrderRight, IsInjective
  <2> QED BY <2>1, <2>2
<1>4. \A c \in cables : PortOf(c) \in Ports
  BY <1>2 DEF SearchTypes, Cables, PortOf, Ports, PortsOf
<1>5. cable_fused \subseteq cables /\ cycle_ports \subseteq Ports
  BY <1>4 DEF PlanInv, FusedRight, CyclePorts
<1> QED BY <1>1, <1>2, <1>3, <1>5 DEF TypeOK, PlanInv, SearchTypes, TickTypes

\* Tarjan's loop finds the strongly connected components of every patch, numbered
\* against the direction of the cables (tarjan_scc).
THEOREM ComponentsAlwaysRight == Spec => []ComponentsRight
<1>1. FusionInv => ComponentsRight
  BY FusionTypes, PartitionRight DEF FusionInv, ComponentsRight
<1> QED BY <1>1, FusionInvariant, PTL

\* No patch trips the validators of the planner (validate_fused_invariant,
\* validate_scratch_fused_consistency).
THEOREM NeverEverRejected == Spec => []NeverRejected
<1>1. FusionInv => NeverRejected
  BY DEF FusionInv, PlanInv, NeverRejected
<1> QED BY <1>1, FusionInvariant, PTL

LEMMA ReadAges ==
  ASSUME FusionInv, stage = "run", NEW c \in cables
  PROVE  /\ c.from \in Nodes /\ c.to \in Nodes
         /\ c \in cable_fused <=> ~ClosesLoop(c)
         /\ ClosesLoop(c) => PortOf(c) \in cycle_ports /\ Read(c) = Now - 1
         /\ ~ClosesLoop(c) /\ Position(c.from) <= pos => Read(c) = Now
         /\ ~ClosesLoop(c) /\ ~(Position(c.from) <= pos) =>
              Read(c) = IF PortOf(c) \in cycle_ports THEN TwoTicksAgo ELSE Now - 1
<1>1. cables \subseteq Cables /\ FusedRight /\ cycle_ports = CyclePorts
  BY DEF FusionInv, PlanInv, FusedRight
<1>2. c.from \in Nodes /\ c.to \in Nodes
  BY <1>1, ReachesEdge
<1>3. PortOf(c) \in Ports /\ PortOf(c)[1] = c.from
  BY <1>1 DEF Cables, PortOf, Ports, PortsOf
<1>4. PortAge(PortOf(c)) /\ (Wrote(PortOf(c)) <=> Position(c.from) <= pos)
  BY <1>3 DEF FusionInv, TickInv, Wrote
<1>5. c \in cable_fused <=> ~ClosesLoop(c)
  BY <1>1 DEF FusedRight
<1>6. ClosesLoop(c) => PortOf(c) \in cycle_ports
  BY <1>1, <1>5 DEF CyclePorts
<1> QED BY <1>2, <1>4, <1>5, <1>6 DEF Read, PortAge

\* Every read of the audio thread gives the value of the tick it may be taken for
\* (CablePool::read_raw, the plan's order and the fused flags).
THEOREM CablesAlwaysOnTime == Spec => []CablesOnTime
<1>1. ASSUME FusionInv PROVE TurnsOnTime
  <2> SUFFICES ASSUME stage = "run", pos \in 0 .. NodeCount - 1,
                      NEW c \in CablesInto(order[pos + 1])
               PROVE  Read(c) = IF ClosesLoop(c) THEN tick - 1 ELSE tick
    BY DEF TurnsOnTime
  <2>1. c \in cables /\ c.to = order[pos + 1] /\ Now = tick
    BY DEF CablesInto, Now, Between
  <2>2. OrderRight /\ c.from \in Nodes
    BY <1>1, <2>1, ReadAges DEF FusionInv, PlanInv
  <2>3. CASE ClosesLoop(c)
    BY <1>1, <2>1, <2>3, ReadAges
  <2>4. CASE ~ClosesLoop(c)
    <3>1. pos + 1 \in Nodes /\ Position(c.from) \in Nodes /\ order[Position(c.from)] = c.from
      BY <2>2, NodesFinite, PositionFacts DEF Nodes
    <3>2. Position(c.from) < pos + 1
      <4>1. c \in cable_fused
        BY <1>1, <2>1, <2>4, ReadAges
      <4>2. \A i, j \in Nodes : order[i] = c.from /\ order[j] = c.to => i < j
        BY <2>2, <4>1 DEF OrderRight
      <4> QED BY <2>1, <3>1, <4>2
    <3>3. Position(c.from) <= pos
      BY <3>1, <3>2 DEF Nodes
    <3> QED BY <1>1, <2>1, <2>4, <3>3, ReadAges
  <2> QED BY <2>3, <2>4
<1>2. ASSUME FusionInv PROVE PeriodicLag
  <2> SUFFICES ASSUME stage = "run", pos = Between, 0 < tick, NEW c \in cables
               PROVE  Read(c) = IF PortOf(c) \in cycle_ports /\ ~ClosesLoop(c)
                                THEN tick - 1 ELSE tick
    BY DEF PeriodicLag
  <2>1. tick \in Int
    BY <1>2 DEF FusionInv, TickInv, TickTypes
  <2>2. Now = tick + 1 /\ TwoTicksAgo = tick - 1
    BY <2>1 DEF Now, TwoTicksAgo
  <2>3. ~(Position(c.from) <= pos)
    <3>1. Position(c.from) \in Nodes
      BY <1>2, ReadAges, PositionFacts DEF FusionInv, PlanInv
    <3> QED BY <3>1, NodesFinite DEF Nodes, Between
  <2> QED BY <1>2, <2>1, <2>2, <2>3, ReadAges
<1>3. FusionInv => CablesOnTime
  BY <1>1, <1>2 DEF CablesOnTime
<1> QED BY <1>3, FusionInvariant, PTL

=============================================================================
