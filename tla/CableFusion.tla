----------------------------- MODULE CableFusion -----------------------------
(***************************************************************************)
(* Execution order and cable fusion, from the patch graph to the tick.     *)
(*                                                                         *)
(* The planner condenses the module graph with Tarjan's algorithm, runs    *)
(* the components in topological order and calls a cable fused when its    *)
(* ends lie in different components.  A fused cable is read in the tick    *)
(* it is written, any other one tick late.  A port with a delayed reader   *)
(* lives in the cycle region, in a pair of values written in turn; a port  *)
(* whose readers are all fused lives in the scratch region, in one value.  *)
(* Two validators check the result before the plan is built, and the       *)
(* audio thread then ticks it: coefficient updates of the periodic modules *)
(* every few ticks, then every module in order.                            *)
(*                                                                         *)
(* Nodes are numbered in the order of their names.  The node list and the  *)
(* edge list come out of hash maps, so the search may start anywhere and   *)
(* follow the cables of a node in any order.  The value of a port is the   *)
(* number of the tick that wrote it, zero for silence.                     *)
(***************************************************************************)
EXTENDS Integers, Sequences, FiniteSets, SequencesExt

CONSTANTS
  NodeCount,      \* modules in the patch
  Outputs,        \* output positions of each module
  UpdateInterval, \* periodic_update_interval
  MaxCables,      \* bound: cables of a patch
  MaxTicks        \* bound: ticks run

ASSUME NodeCountAssumption == NodeCount \in Nat \ {0}
ASSUME OutputsAssumption ==
  DOMAIN Outputs = 1 .. NodeCount /\ \A v \in 1 .. NodeCount : IsFiniteSet(Outputs[v])
ASSUME IntervalAssumption == UpdateInterval \in Nat \ {0}
ASSUME BoundsAssumption == MaxCables \in Nat /\ MaxTicks \in Nat

VARIABLES
  cables,         \* index.edges of the patch
  stage,          \* "search", "classify", "run" or "rejected"
  index, lowlink, \* Tarjan's numbers of a node
  stack,          \* nodes visited whose component is not closed
  work,           \* path of the search, from its root
  left,           \* cables of a node not followed yet
  scc_id,         \* component of a node, numbered as they close
  order,          \* Topology::order
  cable_fused,    \* the cables that are fused
  cycle_ports,    \* ports placed in the cycle region
  scratch, cycle, \* the two regions of the pool, a slot for each port
  wi,             \* half of the cycle slots this tick writes
  sample_counter, \* ticks until the next periodic update, in the interval
  pos,            \* modules processed in this tick, or Between ticks
  tick            \* number of this tick

searchVars == <<index, lowlink, stack, work, left, scc_id>>
planVars   == <<order, cable_fused, cycle_ports>>
tickVars   == <<scratch, cycle, wi, sample_counter, pos, tick>>
vars       == <<cables, stage, searchVars, planVars, tickVars>>

-----------------------------------------------------------------------------
Nodes == 1 .. NodeCount
PortsOf(v) == {v} \X Outputs[v]
Ports == UNION {PortsOf(v) : v \in Nodes}
Cables == UNION {[from : {v}, out : Outputs[v], to : Nodes] : v \in Nodes}
PortOf(c) == <<c.from, c.out>>
CablesFrom(v) == {c \in cables : c.from = v}
CablesInto(v) == {c \in cables : c.to = v}

Unset == -1        \* usize::MAX in index and scc_id
Between == -1      \* no tick is under way
AllUnset == [v \in Nodes |-> Unset]
MinOf(a, b) == IF a < b THEN a ELSE b

Init ==
  /\ cables \in {g \in SUBSET Cables : Cardinality(g) <= MaxCables}
  /\ stage = "search"
  /\ index = AllUnset /\ lowlink = [v \in Nodes |-> 0] /\ scc_id = AllUnset
  /\ stack = <<>> /\ work = <<>>
  /\ left = [v \in Nodes |-> CablesFrom(v)]
  /\ order = <<>> /\ cable_fused = {} /\ cycle_ports = {}
  /\ scratch = [p \in Ports |-> 0]
  /\ cycle = [p \in Ports |-> [h \in {0, 1} |-> 0]]
  /\ wi = 0 /\ sample_counter = 0 /\ pos = Between /\ tick = 0

-----------------------------------------------------------------------------
(* tarjan_scc: one step for each turn of its loops.                        *)

Visited(v) == index[v] # Unset
OnStack(v) == v \in ToSet(stack)
Top == Last(work)

NextIndex == Cardinality({v \in Nodes : Visited(v)})

Visit(v) ==
  /\ index' = [index EXCEPT ![v] = NextIndex]
  /\ lowlink' = [lowlink EXCEPT ![v] = NextIndex]
  /\ stack' = Append(stack, v)
  /\ work' = Append(work, v)

VisitRoot(v) ==
  /\ stage = "search" /\ work = <<>> /\ ~Visited(v)
  /\ Visit(v)
  /\ UNCHANGED <<cables, stage, left, scc_id, planVars, tickVars>>

\* Mutant: an edge into a closed component tightens like any other.
TightenedByAny(v, w) == MinOf(lowlink[v], index[w])

\* The lowlink of v after an edge to a node w visited before.
Tightened(v, w) == IF OnStack(w) THEN MinOf(lowlink[v], index[w]) ELSE lowlink[v]

\* The next successor of the node on top: recurse into it, or tighten.
Follow(c) ==
  /\ stage = "search" /\ work # <<>> /\ c \in left[Top]
  /\ left' = [left EXCEPT ![Top] = @ \ {c}]
  /\ \/ ~Visited(c.to) /\ Visit(c.to)
     \/ /\ Visited(c.to)
        /\ lowlink' = [lowlink EXCEPT ![Top] = Tightened(Top, c.to)]
        /\ UNCHANGED <<index, stack, work>>
  /\ UNCHANGED <<cables, stage, scc_id, planVars, tickVars>>

\* Components closed so far, members_rev.len().
SccCount == Cardinality({scc_id[v] : v \in Nodes} \ {Unset})

\* Pop the stack down to v: a component, numbered next.
CloseComponent(v) ==
  LET at == CHOOSE i \in DOMAIN stack : stack[i] = v
      group == ToSet(SubSeq(stack, at, Len(stack)))
  IN  /\ stack' = SubSeq(stack, 1, at - 1)
      /\ scc_id' = [u \in Nodes |-> IF u \in group THEN SccCount ELSE scc_id[u]]

\* The successors of the node on top are explored: close its component if it
\* is the root of one, and hand its lowlink to its parent.
Retreat ==
  /\ stage = "search" /\ work # <<>> /\ left[Top] = {}
  /\ work' = Front(work)
  /\ \/ lowlink[Top] = index[Top] /\ CloseComponent(Top)
     \/ lowlink[Top] # index[Top] /\ UNCHANGED <<stack, scc_id>>
  /\ lowlink' = [v \in Nodes |-> IF work' # <<>> /\ v = Last(work')
                                 THEN MinOf(lowlink[v], lowlink[Top])
                                 ELSE lowlink[v]]
  /\ UNCHANGED <<cables, stage, index, left, planVars, tickVars>>

-----------------------------------------------------------------------------
(* Topology, PortClassification and the two validators.                    *)

\* Components run in the reverse of the order they closed in, the members of
\* one by name.
RunsBefore(u, v) == scc_id[u] > scc_id[v] \/ (scc_id[u] = scc_id[v] /\ u < v)
Rank(v) == Cardinality({u \in Nodes : RunsBefore(u, v)}) + 1

\* Topology::build: the order and the fused cables; the partition is dropped.
Condense ==
  /\ stage = "search" /\ work = <<>> /\ \A v \in Nodes : Visited(v)
  /\ order' = [i \in 1 .. NodeCount |-> CHOOSE v \in Nodes : Rank(v) = i]
  /\ cable_fused' = {c \in cables : scc_id[c.from] # scc_id[c.to]}
  /\ index' = AllUnset /\ scc_id' = AllUnset
  /\ lowlink' = [v \in Nodes |-> 0]
  /\ stage' = "classify"
  /\ UNCHANGED <<cables, stack, work, left, cycle_ports, tickVars>>

\* Mutant: the port is scratch as soon as one of its readers is fused.
CyclePortsIfAllDelayed ==
  {p \in Ports : /\ \E c \in cables : PortOf(c) = p
                 /\ \A c \in cables : PortOf(c) = p => c \notin cable_fused}

\* Ports with at least one delayed reader.
CyclePorts == {PortOf(c) : c \in cables \ cable_fused}

Position(v) == CHOOSE i \in DOMAIN order : order[i] = v

\* validate_fused_invariant.
FusedPointForward == \A c \in cable_fused : Position(c.from) < Position(c.to)

\* validate_scratch_fused_consistency, of ports placed where `placed` says.
DelayedInCycle(placed) == \A c \in cables \ cable_fused : PortOf(c) \in placed

\* The port classification, the allocation that follows it and the validators
\* around it: a plan, or an error.
Classify ==
  /\ stage = "classify"
  /\ cycle_ports' = CyclePorts
  /\ stage' = IF FusedPointForward /\ DelayedInCycle(CyclePorts)
              THEN "run" ELSE "rejected"
  /\ UNCHANGED <<cables, searchVars, order, cable_fused, tickVars>>

-----------------------------------------------------------------------------
(* The tick.                                                               *)

\* Mutant: every cycle slot is read a tick late, whoever reads it.
ReadDelayed(c) ==
  IF PortOf(c) \in cycle_ports THEN cycle[PortOf(c)][1 - wi] ELSE scratch[PortOf(c)]

\* CablePool::read_raw.
Read(c) ==
  IF PortOf(c) \in cycle_ports
  THEN cycle[PortOf(c)][IF c \in cable_fused THEN wi ELSE 1 - wi]
  ELSE scratch[PortOf(c)]

\* The tick starts; when the counter is zero the periodic modules read their
\* inputs first.
BeginTick ==
  /\ stage = "run" /\ pos = Between /\ tick < MaxTicks
  /\ tick' = tick + 1 /\ pos' = 0
  /\ sample_counter' = (sample_counter + 1) % UpdateInterval
  /\ UNCHANGED <<cables, stage, searchVars, planVars, scratch, cycle, wi>>

\* The next module reads its inputs and writes its outputs.
Process ==
  /\ stage = "run" /\ pos \in 0 .. NodeCount - 1
  /\ LET written == PortsOf(order[pos + 1])
     IN  /\ scratch' = [p \in Ports |->
                          IF p \in written \ cycle_ports THEN tick ELSE scratch[p]]
         /\ cycle' = [p \in Ports |->
                        IF p \in written \cap cycle_ports
                        THEN [cycle[p] EXCEPT ![wi] = tick] ELSE cycle[p]]
  /\ pos' = pos + 1
  /\ UNCHANGED <<cables, stage, searchVars, planVars, wi, sample_counter, tick>>

\* The tick ends: the halves swap.
EndTick ==
  /\ pos = NodeCount
  /\ pos' = Between /\ wi' = 1 - wi
  /\ UNCHANGED <<cables, stage, searchVars, planVars, scratch, cycle, sample_counter, tick>>

Next ==
  \/ \E v \in Nodes : VisitRoot(v)
  \/ \E c \in cables : Follow(c)
  \/ Retreat
  \/ Condense
  \/ Classify
  \/ BeginTick
  \/ Process
  \/ EndTick

Spec == Init /\ [][Next]_vars

-----------------------------------------------------------------------------
\* Every variable has its type; the stack holds no node twice and the numbers
\* Tarjan's search gives are dense.
TypeOK ==
  /\ cables \subseteq Cables
  /\ stage \in {"search", "classify", "run", "rejected"}
  /\ index \in [Nodes -> -1 .. NodeCount - 1]
  /\ lowlink \in [Nodes -> 0 .. NodeCount - 1]
  /\ stack \in Seq(Nodes) /\ IsInjective(stack)
  /\ work \in Seq(Nodes) /\ ToSet(work) \subseteq ToSet(stack)
  /\ left \in [Nodes -> SUBSET cables]
  /\ scc_id \in [Nodes -> -1 .. NodeCount - 1]
  /\ order \in Seq(Nodes) /\ IsInjective(order)
  /\ cable_fused \subseteq cables
  /\ cycle_ports \subseteq Ports
  /\ scratch \in [Ports -> 0 .. MaxTicks]
  /\ cycle \in [Ports -> [{0, 1} -> 0 .. MaxTicks]]
  /\ wi \in {0, 1} /\ tick \in 0 .. MaxTicks
  /\ sample_counter \in 0 .. UpdateInterval - 1
  /\ pos \in -1 .. NodeCount

\* The reference definition: a path of cables, possibly empty, leads from v to
\* w when no set of nodes holds v, lets no cable out and leaves w outside.
Closed(S) == \A c \in cables : c.from \in S => c.to \in S
Reaches(v, w) == \A S \in SUBSET Nodes : v \in S /\ Closed(S) => w \in S

\* A cable is part of a feedback loop when a path leads back to its source.
ClosesLoop(c) == Reaches(c.to, c.from)

SearchDone == stage = "search" /\ work = <<>> /\ \A v \in Nodes : Visited(v)

\* Wherever the search starts and however it runs, the hand-written loop finds
\* the strongly connected components, and numbers them against the direction
\* of the cables (tarjan_scc, "Tarjan emits SCCs in reverse topological order").
PartitionCorrect ==
  SearchDone =>
    \A v, w \in Nodes :
      /\ scc_id[v] = scc_id[w] <=> Reaches(v, w) /\ Reaches(w, v)
      /\ Reaches(v, w) => scc_id[v] >= scc_id[w]

\* The search keeps its stacks in order and ends with the right components.
ComponentsRight == TypeOK /\ PartitionCorrect

\* No patch trips the planner's own validators: FusedOrderViolation and
\* ScratchFusedConflict are errors of the planner, never of the patch.
NeverRejected == stage # "rejected"

\* What a module reads on a cable when its turn comes is the value of this
\* tick, except on a cable of a feedback loop, which gives the value of the
\* tick before: also when one port feeds both kinds of readers.
TurnsOnTime ==
  stage = "run" /\ pos \in 0 .. NodeCount - 1 =>
    \A c \in CablesInto(order[pos + 1]) :
      Read(c) = IF ClosesLoop(c) THEN tick - 1 ELSE tick

\* A periodic update runs before the tick writes anything and finds the value of
\* the tick before; on a cable outside the loop of a port that also feeds one, the
\* value of the tick before that.
PeriodicLag ==
  stage = "run" /\ pos = Between /\ 0 < tick /\ tick < MaxTicks /\ sample_counter = 0 =>
    \A c \in cables :
      Read(c) = IF PortOf(c) \in cycle_ports /\ ~ClosesLoop(c) THEN tick - 1 ELSE tick

\* Every value is as old as its reader may take it for.
CablesOnTime == TurnsOnTime /\ PeriodicLag
====================================================================
