------------------------------ MODULE HotReload ------------------------------
(***************************************************************************)
(* What a live reload promises, with no slot, ring or thread in sight.      *)
(*                                                                         *)
(* The musician saves a patch; the control thread builds it and sends it;  *)
(* some time later the audio thread starts running it.  Between two        *)
(* patches a node of unchanged kind (module type, shape and structural     *)
(* parameters) keeps its module instance, and with it the oscillator       *)
(* phases, envelopes and delay lines the listener hears; every other node  *)
(* gets an instance that never existed before (ADR 0009, ADR 0012).        *)
(*                                                                         *)
(* PlanHandoff implements this specification.                              *)
(***************************************************************************)
EXTENDS Naturals, Sequences

CONSTANTS
  NodeIds,      \* names of the nodes of a patch
  Kinds,        \* module type + shape + structural parameters of a node
  Settings,     \* realtime parameters and port bindings of a node
  MaxInstances, \* bound: instance ids that can be minted
  MaxReloads    \* bound: plans that can be sent

VARIABLES
  wanted,   \* node -> module of the last patch built
  issued,   \* instance ids minted so far
  sent,     \* number of plans built and sent
  queue,    \* sets of modules, one per plan sent and not yet running
  running   \* set of modules the audio thread executes

vars == <<wanted, issued, sent, queue, running>>

InstanceIds == 1 .. MaxInstances
Modules == [id : InstanceIds, kind : Kinds, settings : Settings]
Graphs == UNION {[N -> Modules] : N \in SUBSET NodeIds}

\* The modules of a graph, their node names forgotten.
ModulesOf(graph) == {graph[n] : n \in DOMAIN graph}

\* No two nodes of the graph share an instance.
DistinctInstances(graph) ==
  \A m, n \in DOMAIN graph : graph[m].id = graph[n].id => m = n

\* The instance `graph` gives to node n: the one it had if its kind did not
\* change, otherwise one that was never issued.
KeepsOrRenews(graph, n) ==
  IF n \in DOMAIN wanted /\ wanted[n].kind = graph[n].kind
  THEN graph[n].id = wanted[n].id
  ELSE graph[n].id \notin issued

Init ==
  /\ wanted = [n \in {} |-> n]
  /\ issued = {}
  /\ sent = 0
  /\ queue = <<>>
  /\ running = {}

Reload ==
  \E graph \in Graphs :
    /\ sent < MaxReloads
    /\ DistinctInstances(graph)
    /\ \A n \in DOMAIN graph : KeepsOrRenews(graph, n)
    /\ wanted' = graph
    /\ issued' = issued \cup {graph[n].id : n \in DOMAIN graph}
    /\ sent' = sent + 1
    /\ queue' = Append(queue, ModulesOf(graph))
    /\ UNCHANGED running

\* A patch that does not build changes nothing but the instance ids used up.
FailedBuild ==
  /\ issued' \in SUBSET InstanceIds
  /\ issued \subseteq issued'
  /\ UNCHANGED <<wanted, sent, queue, running>>

Adopt ==
  /\ queue # <<>>
  /\ running' = Head(queue)
  /\ queue' = Tail(queue)
  /\ UNCHANGED <<wanted, issued, sent>>

Next == Reload \/ FailedBuild \/ Adopt

Spec == Init /\ [][Next]_vars

=============================================================================
