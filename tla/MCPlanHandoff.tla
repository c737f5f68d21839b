--------------------------- MODULE MCPlanHandoff ---------------------------
(* TLC instance of PlanHandoff: two nodes whose kind and settings may change *)
(* at every reload, and a pool with no slot to spare.                        *)
EXTENDS PlanHandoff

pending == plan_ring \o outgoing

\* PlanHandoff implements the reload the musician is promised.
Promise == INSTANCE HotReload WITH
  wanted  <- nodes,
  issued  <- 1 .. next_id - 1,
  sent    <- generation + Len(outgoing),
  queue   <- [i \in DOMAIN pending |-> Range(pending[i].target)],
  running <- {pool[s] : s \in active}

ImplementsReload == Promise!Spec
=============================================================================
