--------------------------- MODULE MCPlanAdoption ---------------------------
(* TLC instances of PlanAdoption.                                            *)
EXTENDS PlanAdoption

Symmetry == Permutations(NodeIds) \cup Permutations(Kinds) \cup Permutations(Settings)

\* Step-by-step adoption implements PlanHandoff's one-step adoption: the whole
\* plan takes effect when it is popped.
Adopting == plan # <<>>
Handoff == INSTANCE PlanHandoff WITH
  pool    <- IF Adopting THEN current.target ELSE pool,
  active  <- IF Adopting THEN current.active_indices ELSE active,
  adopted <- IF Adopting THEN current.generation ELSE adopted

ImplementsHandoff == Handoff!Spec
=============================================================================
