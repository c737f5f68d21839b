---------------------------- MODULE MCHostControls ----------------------------
EXTENDS HostControls

\* No control; two patches that share control 2, in another slot of each; and 2 as
\* another kind.  Three names with five ids overflow a table of two tombstones.
MCManifests == {
  [n \in {} |-> "knob"],
  [n \in {1, 2} |-> "knob"],
  [n \in {2, 3} |-> "knob"],
  [n \in {2} |-> "trigger"]}
=============================================================================
