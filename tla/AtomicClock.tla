----------------------------- MODULE AtomicClock ------------------------------
(***************************************************************************)
(* What AudioClock promises the MIDI threads: an anchor that is published  *)
(* and read in one step.  An anchor is the number of its publication,      *)
(* standing for the sample count and the wall time published together.     *)
(* A reader may look again before it returns.                              *)
(***************************************************************************)
EXTENDS Naturals

CONSTANT Reader

VARIABLES
  anchor,   \* the anchor published last
  looked,   \* per reader, the anchor it looked at last
  returned  \* per reader, the anchor its last read returned

acVars == <<anchor, looked, returned>>

Init ==
  /\ anchor = 0
  /\ looked = [r \in Reader |-> 0]
  /\ returned = [r \in Reader |-> [count |-> 0, wall |-> 0]]

Publish == anchor' = anchor + 1 /\ UNCHANGED <<looked, returned>>

Look(r) == looked' = [looked EXCEPT ![r] = anchor] /\ UNCHANGED <<anchor, returned>>

Return(r) ==
  /\ returned' = [returned EXCEPT ![r] = [count |-> looked[r], wall |-> looked[r]]]
  /\ UNCHANGED <<anchor, looked>>

Next == Publish \/ \E r \in Reader : Look(r) \/ Return(r)

Spec == Init /\ [][Next]_acVars
=============================================================================
