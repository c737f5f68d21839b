----------------------------- MODULE AudioClock -------------------------------
(***************************************************************************)
(* The seqlock between the audio thread, which publishes an anchor at the  *)
(* end of every callback, and the MIDI threads that read it: every store   *)
(* and every load is a step.  The sample count and the wall time of a      *)
(* publication are both its number; a torn read pairs two numbers.         *)
(*                                                                         *)
(* The payload is not atomic, so how its accesses are ordered against the  *)
(* sequence is the machine's choice.  If Ordered, stores appear and loads  *)
(* happen as written (x86).  If not, they keep only what the Release       *)
(* stores and Acquire loads of the code demand (ARM): a payload store may  *)
(* appear before the odd sequence stored ahead of it, a payload load may   *)
(* happen after the second load of the sequence.                           *)
(*                                                                         *)
(* A publication is over before the next begins: they are a callback apart.*)
(***************************************************************************)
EXTENDS Naturals

CONSTANTS
  Reader,     \* threads that read the clock
  Ordered,    \* the machine keeps program order
  MaxPublish  \* bound: publications

ASSUME ClockAssumption == Ordered \in BOOLEAN /\ MaxPublish \in Nat

VARIABLES
  sequence,           \* odd while a publication is under way
  sample_count,
  playback_wall_time,
  published,          \* number of publish calls begun
  stores,             \* stores of the last publish that have not appeared
  pc,                 \* per reader, "idle" or "reading"
  loads,              \* per reader, loads of this attempt still to happen
  got,                \* per reader, what its loads returned
  returned            \* per reader, the anchor its last read returned

writerVars == <<sequence, sample_count, playback_wall_time, published, stores>>
readerVars == <<pc, loads, got, returned>>
vars == <<writerVars, readerVars>>

Store == {"odd", "count", "wall", "even"}
Load  == {"seq1", "count", "wall", "seq2"}
Anchor == [count : 0..MaxPublish, wall : 0..MaxPublish]

Init ==
  /\ sequence = 0 /\ sample_count = 0 /\ playback_wall_time = 0
  /\ published = 0 /\ stores = {}
  /\ pc = [r \in Reader |-> "idle"]
  /\ loads = [r \in Reader |-> {}]
  /\ got = [r \in Reader |-> [seq1 |-> 0, count |-> 0, wall |-> 0, seq2 |-> 0]]
  /\ returned = [r \in Reader |-> [count |-> 0, wall |-> 0]]

-----------------------------------------------------------------------------
(* AudioClock::publish, on the audio thread. *)

Publish ==
  /\ stores = {} /\ published < MaxPublish
  /\ published' = published + 1
  /\ stores' = Store
  /\ UNCHANGED <<sequence, sample_count, playback_wall_time, readerVars>>

\* The store f appears to the readers, once those in earlier have.
Appears(f, earlier) ==
  /\ f \in stores /\ stores \cap earlier = {}
  /\ stores' = stores \ {f}
  /\ UNCHANGED <<published, readerVars>>

StoreOdd ==
  /\ Appears("odd", {})
  /\ sequence' = 2 * published - 1
  /\ UNCHANGED <<sample_count, playback_wall_time>>

StoreCount ==
  /\ Appears("count", IF Ordered THEN {"odd"} ELSE {})
  /\ sample_count' = published
  /\ UNCHANGED <<sequence, playback_wall_time>>

StoreWall ==
  /\ Appears("wall", IF Ordered THEN {"odd", "count"} ELSE {})
  /\ playback_wall_time' = published
  /\ UNCHANGED <<sequence, sample_count>>

\* A Release store: whatever came before it has appeared.
StoreEven ==
  /\ Appears("even", {"odd", "count", "wall"})
  /\ sequence' = 2 * published
  /\ UNCHANGED <<sample_count, playback_wall_time>>

-----------------------------------------------------------------------------
(* AudioClock::read, on a MIDI thread. *)

Read(r) ==
  /\ pc[r] = "idle"
  /\ pc' = [pc EXCEPT ![r] = "reading"]
  /\ loads' = [loads EXCEPT ![r] = Load]
  /\ UNCHANGED <<writerVars, got, returned>>

\* The load f happens, once those in earlier have, and finds value.
Happens(r, f, earlier, value) ==
  /\ f \in loads[r] /\ loads[r] \cap earlier = {}
  /\ loads' = [loads EXCEPT ![r] = @ \ {f}]
  /\ got' = [got EXCEPT ![r][f] = value]
  /\ UNCHANGED <<writerVars, pc, returned>>

\* An odd sequence is loaded again.  An Acquire load: what follows it waits.
LoadSeq1(r) == sequence % 2 = 0 /\ Happens(r, "seq1", {}, sequence)
LoadCount(r) == Happens(r, "count", {"seq1"}, sample_count)
LoadWall(r) ==
  Happens(r, "wall", IF Ordered THEN {"seq1", "count"} ELSE {"seq1"}, playback_wall_time)
LoadSeq2(r) ==
  Happens(r, "seq2", IF Ordered THEN {"seq1", "count", "wall"} ELSE {"seq1"}, sequence)

\* Mutant: an even sequence is taken for the one the attempt began with.
CompareParity(r) ==
  /\ pc[r] = "reading" /\ loads[r] = {}
  /\ IF got[r].seq2 % 2 = 0
       THEN /\ pc' = [pc EXCEPT ![r] = "idle"]
            /\ returned' = [returned EXCEPT ![r] = [count |-> got[r].count, wall |-> got[r].wall]]
            /\ UNCHANGED loads
       ELSE /\ loads' = [loads EXCEPT ![r] = Load]
            /\ UNCHANGED <<pc, returned>>
  /\ UNCHANGED <<writerVars, got>>

\* Mutant: the retry loads the second sequence again and not the first.
CompareWithFirst(r) ==
  /\ pc[r] = "reading" /\ loads[r] = {}
  /\ IF got[r].seq1 = got[r].seq2
       THEN /\ pc' = [pc EXCEPT ![r] = "idle"]
            /\ returned' = [returned EXCEPT ![r] = [count |-> got[r].count, wall |-> got[r].wall]]
            /\ UNCHANGED loads
       ELSE /\ loads' = [loads EXCEPT ![r] = Load \ {"seq1"}]
            /\ UNCHANGED <<pc, returned>>
  /\ UNCHANGED <<writerVars, got>>

\* The comparison of the two sequences: the anchor is returned or read again.
Compare(r) ==
  /\ pc[r] = "reading" /\ loads[r] = {}
  /\ IF got[r].seq1 = got[r].seq2
       THEN /\ pc' = [pc EXCEPT ![r] = "idle"]
            /\ returned' = [returned EXCEPT ![r] = [count |-> got[r].count, wall |-> got[r].wall]]
            /\ UNCHANGED loads
       ELSE /\ loads' = [loads EXCEPT ![r] = Load]
            /\ UNCHANGED <<pc, returned>>
  /\ UNCHANGED <<writerVars, got>>

Writer == Publish \/ StoreOdd \/ StoreCount \/ StoreWall \/ StoreEven
Attempt(r) == LoadSeq1(r) \/ LoadCount(r) \/ LoadWall(r) \/ LoadSeq2(r) \/ Compare(r)
Next == Writer \/ \E r \in Reader : Read(r) \/ Attempt(r)

Spec == Init /\ [][Next]_vars

\* A publish that was begun goes on and so does a read; nobody has to begin one.
Fairness ==
  /\ WF_vars(StoreOdd \/ StoreCount \/ StoreWall \/ StoreEven)
  /\ \A r \in Reader : WF_vars(Attempt(r))
LiveSpec == Spec /\ Fairness

-----------------------------------------------------------------------------
(* Properties *)

TypeOK ==
  /\ sequence \in 0..(2 * MaxPublish)
  /\ sample_count \in 0..MaxPublish /\ playback_wall_time \in 0..MaxPublish
  /\ published \in 0..MaxPublish
  /\ stores \subseteq Store
  /\ pc \in [Reader -> {"idle", "reading"}]
  /\ loads \in [Reader -> SUBSET Load]
  /\ got \in [Reader -> [seq1 : 0..(2 * MaxPublish), count : 0..MaxPublish,
                         wall : 0..MaxPublish, seq2 : 0..(2 * MaxPublish)]]
  /\ returned \in [Reader -> Anchor]

\* "The seqlock protocol ensures readers never observe torn data": an anchor
\* pairs the sample count and the wall time of one publication.
NotTorn == \A r \in Reader : returned[r].count = returned[r].wall

\* The clock is an anchor that is published and read in one step: a publish
\* takes effect with its even store, and what a read returns is what was
\* published when its last attempt loaded the sequence.  Neither torn, nor
\* stale, nor older than an anchor returned before.
Atomic == INSTANCE AtomicClock WITH
  anchor <- sequence \div 2,
  looked <- [r \in Reader |-> got[r].seq1 \div 2]
ImplementsAtomic == Atomic!Spec

\* A read does not spin for ever on a writer that comes to rest.
ReadReturns == \A r \in Reader : pc[r] = "reading" ~> pc[r] = "idle"
=============================================================================
