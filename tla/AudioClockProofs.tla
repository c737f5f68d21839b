--------------------------- MODULE AudioClockProofs ---------------------------
(***************************************************************************)
(* On a machine that keeps program order the seqlock of AudioClock is an   *)
(* atomic register, for any number of readers and of publications.         *)
(*                                                                         *)
(* The invariant has two parts.  WriterOK fixes sequence and payload for   *)
(* each set of stores still to appear; an even sequence is then twice the  *)
(* number of the payload.  AttemptOK says of a reader that has loaded the  *)
(* first sequence that it is even and not ahead of the sequence, and that  *)
(* as long as it is still the sequence, what was loaded belongs to it.  If *)
(* the sequence has moved on it never comes back, so the comparison fails. *)
(***************************************************************************)
EXTENDS AudioClock, TLAPS

WriterOK ==
  \/ /\ stores = {} /\ sequence = 2 * published
     /\ sample_count = published /\ playback_wall_time = published
  \/ /\ published > 0 /\ stores = Store /\ sequence = 2 * published - 2
     /\ sample_count = published - 1 /\ playback_wall_time = published - 1
  \/ /\ published > 0 /\ stores = Store \ {"odd"} /\ sequence = 2 * published - 1
     /\ sample_count = published - 1 /\ playback_wall_time = published - 1
  \/ /\ published > 0 /\ stores = {"wall", "even"} /\ sequence = 2 * published - 1
     /\ sample_count = published /\ playback_wall_time = published - 1
  \/ /\ published > 0 /\ stores = {"even"} /\ sequence = 2 * published - 1
     /\ sample_count = published /\ playback_wall_time = published

\* x was loaded by r in its present attempt.
Loaded(r, x) == x \notin loads[r]

Matches(r) == 2 * got[r].count = got[r].seq1 /\ 2 * got[r].wall = got[r].seq1

AttemptOK(r) ==
  IF Loaded(r, "seq1")
    THEN pc[r] = "reading" =>
         /\ got[r].seq1 % 2 = 0 /\ got[r].seq1 <= sequence
         /\ got[r].seq1 = sequence =>
              /\ Loaded(r, "count") => 2 * got[r].count = got[r].seq1
              /\ Loaded(r, "wall") => 2 * got[r].wall = got[r].seq1
         /\ Loaded(r, "seq2") =>
              /\ Loaded(r, "count") /\ Loaded(r, "wall")
              /\ got[r].seq1 = got[r].seq2 => Matches(r)
    ELSE loads[r] = Load

ReaderOK == \A r \in Reader : AttemptOK(r) /\ (pc[r] = "idle" => loads[r] = {})

ClockInv == TypeOK /\ WriterOK /\ ReaderOK /\ NotTorn

-----------------------------------------------------------------------------
\* Halving, as the refinement uses it.
LEMMA Halves ==
  /\ \A n \in Nat : (2 * n) \div 2 = n /\ (2 * n) % 2 = 0
  /\ \A n \in Nat : n % 2 = 0 => n = 2 * (n \div 2)
<1>1. \A n \in Nat : (2 * n) \div 2 = n /\ (2 * n) % 2 = 0
  BY SMT
<1>2. \A n \in Nat : n % 2 = 0 => n = 2 * (n \div 2)
  BY SMT
<1> QED BY <1>1, <1>2

\* An even sequence names the payload, which is then whole.
LEMMA EvenNamesPayload ==
  ASSUME TypeOK, WriterOK, sequence % 2 = 0
  PROVE  2 * sample_count = sequence /\ 2 * playback_wall_time = sequence
<1>1. published \in Nat /\ sequence \in Nat BY ClockAssumption DEF TypeOK
<1>2. CASE published > 0 /\ sequence = 2 * published - 1
  BY <1>1, <1>2, SMT
<1> QED BY <1>1, <1>2, SMT DEF WriterOK, TypeOK

LEMMA ClockInit == Init => ClockInv
<1> SUFFICES ASSUME Init PROVE ClockInv OBVIOUS
<1> USE ClockAssumption
<1>1. TypeOK BY SMT DEF Init, TypeOK, Anchor
<1>2. WriterOK BY DEF Init, WriterOK
<1>3. ReaderOK BY DEF Init, ReaderOK, AttemptOK, Loaded
<1>4. NotTorn BY DEF Init, NotTorn
<1> QED BY <1>1, <1>2, <1>3, <1>4 DEF ClockInv

\* The writer walks through the shapes of WriterOK and the sequence only grows.
LEMMA WriterStep ==
  ASSUME Ordered, ClockInv, Writer
  PROVE  WriterOK' /\ sequence <= sequence' /\ UNCHANGED readerVars /\ TypeOK'
<1> USE ClockAssumption DEF ClockInv, TypeOK, WriterOK, writerVars, readerVars, Store
<1>1. CASE Publish BY <1>1, SMT DEF Publish
<1>2. CASE StoreOdd BY <1>2, SMT DEF StoreOdd, Appears
<1>3. CASE StoreCount BY <1>3, SMT DEF StoreCount, Appears
<1>4. CASE StoreWall BY <1>4, SMT DEF StoreWall, Appears
<1>5. CASE StoreEven BY <1>5, SMT DEF StoreEven, Appears
<1> QED BY <1>1, <1>2, <1>3, <1>4, <1>5 DEF Writer

\* A writer that moves on cannot make an attempt of a reader wrong.
LEMMA WriterKeepsAttempts ==
  ASSUME ClockInv, sequence <= sequence', UNCHANGED readerVars, TypeOK'
  PROVE  ReaderOK' /\ NotTorn'
<1>1. ReaderOK'
  <2> SUFFICES ASSUME NEW r \in Reader
               PROVE  AttemptOK(r)' /\ (pc'[r] = "idle" => loads'[r] = {})
    BY DEF ReaderOK
  <2>1. got[r].seq1 \in Nat /\ sequence \in Nat /\ sequence' \in Nat
    BY ClockAssumption DEF ClockInv, TypeOK
  <2>2. AttemptOK(r) /\ (pc[r] = "idle" => loads[r] = {})
    BY DEF ClockInv, ReaderOK
  <2> QED BY <2>1, <2>2, SMT DEF AttemptOK, Loaded, Matches, readerVars
<1>2. NotTorn' BY DEF ClockInv, NotTorn, readerVars
<1> QED BY <1>1, <1>2

\* What a step of one reader leaves alone of the others.
LEMMA OtherReaders ==
  ASSUME ClockInv, NEW r \in Reader, Read(r) \/ Attempt(r), NEW o \in Reader, o # r
  PROVE  AttemptOK(o)' /\ (pc'[o] = "idle" => loads'[o] = {})
<1>1. pc'[o] = pc[o] /\ loads'[o] = loads[o] /\ got'[o] = got[o] /\ sequence' = sequence
  BY DEF ClockInv, TypeOK, Read, Attempt, LoadSeq1, LoadCount, LoadWall, LoadSeq2, Compare,
         Happens, writerVars
<1>2. AttemptOK(o) /\ (pc[o] = "idle" => loads[o] = {}) BY DEF ClockInv, ReaderOK
<1> QED BY <1>1, <1>2 DEF AttemptOK, Loaded, Matches

\* A reader touches nothing of the writer.
LEMMA ReaderLeavesWriter ==
  ASSUME ClockInv, NEW r \in Reader, Read(r) \/ Attempt(r)
  PROVE  WriterOK' /\ UNCHANGED writerVars
<1>1. UNCHANGED writerVars
  BY DEF Read, Attempt, LoadSeq1, LoadCount, LoadWall, LoadSeq2, Compare, Happens
<1> QED BY <1>1 DEF ClockInv, WriterOK, writerVars

LEMMA ReaderType ==
  ASSUME ClockInv, NEW r \in Reader, Read(r) \/ Attempt(r)
  PROVE  TypeOK'
<1> USE ClockAssumption DEF ClockInv, TypeOK, writerVars, Anchor
<1>1. CASE Read(r) BY <1>1 DEF Read
<1>2. CASE LoadSeq1(r) BY <1>2 DEF LoadSeq1, Happens
<1>3. CASE LoadCount(r) BY <1>3 DEF LoadCount, Happens
<1>4. CASE LoadWall(r) BY <1>4 DEF LoadWall, Happens
<1>5. CASE LoadSeq2(r) BY <1>5 DEF LoadSeq2, Happens
<1>6. CASE Compare(r)
  <2>1. [count |-> got[r].count, wall |-> got[r].wall] \in Anchor OBVIOUS
  <2>2. returned' \in [Reader -> Anchor] BY <1>6, <2>1 DEF Compare
  <2>3. pc' \in [Reader -> {"idle", "reading"}] BY <1>6 DEF Compare
  <2>4. loads' \in [Reader -> SUBSET Load] BY <1>6 DEF Compare
  <2> QED BY <1>6, <2>2, <2>3, <2>4 DEF Compare
<1> QED BY <1>1, <1>2, <1>3, <1>4, <1>5, <1>6 DEF Attempt

\* Each load keeps the attempt right, each comparison returns whole anchors.
LEMMA OwnAttempt ==
  ASSUME Ordered, ClockInv, NEW r \in Reader, Read(r) \/ Attempt(r)
  PROVE  AttemptOK(r)' /\ (pc'[r] = "idle" => loads'[r] = {})
<1>1. /\ AttemptOK(r) /\ (pc[r] = "idle" => loads[r] = {})
      /\ loads[r] \subseteq Load /\ pc[r] \in {"idle", "reading"}
      /\ got[r].seq1 \in Nat /\ sequence \in Nat /\ got[r].seq2 \in Nat
  BY ClockAssumption DEF ClockInv, ReaderOK, TypeOK
<1>2. sequence % 2 = 0 => 2 * sample_count = sequence /\ 2 * playback_wall_time = sequence
  BY EvenNamesPayload DEF ClockInv
<1>3. got \in [Reader -> [seq1 : 0..(2 * MaxPublish), count : 0..MaxPublish,
                          wall : 0..MaxPublish, seq2 : 0..(2 * MaxPublish)]]
      /\ loads \in [Reader -> SUBSET Load] /\ pc \in [Reader -> {"idle", "reading"}]
  BY DEF ClockInv, TypeOK
<1>4. CASE Read(r)
  BY <1>4, <1>1, <1>3 DEF Read, AttemptOK, Loaded, Load
<1>5. CASE LoadSeq1(r)
  <2>1. loads[r] = Load BY <1>5, <1>1 DEF LoadSeq1, Happens, AttemptOK, Loaded
  <2>2. loads'[r] = {"count", "wall", "seq2"} /\ got'[r].seq1 = sequence /\ pc'[r] = pc[r]
        /\ sequence' = sequence /\ sequence % 2 = 0
    BY <1>5, <2>1, <1>3 DEF LoadSeq1, Happens, Load, writerVars
  <2>3. pc[r] # "idle" BY <2>1, <1>1 DEF Load
  <2> QED BY <2>2, <2>3, <1>1, SMT DEF AttemptOK, Loaded
<1>6. CASE LoadCount(r)
  <2>1. Loaded(r, "seq1") /\ "count" \in loads[r] BY <1>6 DEF LoadCount, Happens, Loaded
  <2>2. /\ loads'[r] = loads[r] \ {"count"} /\ pc'[r] = pc[r] /\ sequence' = sequence
        /\ got'[r].count = sample_count /\ got'[r].seq1 = got[r].seq1
        /\ got'[r].wall = got[r].wall /\ got'[r].seq2 = got[r].seq2
    BY <1>6, <1>3 DEF LoadCount, Happens, writerVars
  <2> QED BY <2>1, <2>2, <1>1, <1>2, SMT DEF AttemptOK, Loaded
<1>7. CASE LoadWall(r)
  <2>1. Loaded(r, "seq1") /\ "wall" \in loads[r] BY <1>7 DEF LoadWall, Happens, Loaded
  <2>2. /\ loads'[r] = loads[r] \ {"wall"} /\ pc'[r] = pc[r] /\ sequence' = sequence
        /\ got'[r].wall = playback_wall_time /\ got'[r].seq1 = got[r].seq1
        /\ got'[r].count = got[r].count /\ got'[r].seq2 = got[r].seq2
    BY <1>7, <1>3 DEF LoadWall, Happens, writerVars
  <2> QED BY <2>1, <2>2, <1>1, <1>2, SMT DEF AttemptOK, Loaded
<1>8. CASE LoadSeq2(r)
  <2>1. Loaded(r, "seq1") /\ Loaded(r, "count") /\ Loaded(r, "wall") /\ "seq2" \in loads[r]
    BY <1>8 DEF LoadSeq2, Happens, Loaded
  <2>2. /\ loads'[r] = loads[r] \ {"seq2"} /\ pc'[r] = pc[r] /\ sequence' = sequence
        /\ got'[r].wall = got[r].wall /\ got'[r].seq1 = got[r].seq1
        /\ got'[r].count = got[r].count /\ got'[r].seq2 = sequence
    BY <1>8, <1>3 DEF LoadSeq2, Happens, writerVars
  <2> QED BY <2>1, <2>2, <1>1, SMT DEF AttemptOK, Loaded, Matches
<1>9. CASE Compare(r)
  BY <1>9, <1>1, <1>3 DEF Compare, AttemptOK, Loaded, Load, writerVars
<1> QED BY <1>4, <1>5, <1>6, <1>7, <1>8, <1>9 DEF Attempt

\* What a comparison returns belongs to the first sequence of its attempt.
LEMMA ReturnedMatches ==
  ASSUME ClockInv, NEW r \in Reader, Compare(r), got[r].seq1 = got[r].seq2
  PROVE  Matches(r)
BY DEF ClockInv, ReaderOK, AttemptOK, Loaded, Compare

LEMMA ReturnedWhole ==
  ASSUME ClockInv, NEW r \in Reader, Read(r) \/ Attempt(r)
  PROVE  NotTorn'
<1>1. CASE returned' = returned BY <1>1 DEF ClockInv, NotTorn
<1>2. CASE Compare(r) /\ got[r].seq1 = got[r].seq2
  <2>1. got[r].count \in Nat /\ got[r].wall \in Nat BY ClockAssumption DEF ClockInv, TypeOK
  <2>2. got[r].count = got[r].wall BY <1>2, <2>1, ReturnedMatches, SMT DEF Matches
  <2>3. returned' = [returned EXCEPT ![r] = [count |-> got[r].count, wall |-> got[r].wall]]
    BY <1>2 DEF Compare
  <2> QED BY <2>2, <2>3 DEF ClockInv, NotTorn, TypeOK
<1> QED
  BY <1>1, <1>2 DEF Read, Attempt, LoadSeq1, LoadCount, LoadWall, LoadSeq2, Compare, Happens

LEMMA ClockStep ==
  ASSUME Ordered, ClockInv, [Next]_vars
  PROVE  ClockInv'
<1>1. CASE Writer BY <1>1, WriterStep, WriterKeepsAttempts DEF ClockInv
<1>2. ASSUME NEW r \in Reader, Read(r) \/ Attempt(r) PROVE ClockInv'
  <2>1. ReaderOK'
    BY <1>2, OwnAttempt, OtherReaders DEF ReaderOK
  <2> QED BY <1>2, <2>1, ReaderLeavesWriter, ReaderType, ReturnedWhole DEF ClockInv
<1>3. CASE UNCHANGED vars
  BY <1>3 DEF vars, writerVars, readerVars, ClockInv, TypeOK, WriterOK, ReaderOK, AttemptOK,
              Loaded, Matches, NotTorn
<1> QED BY <1>1, <1>2, <1>3 DEF Next

\* The clock's variables stay in their types and what every reader has loaded
\* stays consistent, for any readers and publications, in program order.
THEOREM ClockInvariant == ASSUME Ordered PROVE Spec => []ClockInv
<1>1. Init => ClockInv BY ClockInit
<1>2. ClockInv /\ [Next]_vars => ClockInv' BY ClockStep
<1> QED BY <1>1, <1>2, PTL DEF Spec

\* No reader of AudioClock ever gets the sample count of one publication with
\* the wall time of another, in program order: what the code's SAFETY comment
\* claims of every machine.
THEOREM ClockNotTorn == ASSUME Ordered PROVE Spec => []NotTorn
<1>1. ClockInv => NotTorn BY DEF ClockInv
<1> QED BY <1>1, ClockInvariant, PTL

-----------------------------------------------------------------------------
LEMMA AtomicInit == Init => Atomic!Init
<1>1. 0 \div 2 = 0 BY SMT
<1> QED BY <1>1 DEF Init, Atomic!Init

\* Only the even store publishes; the others do not show.
LEMMA AtomicWriter ==
  ASSUME Ordered, ClockInv, Writer
  PROVE  [Atomic!Next]_Atomic!acVars
<1>1. published \in Nat /\ readerVars' = readerVars
  BY ClockAssumption, WriterStep DEF ClockInv, TypeOK
<1>2. CASE StoreEven
  <2>1. sequence = 2 * published - 1 /\ published > 0 /\ sequence' = 2 * published
    BY <1>2 DEF StoreEven, Appears, ClockInv, WriterOK, Store
  <2>2. sequence \div 2 = published - 1 /\ sequence' \div 2 = published
    BY <1>1, <2>1, SMT
  <2>3. Atomic!Publish BY <1>1, <2>2, SMT DEF Atomic!Publish, readerVars
  <2> QED BY <2>3 DEF Atomic!Next
<1>3. CASE StoreOdd
  <2>1. sequence = 2 * published - 2 /\ published > 0 /\ sequence' = 2 * published - 1
    BY <1>3 DEF StoreOdd, Appears, ClockInv, WriterOK, Store
  <2>2. sequence \div 2 = sequence' \div 2 BY <1>1, <2>1, SMT
  <2> QED BY <1>1, <2>2 DEF Atomic!acVars, readerVars
<1>4. CASE Publish \/ StoreCount \/ StoreWall
  <2>1. sequence' = sequence BY <1>4 DEF Publish, StoreCount, StoreWall
  <2> QED BY <1>1, <2>1 DEF Atomic!acVars, readerVars
<1> QED BY <1>2, <1>3, <1>4 DEF Writer

\* The first load looks, a comparison that succeeds returns what was looked at.
LEMMA AtomicReader ==
  ASSUME ClockInv, NEW r \in Reader, Read(r) \/ Attempt(r)
  PROVE  [Atomic!Next]_Atomic!acVars
<1>1. sequence' = sequence BY ReaderLeavesWriter DEF writerVars
<1>2. got \in [Reader -> [seq1 : 0..(2 * MaxPublish), count : 0..MaxPublish,
                          wall : 0..MaxPublish, seq2 : 0..(2 * MaxPublish)]]
  BY DEF ClockInv, TypeOK
<1> DEFINE Looked == [o \in Reader |-> got[o].seq1 \div 2]
<1>3. CASE LoadSeq1(r)
  <2>1. got' = [got EXCEPT ![r].seq1 = sequence] /\ returned' = returned
    BY <1>3 DEF LoadSeq1, Happens
  <2>2. \A o \in Reader : got'[o].seq1 = IF o = r THEN sequence ELSE got[o].seq1
    BY <2>1, <1>2
  <2>3. Looked' = [Looked EXCEPT ![r] = sequence \div 2] BY <2>2
  <2>4. Atomic!Look(r) BY <1>1, <2>1, <2>3 DEF Atomic!Look
  <2> QED BY <2>4 DEF Atomic!Next
<1>4. CASE Compare(r) /\ got[r].seq1 = got[r].seq2
  <2>1. got[r].count \in Nat /\ got[r].wall \in Nat /\ got[r].seq1 \in Nat
    BY ClockAssumption DEF ClockInv, TypeOK
  <2>2. got[r].count = got[r].seq1 \div 2 /\ got[r].wall = got[r].seq1 \div 2
    BY <1>4, <2>1, ReturnedMatches, Halves DEF Matches
  <2>3. returned' = [returned EXCEPT ![r] = [count |-> got[r].count, wall |-> got[r].wall]]
        /\ got' = got
    BY <1>4 DEF Compare
  <2>4. Atomic!Return(r) BY <1>1, <2>2, <2>3 DEF Atomic!Return
  <2> QED BY <2>4 DEF Atomic!Next
<1>5. CASE LoadCount(r) \/ LoadWall(r) \/ LoadSeq2(r)
  <2>1. returned' = returned BY <1>5 DEF LoadCount, LoadWall, LoadSeq2, Happens
  <2>2. \A o \in Reader : got'[o].seq1 = got[o].seq1
    BY <1>5, <1>2 DEF LoadCount, LoadWall, LoadSeq2, Happens
  <2> QED BY <1>1, <2>1, <2>2 DEF Atomic!acVars
<1>6. CASE Read(r) \/ (Compare(r) /\ got[r].seq1 # got[r].seq2)
  BY <1>1, <1>6 DEF Read, Compare, Atomic!acVars
<1> QED BY <1>3, <1>4, <1>5, <1>6 DEF Attempt

\* The seqlock implements an anchor published and read in one step, in program
\* order, for any number of readers: MidiIngest may treat it so.
THEOREM ClockIsAtomic == ASSUME Ordered PROVE Spec => ImplementsAtomic
<1>1. Init => Atomic!Init BY AtomicInit
<1>2. ClockInv /\ [Next]_vars => [Atomic!Next]_Atomic!acVars
  <2> SUFFICES ASSUME ClockInv, [Next]_vars PROVE [Atomic!Next]_Atomic!acVars OBVIOUS
  <2>1. CASE UNCHANGED vars
    BY <2>1 DEF vars, writerVars, readerVars, Atomic!acVars
  <2> QED BY <2>1, AtomicWriter, AtomicReader DEF Next
<1> QED BY <1>1, <1>2, ClockInvariant, PTL DEF Spec, ImplementsAtomic, Atomic!Spec
=============================================================================
