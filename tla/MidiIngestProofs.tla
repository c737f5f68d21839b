--------------------------- MODULE MidiIngestProofs ---------------------------
(***************************************************************************)
(* How long a MIDI message waits, that none is lost, that none is seen     *)
(* early and that those of a port keep their order, proved for any number  *)
(* of ports, any lengths of callback, sub-block and queue, any lookahead   *)
(* and any start of the stream.                                            *)
(*                                                                         *)
(* A message waits for the next drain, or behind a head that is for a      *)
(* later window.  TimeInv ties the samples ticked to the callbacks begun   *)
(* and these to the wall clock; StampInv bounds how far ahead of its push  *)
(* a message is stamped, the anchor being that of the last callback that   *)
(* ended; WaitInv says of each waiting message that it was pushed in or    *)
(* after the callback that drained last, unless the head is for later.     *)
(*                                                                         *)
(* Where a message is: FiledInv says that the places of the path share no  *)
(* message and hold, between them, every message received, and that no row *)
(* or carried-over message is ahead of its time.  A sub-block's drain is a *)
(* fold of writes over what was carried over and what was queued, taken one*)
(* write at a time by a least-number argument.                             *)
(*                                                                         *)
(* In which order they are: OrderInv says that a port's messages are in    *)
(* the scratch in the order the ticks will keep, those in the queue after  *)
(* them and the one its thread handles last.  While a sub-block is filled, a    *)
(* message that was not put where it belongs found every row before its    *)
(* place full (Snug), so that no later one finds room there.               *)
(***************************************************************************)
EXTENDS MidiIngest, TLAPS, SequenceTheorems, FiniteSetTheorems, WellFoundedInduction

-----------------------------------------------------------------------------
(* Minima.                                                                  *)

LEMMA LeastNatural ==
  ASSUME NEW S \in SUBSET Nat, S # {}
  PROVE  Min(S) \in S /\ \A y \in S : Min(S) <= y
<1> DEFINE R == {ss \in Nat \X Nat : ss[1] < ss[2]}
<1>1. IsWellFoundedOn(R, Nat) BY NatLessThanWellFounded DEF OpToRel
<1>2. \A a, b \in Nat : a < b => <<a, b>> \in R OBVIOUS
<1> HIDE DEF R
<1>3. PICK x \in S : \A y \in S : <<y, x>> \notin R BY <1>1, WFMin
<1>4. ASSUME NEW y \in S PROVE x <= y
  <2>1. x \in Nat /\ y \in Nat OBVIOUS
  <2>2. ~ (y < x) BY <1>2, <1>3, <2>1
  <2> QED BY <2>1, <2>2
<1> QED BY <1>4 DEF Min

LEMMA LesserOf ==
  ASSUME NEW a \in Nat, NEW b \in Nat
  PROVE  Min({a, b}) \in {a, b} /\ Min({a, b}) <= a /\ Min({a, b}) <= b
<1>1. {a, b} \in SUBSET Nat /\ {a, b} # {} OBVIOUS
<1>2. Min({a, b}) \in {a, b} /\ \A y \in {a, b} : Min({a, b}) <= y
  BY <1>1, LeastNatural
<1> QED BY <1>2

LEMMA GreatestOf ==
  ASSUME NEW a \in Nat, NEW b \in Nat, NEW c \in Nat
  PROVE  /\ Max({a, b, c}) \in Nat
         /\ a <= Max({a, b, c}) /\ b <= Max({a, b, c}) /\ c <= Max({a, b, c})
<1>1. \E x \in {a, b, c} : \A y \in {a, b, c} : x >= y
  <2>1. CASE a >= b /\ a >= c BY <2>1
  <2>2. CASE b >= a /\ b >= c BY <2>2
  <2>3. CASE c >= a /\ c >= b BY <2>3
  <2> QED BY <2>1, <2>2, <2>3
<1>2. Max({a, b, c}) \in {a, b, c} /\ \A y \in {a, b, c} : Max({a, b, c}) >= y
  BY <1>1 DEF Max
<1> QED BY <1>2

-----------------------------------------------------------------------------
(* Callbacks.                                                               *)

LEMMA DueFacts ==
  /\ \A k \in Nat : Due(k) \in Nat /\ Due(k) >= StartDelay /\ Due(k + 1) = Due(k) + Frames
  /\ Due(0) = StartDelay
  /\ \A k, n \in Nat : Due(k + n) = Due(k) + Frames * n
  /\ \A k, n \in Nat : k <= n => Due(k) <= Due(n)
<1>1. Frames \in Nat /\ StartDelay \in Nat BY MidiAssumption
<1>2. \A k \in Nat : k * Frames \in Nat BY <1>1
<1>3. \A k \in Nat : Due(k) \in Nat /\ Due(k) >= StartDelay /\ Due(k + 1) = Due(k) + Frames
  BY <1>1, <1>2 DEF Due
<1>4. Due(0) = StartDelay BY <1>1 DEF Due
<1>5. \A k, n \in Nat : Due(k + n) = Due(k) + Frames * n BY <1>1 DEF Due
<1>6. ASSUME NEW k \in Nat, NEW n \in Nat, k <= n PROVE Due(k) <= Due(n)
  <2>1. n - k \in Nat /\ k + (n - k) = n BY <1>6
  <2>2. Due(n) = Due(k) + Frames * (n - k) BY <1>5, <2>1
  <2>3. Frames * (n - k) \in Nat BY <1>1, <2>1
  <2> QED BY <1>3, <2>2, <2>3
<1> QED BY <1>3, <1>4, <1>5, <1>6

\* The callbacks of a sub-block.
LEMMA SpanFacts ==
  \E n \in Nat \ {0} : DrainSpan = Frames * n /\ DrainSpan >= SubBlock /\ DrainSpan \in Nat
<1>1. Frames \in Nat \ {0} /\ SubBlock \in Nat \ {0} BY MidiAssumption
<1> DEFINE K == {k \in 1..SubBlock : k * Frames >= SubBlock}
<1>2. SubBlock * Frames >= SubBlock
  <2>1. (Frames - 1) \in Nat /\ SubBlock * (Frames - 1) \in Nat BY <1>1
  <2>2. SubBlock * Frames = SubBlock * (Frames - 1) + SubBlock BY <1>1
  <2> QED BY <1>1, <2>1, <2>2
<1>3. SubBlock \in K BY <1>1, <1>2
<1>4. K \in SUBSET Nat /\ K # {} BY <1>3
<1>5. Min(K) \in K BY <1>4, LeastNatural
<1> DEFINE n == Min(K)
<1>6. n \in 1..SubBlock /\ n * Frames >= SubBlock BY <1>5
<1>7. DrainSpan = Frames * n BY DEF DrainSpan
<1> HIDE DEF n
<1>8. n \in Nat \ {0} BY <1>1, <1>6
<1>9. n * Frames = Frames * n /\ n * Frames \in Nat BY <1>1, <1>8
<1> QED BY <1>6, <1>7, <1>8, <1>9

-----------------------------------------------------------------------------
(* The invariant.                                                           *)

\* Samples ticked so far, and the sample the last drain reached.
Streamed == sample_counter + (SubBlock - until_next)
Horizon == IF until_next = SubBlock THEN sample_counter ELSE sample_counter + SubBlock

\* How far an anchor may be ahead of the sample that is playing.
Lead == IF Frames >= StartDelay THEN Frames ELSE StartDelay

TimeInv ==
  /\ now \in Nat /\ callbacks \in Nat /\ sample_counter \in Nat
  /\ remaining \in 0..Frames /\ until_next \in 1..SubBlock
  /\ callback \in {"waiting", "running"}
  /\ callback = "waiting" =>
       Streamed + StartDelay = Due(callbacks) /\ now <= Due(callbacks) + Jitter
  /\ callback = "running" =>
       /\ callbacks > 0
       /\ Streamed + StartDelay + remaining = Due(callbacks) /\ now <= Due(callbacks)
  /\ callbacks > 0 => playback_time \in Due(callbacks - 1)..now
  /\ clock.count \in Nat /\ clock.wall \in 0..now
  /\ clock.count + StartDelay <= clock.wall + Lead

\* A message stamped for `target' by a push at time t.
Stamps(target, t) ==
  target \in Nat /\ t \in StartDelay..now /\ target + StartDelay <= t + Lead + Lookahead

NewEvent == [id : Nat, port : Port, target : Nat]
Pushed == [event : NewEvent, pushed : Nat]
Threads ==
  {Idle} \cup [pc : {"clock"}, id : Nat, at : Nat] \cup [pc : {"push"}, event : NewEvent]

StampInv ==
  /\ received \in Nat
  /\ port \in [Port -> Threads]
  /\ \A p \in Port : /\ port[p].pc = "clock" => port[p].at \in StartDelay..now
                     /\ port[p].pc = "push" => Stamps(port[p].event.target, now)

\* Time t is not before a callback that drained last, or before the first.
Fresh(t) ==
  \E q \in Nat : Due(q) <= t /\ Horizon + StartDelay < Due(q + 1) + SubBlock

WaitInv ==
  /\ queue \in Seq(Pushed) /\ peeked \in Seq(Pushed)
  /\ \A i \in 1..Len(Waiting) : Stamps(Waiting[i].event.target, Waiting[i].pushed)
  /\ \A i, j \in 1..Len(Waiting) : i <= j => Waiting[i].pushed <= Waiting[j].pushed
  /\ \A i \in 1..Len(Waiting) :
       Fresh(Waiting[i].pushed) \/ Waiting[1].event.target >= Horizon

MidiInv == TimeInv /\ StampInv /\ WaitInv

-----------------------------------------------------------------------------
(* What the invariant says of waiting.                                      *)

LEMMA WaitingSeq ==
  ASSUME WaitInv
  PROVE  Waiting \in Seq(Pushed) /\ Len(Waiting) \in Nat /\ DOMAIN Waiting = 1..Len(Waiting)
BY ConcatProperties, LenProperties DEF WaitInv, Waiting

LEMMA StreamedFacts ==
  ASSUME TimeInv
  PROVE  /\ Streamed \in Nat /\ Horizon \in Nat
         /\ Streamed <= Horizon /\ Horizon < Streamed + SubBlock
         /\ SubBlock \in Nat \ {0} /\ Frames \in Nat \ {0}
         /\ {Lookahead, StartDelay, Jitter} \subseteq Nat /\ Jitter <= Frames
<1>1. /\ SubBlock \in Nat \ {0} /\ Frames \in Nat \ {0}
      /\ {Lookahead, StartDelay, Jitter} \subseteq Nat /\ Jitter <= Frames
  BY MidiAssumption
<1>2. sample_counter \in Nat /\ until_next \in 1..SubBlock BY DEF TimeInv
<1> QED BY <1>1, <1>2 DEF Streamed, Horizon

\* A callback begins before another is due.
LEMMA Earlier == ASSUME NEW k \in Nat, NEW n \in Nat, Due(k) < Due(n) PROVE k < n
<1>1. Due(k) \in Nat /\ Due(n) \in Nat /\ (n <= k => Due(n) <= Due(k)) BY DueFacts
<1> QED BY <1>1

Bound == Max({DrainSpan, Frames + Lookahead, StartDelay + Lookahead})

LEMMA BoundFacts ==
  /\ Bound \in Nat
  /\ \E n \in Nat \ {0} : DrainSpan = Frames * n /\ SubBlock <= DrainSpan /\ DrainSpan <= Bound
  /\ Lead \in Nat /\ Lead + Lookahead <= Bound
<1>1. Frames \in Nat /\ Lookahead \in Nat /\ StartDelay \in Nat BY MidiAssumption
<1>2. PICK n \in Nat \ {0} :
        DrainSpan = Frames * n /\ DrainSpan >= SubBlock /\ DrainSpan \in Nat
  BY SpanFacts
<1>3. /\ Bound \in Nat /\ DrainSpan <= Bound
      /\ Frames + Lookahead <= Bound /\ StartDelay + Lookahead <= Bound
  BY <1>1, <1>2, GreatestOf DEF Bound
<1>4. SubBlock <= DrainSpan BY <1>2, MidiAssumption
<1> QED BY <1>1, <1>2, <1>3, <1>4 DEF Lead

\* How far the wall clock is ahead of the samples ticked.
LEMMA Lag ==
  ASSUME TimeInv
  PROVE  /\ now \in Nat /\ callbacks \in Nat
         /\ \/ Streamed + StartDelay = Due(callbacks) /\ now <= Due(callbacks) + Frames
            \/ /\ callbacks - 1 \in Nat /\ Due(callbacks - 1) <= Streamed + StartDelay
               /\ now <= Due(callbacks - 1) + Frames
         /\ now <= Streamed + StartDelay + Frames
<1>1. /\ Streamed \in Nat /\ Frames \in Nat \ {0} /\ StartDelay \in Nat
      /\ Jitter \in Nat /\ Jitter <= Frames
  BY StreamedFacts
<1>2. now \in Nat /\ callbacks \in Nat /\ remaining \in 0..Frames BY DEF TimeInv
<1>3. Due(callbacks) \in Nat BY <1>2, DueFacts
<1>4. CASE callback = "waiting"
  <2>1. Streamed + StartDelay = Due(callbacks) /\ now <= Due(callbacks) + Jitter
    BY <1>4 DEF TimeInv
  <2> QED BY <1>1, <1>2, <1>3, <2>1
<1>5. CASE callback = "running"
  <2>1. /\ callbacks > 0 /\ Streamed + StartDelay + remaining = Due(callbacks)
        /\ now <= Due(callbacks)
    BY <1>5 DEF TimeInv
  <2>2. callbacks - 1 \in Nat /\ (callbacks - 1) + 1 = callbacks BY <1>2, <2>1
  <2>3. Due(callbacks - 1) \in Nat /\ Due(callbacks) = Due(callbacks - 1) + Frames
    BY <2>2, DueFacts
  <2> QED BY <1>1, <1>2, <1>3, <2>1, <2>2, <2>3
<1> QED BY <1>4, <1>5 DEF TimeInv

\* Behind a head that is for a later window.
LEMMA BehindHead ==
  ASSUME TimeInv, NEW t \in Nat, NEW u \in Nat, NEW g \in Nat,
         u <= t, g + StartDelay <= u + Lead + Lookahead, g >= Horizon
  PROVE  now - t <= Frames + Bound
<1>1. /\ Streamed \in Nat /\ Horizon \in Nat /\ Streamed <= Horizon
      /\ Frames \in Nat /\ StartDelay \in Nat /\ Lookahead \in Nat
  BY StreamedFacts
<1>2. Bound \in Nat /\ Lead \in Nat /\ Lead + Lookahead <= Bound BY BoundFacts
<1>3. now \in Nat /\ now <= Streamed + StartDelay + Frames BY Lag
<1> QED BY <1>1, <1>2, <1>3

\* Between two drains.
LEMMA BetweenDrains ==
  ASSUME TimeInv, NEW t \in Nat, Fresh(t)
  PROVE  now - t <= Frames + Bound
<1>1. PICK q \in Nat : Due(q) <= t /\ Horizon + StartDelay < Due(q + 1) + SubBlock
  BY DEF Fresh
<1>2. PICK n \in Nat \ {0} :
        DrainSpan = Frames * n /\ SubBlock <= DrainSpan /\ DrainSpan <= Bound
  BY BoundFacts
<1>3. PICK m \in Nat : m = q + n BY <1>2
<1>4. /\ Due(q) \in Nat /\ Due(q + 1) = Due(q) + Frames
      /\ Due(m) \in Nat /\ Due(m + 1) = Due(m) + Frames
  BY DueFacts
<1>5. Due(m) = Due(q) + DrainSpan BY <1>2, <1>3, DueFacts
<1>6. DrainSpan \in Nat /\ Bound \in Nat BY SpanFacts, BoundFacts
<1>7. /\ Streamed \in Nat /\ Horizon \in Nat /\ Streamed <= Horizon
      /\ Frames \in Nat /\ StartDelay \in Nat /\ SubBlock \in Nat
  BY StreamedFacts
<1>8. Streamed + StartDelay < Due(m + 1) BY <1>1, <1>2, <1>4, <1>5, <1>6, <1>7
<1>9. PICK k \in Nat : Due(k) <= Streamed + StartDelay /\ now <= Due(k) + Frames
  <2>1. Due(callbacks) = Streamed + StartDelay => Due(callbacks) <= Streamed + StartDelay
    BY <1>7
  <2> QED BY <2>1, Lag
<1>10. Due(k) <= Due(m)
  <2>1. Due(k) < Due(m + 1) BY <1>4, <1>7, <1>8, <1>9, DueFacts
  <2>2. k < m + 1 BY <2>1, Earlier
  <2>3. k <= m BY <2>2
  <2> QED BY <2>3, DueFacts
<1>11. Due(k) \in Nat /\ now \in Nat BY DueFacts, Lag
<1> QED BY <1>1, <1>2, <1>4, <1>5, <1>6, <1>7, <1>9, <1>10, <1>11

LEMMA WaitIsBounded == ASSUME MidiInv PROVE LatencyBounded
<1> SUFFICES ASSUME NEW i \in 1..Len(Waiting)
             PROVE  now - Waiting[i].pushed <= Frames + Bound
  BY WaitingSeq DEF LatencyBounded, Bound, MidiInv
<1>1. TimeInv BY DEF MidiInv
<1>2. 1 \in 1..Len(Waiting) /\ 1 <= i BY WaitingSeq DEF MidiInv
<1>3. \A j \in 1..Len(Waiting) :
        /\ Waiting[j].pushed \in StartDelay..now /\ Waiting[j].event.target \in Nat
        /\ Waiting[j].event.target + StartDelay <= Waiting[j].pushed + Lead + Lookahead
  BY DEF MidiInv, WaitInv, Stamps
<1>4. \A x \in StartDelay..now : x \in Nat
  BY MidiAssumption DEF MidiInv, TimeInv
<1>5. Waiting[1].pushed <= Waiting[i].pushed BY <1>2 DEF MidiInv, WaitInv
<1>6. CASE Waiting[1].event.target >= Horizon
  BY <1>1, <1>2, <1>3, <1>4, <1>5, <1>6, BehindHead
<1>7. CASE Fresh(Waiting[i].pushed)
  BY <1>1, <1>3, <1>4, <1>7, BetweenDrains
<1> QED BY <1>6, <1>7 DEF MidiInv, WaitInv

-----------------------------------------------------------------------------
(* The clock and the callbacks.                                             *)

\* Steps of the MIDI threads leave the callbacks alone.
LEMMA TimeAside ==
  ASSUME TimeInv, UNCHANGED <<now, callbackVars, clock>>
  PROVE  TimeInv' /\ Horizon' = Horizon
<1>1. UNCHANGED <<now, callback, callbacks, playback_time, remaining, until_next,
                  sample_counter, clock>>
  BY DEF callbackVars
<1>2. Streamed' = Streamed /\ Horizon' = Horizon BY <1>1 DEF Streamed, Horizon
<1>3. \A k : Due(k)' = Due(k) BY DEF Due
<1> QED BY <1>1, <1>2 DEF TimeInv, Due

LEMMA TimeTicks ==
  ASSUME TimeInv, Time
  PROVE  TimeInv' /\ Horizon' = Horizon /\ now' \in Nat /\ now <= now'
<1>1. UNCHANGED <<callback, callbacks, playback_time, remaining, until_next,
                  sample_counter, clock>> /\ now' = now + 1
      /\ (callback = "waiting" => now < Due(callbacks) + Jitter)
      /\ (callback = "running" => now < Due(callbacks))
  BY DEF Time, callbackVars
<1>2. Streamed' = Streamed /\ Horizon' = Horizon BY <1>1 DEF Streamed, Horizon
<1>3. Due(callbacks) \in Nat /\ Due(callbacks)' = Due(callbacks)
      /\ Due(callbacks - 1)' = Due(callbacks - 1)
  BY <1>1, DueFacts DEF TimeInv, Due
<1>4. now \in Nat /\ Jitter \in Nat BY MidiAssumption DEF TimeInv
<1>5. callbacks > 0 => playback_time' \in Due(callbacks - 1)..now'
  <2>1. callbacks > 0 => callbacks - 1 \in Nat BY DEF TimeInv
  <2>2. callbacks > 0 => Due(callbacks - 1) \in Nat BY <2>1, DueFacts
  <2> QED BY <1>1, <1>4, <2>2 DEF TimeInv
<1>6. now' <= Due(callbacks) + Jitter /\ (callback = "running" => now' <= Due(callbacks))
  BY <1>1, <1>3, <1>4 DEF TimeInv
<1>7. clock'.wall \in 0..now' /\ clock'.count + StartDelay <= clock'.wall + Lead
  BY <1>1, <1>4 DEF TimeInv
<1>8. TimeInv'
  BY <1>1, <1>2, <1>3, <1>4, <1>5, <1>6, <1>7 DEF TimeInv
<1> QED BY <1>1, <1>2, <1>4, <1>8

LEMMA CallbackBegins ==
  ASSUME TimeInv, BeginCallback
  PROVE  TimeInv' /\ Horizon' = Horizon /\ now' = now
<1>1. UNCHANGED <<now, until_next, sample_counter, clock>>
      /\ callback = "waiting" /\ now >= Due(callbacks) /\ callback' = "running"
      /\ callbacks' = callbacks + 1 /\ playback_time' = now /\ remaining' = Frames
  BY DEF BeginCallback
<1>2. Streamed' = Streamed /\ Horizon' = Horizon BY <1>1 DEF Streamed, Horizon
<1>3. callbacks \in Nat /\ now \in Nat /\ Due(callbacks) \in Nat
      /\ Due(callbacks + 1) = Due(callbacks) + Frames
  BY DueFacts DEF TimeInv
<1>4. Due(callbacks)' = Due(callbacks + 1) /\ Due(callbacks - 1)' = Due(callbacks)
  <2>1. callbacks' - 1 = callbacks BY <1>1, <1>3
  <2> QED BY <1>1, <2>1 DEF Due
<1>5. Streamed + StartDelay = Due(callbacks) /\ now <= Due(callbacks) + Jitter
  BY <1>1 DEF TimeInv
<1>6. Frames \in Nat /\ Jitter \in Nat /\ Jitter <= Frames /\ Streamed \in Nat
      /\ StartDelay \in Nat
  BY StreamedFacts
<1>7. callbacks' > 0 /\ Streamed' + StartDelay + remaining' = Due(callbacks)'
      /\ now' <= Due(callbacks)' /\ playback_time' \in Due(callbacks - 1)'..now'
  BY <1>1, <1>2, <1>3, <1>4, <1>5, <1>6
<1>8. remaining' \in 0..Frames BY <1>1, <1>6
<1>9. TimeInv' BY <1>1, <1>3, <1>7, <1>8 DEF TimeInv
<1> QED BY <1>1, <1>2, <1>9

\* The anchor published says which sub-block is next, and when this callback began.
LEMMA CallbackEnds ==
  ASSUME TimeInv, EndCallback
  PROVE  TimeInv' /\ Horizon' = Horizon /\ now' = now
<1>1. UNCHANGED <<now, callbacks, playback_time, remaining, until_next, sample_counter>>
      /\ callback = "running" /\ remaining = 0 /\ callback' = "waiting"
      /\ clock' = [count |-> sample_counter, wall |-> playback_time]
  BY DEF EndCallback
<1>2. Streamed' = Streamed /\ Horizon' = Horizon BY <1>1 DEF Streamed, Horizon
<1>3. Due(callbacks)' = Due(callbacks) /\ Due(callbacks - 1)' = Due(callbacks - 1)
  BY <1>1 DEF Due
<1>4. /\ callbacks \in Nat /\ callbacks > 0 /\ now \in Nat /\ sample_counter \in Nat
      /\ Streamed + StartDelay + remaining = Due(callbacks) /\ now <= Due(callbacks)
      /\ playback_time \in Due(callbacks - 1)..now
  BY <1>1 DEF TimeInv
<1>5. callbacks - 1 \in Nat /\ (callbacks - 1) + 1 = callbacks BY <1>4
<1>6. Due(callbacks - 1) \in Nat /\ Due(callbacks) = Due(callbacks - 1) + Frames
  BY <1>5, DueFacts
<1>7. Frames \in Nat /\ Jitter \in Nat /\ Streamed \in Nat /\ StartDelay \in Nat
  BY StreamedFacts
<1>8. Streamed + StartDelay = Due(callbacks) /\ now <= Due(callbacks) + Jitter
  BY <1>1, <1>4, <1>6, <1>7
<1>9. sample_counter <= Streamed
  <2>1. until_next \in 1..SubBlock /\ SubBlock \in Nat \ {0}
    BY MidiAssumption DEF TimeInv
  <2> QED BY <1>4, <2>1 DEF Streamed
<1>10. sample_counter + StartDelay <= playback_time + Lead
  <2>1. Lead \in Nat /\ Frames <= Lead BY <1>7 DEF Lead
  <2> QED BY <1>4, <1>6, <1>7, <1>8, <1>9, <2>1
<1>11. clock'.count = sample_counter /\ clock'.wall = playback_time BY <1>1
<1>12. playback_time \in 0..now BY <1>4, <1>6
<1>13. TimeInv'
  BY <1>1, <1>2, <1>3, <1>4, <1>8, <1>10, <1>11, <1>12 DEF TimeInv
<1> QED BY <1>1, <1>2, <1>13

\* A turn of the loop ticks what is left of the sub-block or of the buffer.
LEMMA CallbackTicks ==
  ASSUME TimeInv, Chunk
  PROVE  /\ TimeInv' /\ now' = now
         /\ Horizon' = IF until_next = SubBlock THEN sample_counter + SubBlock ELSE Horizon
<1>1. UNCHANGED <<now, callback, callbacks, playback_time, clock>>
      /\ callback = "running" /\ remaining > 0 /\ remaining' = remaining - Ticks
      /\ \/ /\ Ticks = until_next /\ until_next' = SubBlock
            /\ sample_counter' = sample_counter + SubBlock
         \/ /\ Ticks # until_next /\ until_next' = until_next - Ticks
            /\ sample_counter' = sample_counter
  BY DEF Chunk
<1>2. /\ SubBlock \in Nat \ {0} /\ Frames \in Nat \ {0} /\ StartDelay \in Nat
      /\ remaining \in 0..Frames /\ until_next \in 1..SubBlock /\ sample_counter \in Nat
  BY MidiAssumption DEF TimeInv
<1>3. Ticks \in Nat \ {0} /\ Ticks <= until_next /\ Ticks <= remaining
  <2>1. until_next \in Nat /\ remaining \in Nat BY <1>2
  <2>2. Ticks \in {until_next, remaining} /\ Ticks <= until_next /\ Ticks <= remaining
    BY <2>1, LesserOf DEF Ticks
  <2> QED BY <1>1, <1>2, <2>2
<1>4. /\ remaining' \in 0..Frames /\ until_next' \in 1..SubBlock /\ sample_counter' \in Nat
      /\ Streamed' = Streamed + Ticks
  BY <1>1, <1>2, <1>3 DEF Streamed
<1>5. Horizon' = IF until_next = SubBlock THEN sample_counter + SubBlock ELSE Horizon
  BY <1>1, <1>2, <1>3 DEF Horizon
<1>6. Due(callbacks)' = Due(callbacks) /\ Due(callbacks - 1)' = Due(callbacks - 1)
  BY <1>1 DEF Due
<1>7. Streamed' + StartDelay + remaining' = Due(callbacks)
  <2>1. Streamed + StartDelay + remaining = Due(callbacks) BY <1>1 DEF TimeInv
  <2>2. Streamed \in Nat /\ remaining \in Nat BY <1>2 DEF Streamed
  <2>3. Due(callbacks) \in Nat BY DueFacts DEF TimeInv
  <2>4. Streamed' = Streamed + Ticks /\ remaining' = remaining - Ticks BY <1>1, <1>4
  <2> QED BY <1>2, <1>3, <2>1, <2>2, <2>3, <2>4
<1>8. TimeInv' BY <1>1, <1>4, <1>6, <1>7 DEF TimeInv
<1> QED BY <1>1, <1>5, <1>8

-----------------------------------------------------------------------------
(* The threads of the ports.                                                *)

LEMMA StampsLater ==
  ASSUME NEW target, NEW t, Stamps(target, t), now \in Nat, now' \in Nat, now <= now'
  PROVE  Stamps(target, t)'
<1>1. StartDelay \in Nat BY MidiAssumption
<1>2. t \in StartDelay..now' BY <1>1 DEF Stamps
<1> QED BY <1>2 DEF Stamps

\* Steps of the clock and the callbacks leave the threads alone.
LEMMA StampsAside ==
  ASSUME StampInv, now \in Nat, now' \in Nat, now <= now', UNCHANGED <<received, port>>
  PROVE  StampInv'
<1>1. StartDelay \in Nat /\ Lookahead \in Nat /\ Lead \in Nat
  BY MidiAssumption, BoundFacts
<1>2. ASSUME NEW p \in Port, port[p].pc = "clock" PROVE port[p].at \in StartDelay..now'
  <2>1. port[p].at \in StartDelay..now BY <1>2 DEF StampInv
  <2> QED BY <1>1, <2>1
<1>3. ASSUME NEW p \in Port, port[p].pc = "push" PROVE Stamps(port[p].event.target, now)'
  <2>1. Stamps(port[p].event.target, now) BY <1>3 DEF StampInv
  <2>2. PICK g : g = port[p].event.target OBVIOUS
  <2>3. g \in Nat /\ now \in StartDelay..now /\ g + StartDelay <= now + Lead + Lookahead
    BY <2>1, <2>2 DEF Stamps
  <2>4. g \in Nat /\ now' \in StartDelay..now'
    BY <1>1, <2>3
  <2>6. \A x \in Nat : now <= x => g + StartDelay <= x + Lead + Lookahead
    BY <1>1, <2>3
  <2>7. g + StartDelay <= now' + Lead + Lookahead BY <2>6, Zenon
  <2>5. port'[p].event.target = g BY <2>2
  <2> QED BY <2>4, <2>5, <2>7, Zenon DEF Stamps
<1>4. received' = received /\ port' = port OBVIOUS
<1>5. \A p \in Port : /\ port'[p].pc = "clock" => port'[p].at \in StartDelay..now'
                     /\ port'[p].pc = "push" => Stamps(port[p].event.target, now)'
  BY <1>2, <1>3, <1>4
<1>6. received' \in Nat /\ port' \in [Port -> Threads] BY <1>4 DEF StampInv
<1> QED BY <1>5, <1>6 DEF StampInv

\* The queue is as it was, and no time before now is touched.
LEMMA WaitAside ==
  ASSUME WaitInv, now \in Nat, now' \in Nat, now <= now', UNCHANGED <<queue, peeked>>,
         Horizon' = Horizon
  PROVE  WaitInv'
<1>1. Waiting' = Waiting BY DEF Waiting
<1>2. \A i \in 1..Len(Waiting) : Stamps(Waiting[i].event.target, Waiting[i].pushed)'
  <2> SUFFICES ASSUME NEW i \in 1..Len(Waiting)
               PROVE  Stamps(Waiting[i].event.target, Waiting[i].pushed)'
    OBVIOUS
  <2>1. Stamps(Waiting[i].event.target, Waiting[i].pushed) BY DEF WaitInv
  <2>2. PICK g, t : g = Waiting[i].event.target /\ t = Waiting[i].pushed OBVIOUS
  <2>3. Stamps(g, t) BY <2>1, <2>2
  <2>4. Stamps(g, t)' BY <2>3, StampsLater
  <2>5. g = Waiting'[i].event.target /\ t = Waiting'[i].pushed BY <1>1, <2>2
  <2> QED BY <2>4, <2>5
<1>3. \A t : Fresh(t) => Fresh(t)' BY DEF Fresh, Due
<1> QED BY <1>1, <1>2, <1>3 DEF WaitInv

LEMMA ReceiveStamps ==
  ASSUME StampInv, TimeInv, NEW p \in Port, Receive(p)
  PROVE  StampInv'
<1>1. /\ now >= StartDelay /\ now' = now /\ received' = received + 1
      /\ port' = [port EXCEPT ![p] = [pc |-> "clock", id |-> received', at |-> now]]
  BY DEF Receive
<1>2. now \in Nat /\ received \in Nat /\ StartDelay \in Nat
  BY MidiAssumption DEF StampInv, TimeInv
<1>3. received' \in Nat BY <1>1, <1>2
<1>4. [pc |-> "clock", id |-> received', at |-> now] \in Threads
  BY <1>2, <1>3 DEF Threads
<1>5. port' \in [Port -> Threads] BY <1>1, <1>4 DEF StampInv
<1>6. \A o \in Port : port'[o] = IF o = p THEN [pc |-> "clock", id |-> received', at |-> now]
                                 ELSE port[o]
  BY <1>1 DEF StampInv
<1>7. now \in StartDelay..now BY <1>1, <1>2
<1>8. \A g : Stamps(g, now)' = Stamps(g, now) BY <1>1 DEF Stamps
<1> QED BY <1>1, <1>3, <1>5, <1>6, <1>7, <1>8 DEF StampInv, Stamps

\* A stamp leads the push by a callback or the start of the stream, and the lookahead.
LEMMA StampLeads ==
  ASSUME TimeInv, NEW at \in StartDelay..now
  PROVE  Stamps(Stamp(clock, at), now)
<1>1. PICK c, w : c = clock.count /\ w = clock.wall OBVIOUS
<1>2. /\ c \in Nat /\ w \in 0..now /\ c + StartDelay <= w + Lead /\ now \in Nat
      /\ Lookahead \in Nat /\ StartDelay \in Nat /\ Lead \in Nat /\ at \in Nat /\ at <= now
      /\ StartDelay <= at
  BY <1>1, MidiAssumption, BoundFacts DEF TimeInv
<1>3. Stamp(clock, at) = IF c + (at - w) + Lookahead < c THEN c ELSE c + (at - w) + Lookahead
  BY <1>1 DEF Stamp
<1>4. CASE c + (at - w) + Lookahead < c
  <2>1. Stamp(clock, at) = c BY <1>3, <1>4
  <2>2. c \in Nat /\ c + StartDelay <= now + Lead + Lookahead /\ now \in StartDelay..now
    BY <1>2
  <2> QED BY <2>1, <2>2 DEF Stamps
<1>5. CASE ~ (c + (at - w) + Lookahead < c)
  <2>1. PICK g : g = c + (at - w) + Lookahead OBVIOUS
  <2>2. Stamp(clock, at) = g BY <1>3, <1>5, <2>1
  <2>3. g \in Nat /\ g + StartDelay <= now + Lead + Lookahead /\ now \in StartDelay..now
    BY <1>2, <1>5, <2>1
  <2> QED BY <2>2, <2>3 DEF Stamps
<1> QED BY <1>4, <1>5

LEMMA ReadStamps ==
  ASSUME StampInv, TimeInv, NEW p \in Port, ReadClock(p)
  PROVE  StampInv'
<1> DEFINE g == Stamp(clock, port[p].at)
           new == [pc |-> "push", event |-> [id |-> port[p].id, port |-> p, target |-> g]]
<1>1. /\ port[p].pc = "clock" /\ now' = now /\ received' = received
      /\ port' = [port EXCEPT ![p] = new]
  BY DEF ReadClock, StampInv
<1>2. port[p] \in Threads /\ port[p].at \in StartDelay..now
  BY <1>1 DEF StampInv
<1>3. port[p].id \in Nat
  <2>1. Idle.pc # "clock" BY DEF Idle
  <2> QED BY <1>1, <1>2, <2>1 DEF Threads
<1>4. Stamps(g, now) BY <1>2, StampLeads
<1>5. g \in Nat BY <1>4 DEF Stamps
<1> HIDE DEF g
<1>6. new \in Threads BY <1>3, <1>5 DEF Threads, NewEvent
<1>7. port' \in [Port -> Threads] BY <1>1, <1>6 DEF StampInv
<1>8. \A o \in Port : port'[o] = IF o = p THEN new ELSE port[o]
  BY <1>1 DEF StampInv
<1>9. \A x : Stamps(x, now)' = Stamps(x, now) BY <1>1 DEF Stamps
<1>10. ASSUME NEW o \in Port
       PROVE  /\ port'[o].pc = "clock" => port'[o].at \in StartDelay..now
              /\ port'[o].pc = "push" => Stamps(port'[o].event.target, now)
  <2>1. CASE o = p BY <1>4, <1>8, <2>1
  <2>2. CASE o # p BY <1>8, <2>2 DEF StampInv
  <2> QED BY <2>1, <2>2
<1> QED BY <1>1, <1>7, <1>9, <1>10 DEF StampInv, Stamps

LEMMA PushStamps ==
  ASSUME StampInv, NEW p \in Port, Push(p)
  PROVE  StampInv'
<1>1. now' = now /\ received' = received /\ port' = [port EXCEPT ![p] = Idle]
  BY DEF Push
<1>2. port' \in [Port -> Threads] BY <1>1 DEF StampInv, Threads
<1>3. \A o \in Port : port'[o] = IF o = p THEN Idle ELSE port[o] BY <1>1 DEF StampInv
<1>4. Idle.pc # "clock" /\ Idle.pc # "push" BY DEF Idle
<1>5. ASSUME NEW o \in Port
      PROVE  /\ port'[o].pc = "clock" => port'[o].at \in StartDelay..now
             /\ port'[o].pc = "push" => Stamps(port'[o].event.target, now)
  BY <1>3, <1>4 DEF StampInv
<1> QED BY <1>1, <1>2, <1>5 DEF StampInv, Stamps

-----------------------------------------------------------------------------
(* The queue.                                                               *)

\* What is pushed now is fresh.
LEMMA FreshNow ==
  ASSUME TimeInv, now >= StartDelay
  PROVE  Fresh(now)
<1>1. /\ now \in Nat /\ callbacks \in Nat /\ sample_counter \in Nat
      /\ until_next \in 1..SubBlock /\ remaining \in 0..Frames
  BY DEF TimeInv
<1>2. /\ Streamed \in Nat /\ Horizon \in Nat /\ Horizon < Streamed + SubBlock
      /\ SubBlock \in Nat \ {0} /\ Frames \in Nat \ {0} /\ StartDelay \in Nat
  BY StreamedFacts
<1>3. Streamed + StartDelay <= Due(callbacks)
  <2>1. Due(callbacks) \in Nat BY <1>1, DueFacts
  <2>2. CASE callback = "waiting" BY <1>2, <2>1, <2>2 DEF TimeInv
  <2>3. CASE callback = "running"
    <3>1. Streamed + StartDelay + remaining = Due(callbacks) BY <2>3 DEF TimeInv
    <3> QED BY <1>1, <1>2, <2>1, <3>1
  <2> QED BY <2>2, <2>3 DEF TimeInv
<1>4. CASE callbacks = 0
  <2>1. Due(callbacks) = StartDelay /\ Due(0) = StartDelay /\ Due(0 + 1) = Due(0) + Frames
    BY <1>4, DueFacts
  <2>2. Horizon + StartDelay < Due(0 + 1) + SubBlock BY <1>2, <1>3, <2>1
  <2>3. Due(0) <= now BY <1>1, <1>2, <2>1
  <2> QED BY <2>2, <2>3 DEF Fresh
<1>5. CASE callbacks # 0
  <2>1. PICK q \in Nat : q = callbacks - 1 BY <1>1, <1>5
  <2>2. q + 1 = callbacks /\ callbacks > 0 BY <1>1, <1>5, <2>1
  <2>3. Due(q) \in Nat /\ Due(q + 1) = Due(q) + Frames BY DueFacts
  <2>4. playback_time \in Due(q)..now BY <2>1, <2>2 DEF TimeInv
  <2>5. Due(q) <= now BY <1>1, <2>3, <2>4
  <2>6. Due(q + 1) = Due(callbacks) BY <2>2
  <2>7. Horizon + StartDelay < Due(q + 1) + SubBlock
    BY <1>2, <1>3, <2>3, <2>6
  <2> QED BY <2>5, <2>7 DEF Fresh
<1> QED BY <1>4, <1>5

\* What is pushed is behind everything that waits.
LEMMA PushAppends ==
  ASSUME NEW E, NEW x \in E, peeked \in Seq(E), queue \in Seq(E),
         peeked' = peeked, queue' = Append(queue, x)
  PROVE  Waiting' = Append(Waiting, x) /\ queue' \in Seq(E)
<1>1. <<x>> \in Seq(E) /\ Waiting \in Seq(E) BY ConcatProperties DEF Waiting
<1>2. peeked \o (queue \o <<x>>) = (peeked \o queue) \o <<x>>
  BY <1>1, ConcatAssociative
<1>3. Append(queue, x) = queue \o <<x>> /\ Append(Waiting, x) = Waiting \o <<x>>
  BY <1>1, AppendIsConcat
<1>4. Waiting' = peeked \o Append(queue, x) BY DEF Waiting
<1> QED BY <1>2, <1>3, <1>4, AppendProperties DEF Waiting

LEMMA PushWaits ==
  ASSUME MidiInv, NEW p \in Port, Push(p)
  PROVE  WaitInv'
<1>1. port[p].pc = "push" /\ UNCHANGED <<now, peeked, callbackVars, clock>>
  BY DEF Push
<1>2. TimeInv /\ StampInv /\ WaitInv /\ now \in Nat BY DEF MidiInv, TimeInv
<1>3. Horizon' = Horizon BY <1>1, <1>2, TimeAside
<1>4. CASE queue' = queue
  BY <1>1, <1>2, <1>3, <1>4, WaitAside
<1>5. CASE queue' = Append(queue, [event |-> port[p].event, pushed |-> now])
  <2> DEFINE new == [event |-> port[p].event, pushed |-> now]
             w == Waiting
             n == Len(w)
  <2>1. Stamps(port[p].event.target, now) BY <1>1, <1>2 DEF StampInv
  <2>2. port[p].event \in NewEvent
    <3>1. port[p] \in Threads /\ Idle.pc # "push" BY <1>2 DEF StampInv, Idle
    <3> QED BY <1>1, <3>1 DEF Threads
  <2>3. new \in Pushed BY <1>2, <2>2 DEF Pushed
  <2>4. Stamps(new.event.target, new.pushed) /\ new.pushed = now BY <2>1
  <2> HIDE DEF new
  <2>5. queue \in Seq(Pushed) /\ peeked \in Seq(Pushed) /\ w \in Seq(Pushed) /\ n \in Nat
    BY <1>2, WaitingSeq DEF WaitInv
  <2>6. Waiting' = Append(w, new) /\ queue' \in Seq(Pushed)
    <3>1. queue' = Append(queue, new) BY <1>5 DEF new
    <3> QED BY <1>1, <2>3, <2>5, <3>1, PushAppends
  <2>7. /\ Len(Waiting') = n + 1
        /\ \A i \in 1..(n + 1) : Waiting'[i] = IF i <= n THEN w[i] ELSE new
    <3>1. /\ Len(Append(w, new)) = n + 1 /\ \A i \in 1..n : Append(w, new)[i] = w[i]
          /\ Append(w, new)[n + 1] = new
      BY <2>3, <2>5, AppendProperties
    <3> HIDE DEF w, n
    <3>2. ASSUME NEW i \in 1..(n + 1)
          PROVE  Append(w, new)[i] = IF i <= n THEN w[i] ELSE new
      <4>1. i <= n => i \in 1..n BY <2>5
      <4>2. ~ (i <= n) => i = n + 1 BY <2>5
      <4> QED BY <3>1, <4>1, <4>2
    <3> QED BY <2>6, <3>1, <3>2
  <2>8. n \in Nat BY <2>5
  <2>9. Fresh(now)
    <3>1. now >= StartDelay BY <2>1, MidiAssumption DEF Stamps
    <3> QED BY <1>2, <3>1, FreshNow
  <2>10. \A i \in 1..n : /\ Stamps(w[i].event.target, w[i].pushed)
                         /\ w[i].pushed <= now
                         /\ Fresh(w[i].pushed) \/ w[1].event.target >= Horizon
                         /\ \A j \in 1..n : i <= j => w[i].pushed <= w[j].pushed
    <3>1. \A t \in StartDelay..now : t <= now BY <1>2, MidiAssumption
    <3> QED BY <1>2, <3>1 DEF WaitInv, Stamps
  <2> HIDE DEF w, n
  <2>11. ASSUME NEW i \in 1..(n + 1)
         PROVE  /\ Stamps(Waiting'[i].event.target, Waiting'[i].pushed)
                /\ Waiting'[i].pushed <= now
                /\ Fresh(Waiting'[i].pushed) \/ Waiting'[1].event.target >= Horizon
                /\ \A j \in 1..(n + 1) : i <= j => Waiting'[i].pushed <= Waiting'[j].pushed
    <3>1. CASE i <= n
      <4>1. i \in 1..n /\ 1 \in 1..(n + 1) /\ 1 <= n BY <2>8, <3>1
      <4>2. Waiting'[i] = w[i] /\ Waiting'[1] = w[1] BY <2>7, <3>1, <4>1
      <4>3. ASSUME NEW j \in 1..(n + 1), i <= j
            PROVE  Waiting'[i].pushed <= Waiting'[j].pushed
        <5>1. CASE j <= n
          <6>1. j \in 1..n /\ Waiting'[j] = w[j] BY <2>7, <2>8, <5>1
          <6> QED BY <2>10, <4>1, <4>2, <4>3, <6>1
        <5>2. CASE ~ (j <= n)
          <6>1. Waiting'[j].pushed = now BY <2>4, <2>7, <5>2
          <6> QED BY <2>10, <4>1, <4>2, <6>1
        <5> QED BY <5>1, <5>2
      <4> QED BY <2>10, <4>1, <4>2, <4>3
    <3>2. CASE ~ (i <= n)
      <4>1. Waiting'[i] = new BY <2>7, <3>2
      <4>2. \A j \in 1..(n + 1) : i <= j => j = i BY <2>8, <3>2
      <4>3. now <= now BY <1>2
      <4> QED BY <2>4, <2>9, <4>1, <4>2, <4>3
    <3> QED BY <3>1, <3>2
  <2>12. \A t : /\ Fresh(t)' = Fresh(t)
                /\ \A g : Stamps(g, t)' = Stamps(g, t)
    BY <1>1, <1>3 DEF Fresh, Stamps, Due
  <2> QED BY <1>1, <1>2, <1>3, <2>6, <2>7, <2>11, <2>12 DEF WaitInv
<1> QED BY <1>1, <1>4, <1>5 DEF Push

\* The drain stops at the first message for a later window.
LEMMA DrainStops ==
  ASSUME WaitInv
  PROVE  /\ DrainCount \in 0..Len(Waiting)
         /\ DrainCount < Len(Waiting) =>
              Waiting[DrainCount + 1].event.target >= sample_counter + SubBlock
<1> DEFINE w == Waiting
           later == {i \in DOMAIN w : w[i].event.target >= sample_counter + SubBlock}
<1>1. DOMAIN w = 1..Len(w) /\ Len(w) \in Nat BY WaitingSeq
<1>2. CASE later = {}
  <2>1. DrainCount = Len(w) BY <1>2 DEF DrainCount
  <2> QED BY <1>1, <2>1
<1>3. CASE later # {}
  <2>1. DrainCount = Min(later) - 1 BY <1>3 DEF DrainCount
  <2>2. later \in SUBSET Nat BY <1>1
  <2>3. Min(later) \in later BY <1>3, <2>2, LeastNatural
  <2>4. PICK m : m = Min(later) OBVIOUS
  <2>5. m \in 1..Len(w) /\ w[m].event.target >= sample_counter + SubBlock
    BY <1>1, <2>3, <2>4
  <2> HIDE DEF w, later
  <2>6. DrainCount = m - 1 /\ DrainCount + 1 = m BY <1>1, <2>1, <2>4, <2>5
  <2>7. DrainCount \in 0..Len(w) BY <1>1, <2>5, <2>6
  <2> QED BY <2>5, <2>6, <2>7 DEF w
<1> QED BY <1>2, <1>3

\* What a drain leaves: one message in the look-ahead slot, the others behind it.
LEMMA DrainLeaves ==
  ASSUME NEW E, NEW w \in Seq(E), NEW n \in 0..Len(w)
  PROVE  LET first == SubSeq(w, n + 1, Min({n + 1, Len(w)}))
             rest  == SubSeq(w, n + 2, Len(w))
         IN  /\ first \in Seq(E) /\ rest \in Seq(E)
             /\ first \o rest = SubSeq(w, n + 1, Len(w))
<1>1. Len(w) \in Nat /\ \A i \in 1..Len(w) : w[i] \in E
  BY LenProperties, ElementOfSeq
<1>2. n \in Nat /\ n + 1 \in Nat /\ n + 2 \in Nat BY <1>1
<1>3. ASSUME NEW a \in Nat \ {0}, NEW b \in 0..Len(w) PROVE SubSeq(w, a, b) \in Seq(E)
  <2>1. \A i \in a..b : i \in 1..Len(w) BY <1>1
  <2>2. a \in Int /\ b \in Int BY <1>1
  <2> QED BY <1>1, <2>1, <2>2, SubSeqProperties
<1>4. CASE n = Len(w)
  <2>1. Min({n + 1, Len(w)}) = n
    <3>1. Min({n + 1, Len(w)}) \in {n + 1, Len(w)} /\ Min({n + 1, Len(w)}) <= Len(w)
      BY <1>1, <1>2, LesserOf
    <3> QED BY <1>2, <1>4, <3>1
  <2>2. n < n + 1 /\ n < n + 2 /\ n \in Int /\ n + 1 \in Int /\ n + 2 \in Int BY <1>2
  <2>3. SubSeq(w, n + 1, n) = <<>> /\ SubSeq(w, n + 2, n) = <<>>
    BY <2>2, SubSeqEmpty
  <2>4. <<>> \in Seq(E) /\ <<>> \o <<>> = <<>> BY ConcatEmptySeq
  <2> QED BY <1>4, <2>1, <2>3, <2>4
<1>5. CASE n # Len(w)
  <2>1. n + 1 \in 1..Len(w) /\ n + 1 <= Len(w) BY <1>1, <1>2, <1>5
  <2>2. Min({n + 1, Len(w)}) = n + 1
    <3>1. Min({n + 1, Len(w)}) \in {n + 1, Len(w)} /\ Min({n + 1, Len(w)}) <= n + 1
      BY <1>1, <1>2, LesserOf
    <3> QED BY <1>1, <1>2, <2>1, <3>1
  <2>3. PICK m, k : m = n + 1 /\ k = n + 1 OBVIOUS
  <2>4. m \in 1..Len(w) + 1 /\ k \in m - 1..Len(w) /\ Len(w) \in k..Len(w) /\ k + 1 = n + 2
    BY <1>1, <1>2, <2>1, <2>3
  <2>5. SubSeq(w, m, k) \o SubSeq(w, k + 1, Len(w)) = SubSeq(w, m, Len(w))
    BY <2>4, ConcatAdjacentSubSeq
  <2>6. n + 1 \in Nat \ {0} /\ n + 2 \in Nat \ {0} /\ n + 1 \in 0..Len(w) /\ Len(w) \in 0..Len(w)
    BY <1>1, <1>2, <2>1
  <2> QED BY <1>3, <2>2, <2>3, <2>4, <2>5, <2>6
<1> QED BY <1>4, <1>5

LEMMA ChunkWaits ==
  ASSUME MidiInv, Chunk
  PROVE  WaitInv'
<1>1. TimeInv /\ WaitInv /\ now \in Nat /\ sample_counter \in Nat
  BY DEF MidiInv, TimeInv
<1>2. /\ now' = now
      /\ Horizon' = IF until_next = SubBlock THEN sample_counter + SubBlock ELSE Horizon
  BY <1>1, CallbackTicks
<1>3. CASE until_next # SubBlock
  <2>1. UNCHANGED <<queue, peeked>> BY <1>3 DEF Chunk
  <2>2. now <= now' /\ now' \in Nat BY <1>1, <1>2
  <2> QED BY <1>1, <1>2, <1>3, <2>1, <2>2, WaitAside
<1>4. CASE until_next = SubBlock
  <2> DEFINE w == Waiting
             n == DrainCount
  <2>1. /\ peeked' = SubSeq(w, n + 1, Min({n + 1, Len(w)}))
        /\ queue' = SubSeq(w, n + 2, Len(w))
    BY <1>4 DEF Chunk
  <2>2. w \in Seq(Pushed) /\ Len(w) \in Nat BY <1>1, WaitingSeq
  <2>3. n \in 0..Len(w) /\ (n < Len(w) => w[n + 1].event.target >= sample_counter + SubBlock)
    BY <1>1, DrainStops
  <2>4. Waiting' = peeked' \o queue' BY DEF Waiting
  <2>5. \A i, j \in 1..Len(w) : /\ Stamps(w[i].event.target, w[i].pushed)
                                /\ i <= j => w[i].pushed <= w[j].pushed
    BY <1>1 DEF WaitInv
  <2> HIDE DEF w, n
  <2>6. /\ peeked' \in Seq(Pushed) /\ queue' \in Seq(Pushed)
        /\ Waiting' = SubSeq(w, n + 1, Len(w))
    BY <2>1, <2>2, <2>3, <2>4, DrainLeaves
  <2>7. PICK v : v = SubSeq(w, n + 1, Len(w)) OBVIOUS
  <2>8. /\ Len(v) = Len(w) - n
        /\ \A i \in 1..Len(v) : n + i \in 1..Len(w) /\ v[i] = w[n + i]
    <3>1. \A i \in n + 1..Len(w) : w[i] \in Pushed
      <4>1. \A i \in n + 1..Len(w) : i \in 1..Len(w) BY <2>2, <2>3
      <4> QED BY <2>2, <4>1, ElementOfSeq
    <3>2. n \in Nat /\ n + 1 \in Int /\ Len(w) \in Int /\ n <= Len(w) BY <2>2, <2>3
    <3>3. /\ Len(v) = IF n + 1 <= Len(w) THEN Len(w) - (n + 1) + 1 ELSE 0
          /\ \A i \in 1..(Len(w) - (n + 1) + 1) : v[i] = w[n + 1 + i - 1]
      BY <2>7, <3>1, <3>2, SubSeqProperties
    <3>4. Len(v) = Len(w) - n BY <3>2, <3>3
    <3>5. ASSUME NEW i \in 1..Len(v) PROVE n + i \in 1..Len(w) /\ v[i] = w[n + i]
      <4>1. i \in 1..(Len(w) - (n + 1) + 1) /\ n + 1 + i - 1 = n + i BY <3>2, <3>4
      <4> QED BY <3>2, <3>3, <3>4, <4>1
    <3> QED BY <3>4, <3>5
  <2>9. ASSUME NEW i \in 1..Len(v)
        PROVE  /\ Stamps(v[i].event.target, v[i].pushed)
               /\ \A j \in 1..Len(v) : i <= j => v[i].pushed <= v[j].pushed
               /\ v[1].event.target >= sample_counter + SubBlock
    <3>1. n \in Nat /\ Len(v) \in Nat BY <2>2, <2>3, <2>8
    <3>2. Stamps(v[i].event.target, v[i].pushed) BY <2>5, <2>8
    <3>3. ASSUME NEW j \in 1..Len(v), i <= j PROVE v[i].pushed <= v[j].pushed
      <4>1. n + i <= n + j BY <3>1, <3>3
      <4> QED BY <2>5, <2>8, <4>1
    <3>4. 1 \in 1..Len(v) /\ n < Len(w) BY <2>2, <2>3, <2>8, <3>1
    <3>5. v[1] = w[n + 1] BY <2>8, <3>4
    <3> QED BY <2>3, <3>2, <3>3, <3>4, <3>5
  <2>10. Waiting' = v /\ Horizon' = sample_counter + SubBlock BY <1>2, <1>4, <2>6, <2>7
  <2>11. \A g, t : Stamps(g, t)' = Stamps(g, t) BY <1>2 DEF Stamps
  <2> QED BY <2>6, <2>9, <2>10, <2>11, Zenon DEF WaitInv
<1> QED BY <1>3, <1>4

-----------------------------------------------------------------------------
(* The bound on waiting.                                                    *)

LEMMA MidiInit == Init => MidiInv
<1> SUFFICES ASSUME Init PROVE MidiInv
  OBVIOUS
<1>1. /\ {Frames, SubBlock} \subseteq Nat \ {0} /\ {StartDelay, Jitter, Lookahead} \subseteq Nat
      /\ Lead \in Nat /\ StartDelay <= Lead
  BY MidiAssumption DEF Lead
<1>2. Due(0) = StartDelay BY DueFacts
<1>3. Streamed = 0
  <2>1. sample_counter = 0 /\ until_next = SubBlock BY DEF Init
  <2> QED BY <1>1, <2>1 DEF Streamed
<1>4. TimeInv
  <2>1. /\ now = 0 /\ callbacks = 0 /\ callback = "waiting" /\ remaining = 0
        /\ until_next = SubBlock /\ sample_counter = 0 /\ clock = [count |-> 0, wall |-> 0]
    BY DEF Init
  <2> QED BY <1>1, <1>2, <1>3, <2>1 DEF TimeInv
<1>5. StampInv
  <2>1. port = [p \in Port |-> Idle] /\ received = 0 BY DEF Init
  <2>2. Idle \in Threads /\ Idle.pc = "idle" BY DEF Threads, Idle
  <2> QED BY <2>1, <2>2 DEF StampInv
<1>6. WaitInv
  <2>1. queue = <<>> /\ peeked = <<>> BY DEF Init
  <2>2. Waiting = <<>> /\ Len(Waiting) = 0 BY <2>1, ConcatEmptySeq, EmptySeq DEF Waiting
  <2> QED BY <2>1, <2>2 DEF WaitInv
<1> QED BY <1>4, <1>5, <1>6 DEF MidiInv

LEMMA MidiStep == MidiInv /\ [Next]_vars => MidiInv'
<1> SUFFICES ASSUME MidiInv, [Next]_vars PROVE MidiInv'
  OBVIOUS
<1>1. TimeInv /\ StampInv /\ WaitInv /\ now \in Nat /\ now <= now
  BY DEF MidiInv, TimeInv
<1>2. CASE Time
  <2>1. TimeInv' /\ Horizon' = Horizon /\ now' \in Nat /\ now <= now'
    BY <1>1, <1>2, TimeTicks
  <2>2. UNCHANGED <<received, port>> /\ UNCHANGED <<queue, peeked>>
    BY <1>2 DEF Time, queueVars
  <2> QED BY <1>1, <2>1, <2>2, StampsAside, WaitAside DEF MidiInv
<1>3. ASSUME NEW p \in Port, Handle(p) PROVE MidiInv'
  <2>1. UNCHANGED <<now, callbackVars, clock>>
    BY <1>3 DEF Handle, Receive, ReadClock, Push
  <2>2. TimeInv' /\ Horizon' = Horizon /\ now' = now BY <1>1, <2>1, TimeAside
  <2>3. StampInv' BY <1>1, <1>3, ReceiveStamps, ReadStamps, PushStamps DEF Handle
  <2>4. CASE Push(p) BY <2>2, <2>3, <2>4, PushWaits DEF MidiInv
  <2>5. CASE Receive(p) \/ ReadClock(p)
    <3>1. UNCHANGED <<queue, peeked>> BY <2>5 DEF Receive, ReadClock, queueVars
    <3>2. now' \in Nat /\ now <= now' BY <1>1, <2>2
    <3> QED BY <1>1, <2>2, <2>3, <3>1, <3>2, WaitAside DEF MidiInv
  <2> QED BY <1>3, <2>4, <2>5 DEF Handle
<1>4. CASE Callback
  <2>1. TimeInv' /\ now' = now
    BY <1>1, <1>4, CallbackBegins, CallbackTicks, CallbackEnds DEF Callback
  <2>2. UNCHANGED <<received, port>>
    BY <1>4 DEF Callback, BeginCallback, Chunk, EndCallback
  <2>3. now' \in Nat /\ now <= now' BY <1>1, <2>1
  <2>4. StampInv' BY <1>1, <2>2, <2>3, StampsAside
  <2>5. CASE Chunk BY <2>1, <2>4, <2>5, ChunkWaits DEF MidiInv
  <2>6. CASE BeginCallback \/ EndCallback
    <3>1. UNCHANGED <<queue, peeked>> /\ Horizon' = Horizon
      BY <1>1, <2>6, CallbackBegins, CallbackEnds DEF BeginCallback, EndCallback, queueVars
    <3> QED BY <1>1, <2>1, <2>3, <2>4, <3>1, WaitAside DEF MidiInv
  <2> QED BY <1>4, <2>5, <2>6 DEF Callback
<1>5. CASE UNCHANGED vars
  <2>1. UNCHANGED <<now, callbackVars, clock, received, port, queue, peeked>>
    BY <1>5 DEF vars, queueVars
  <2>2. UNCHANGED <<now, callbackVars, clock>> BY <2>1
  <2>3. TimeInv' /\ Horizon' = Horizon BY <1>1, <2>2, TimeAside
  <2>4. now' \in Nat /\ now <= now' /\ UNCHANGED <<received, port>> /\ UNCHANGED <<queue, peeked>>
    BY <1>1, <2>1
  <2> QED BY <1>1, <2>3, <2>4, StampsAside, WaitAside DEF MidiInv
<1> QED BY <1>2, <1>3, <1>4, <1>5 DEF Next

\* How late a drain may come: the callbacks begun, the samples they ticked and
\* the wall clock stay in step, and what waits was pushed no earlier than the
\* callback that drained last, or is held up by a head for a later window that
\* was stamped no further ahead than the last published anchor allows.
THEOREM MidiInvariant == Spec => []MidiInv
<1>1. Init => MidiInv BY MidiInit
<1>2. MidiInv /\ [Next]_vars => MidiInv' BY MidiStep
<1> QED BY <1>1, <1>2, PTL DEF Spec

\* "A fixed, bounded latency", whatever the lengths of callback, sub-block,
\* lookahead and queue, however many ports are played, however late callbacks
\* start, and wherever a MIDI thread stalls between reading the clock and
\* pushing.
THEOREM WaitsAreBounded == Spec => []LatencyBounded
<1>1. MidiInv => LatencyBounded BY WaitIsBounded
<1> QED BY <1>1, MidiInvariant, PTL

-----------------------------------------------------------------------------
(* Folds.                                                                   *)

LEMMA CountUp ==
  ASSUME NEW N \in Nat, NEW G, 0 \in G,
         \A n \in 1..N : n - 1 \in G => n \in G
  PROVE  \A n \in 0..N : n \in G
<1> DEFINE B == {n \in 0..N : n \notin G}
<1>1. SUFFICES ASSUME B # {} PROVE FALSE OBVIOUS
<1>2. B \in SUBSET Nat OBVIOUS
<1>3. PICK m \in B : \A y \in B : m <= y BY <1>1, <1>2, LeastNatural
<1>4. m \in 1..N BY <1>3
<1>5. m - 1 \in 0..N /\ ~ (m <= m - 1) BY <1>4
<1>6. m - 1 \in G BY <1>3, <1>5
<1> QED BY <1>3, <1>4, <1>6

LEMMA MaxIsLast ==
  ASSUME NEW n \in Nat, NEW X \in SUBSET (1..n), n \in X
  PROVE  Max(X) = n
<1>1. X \subseteq Int /\ \A y \in X : n >= y OBVIOUS
<1>2. \E x \in X : \A y \in X : x >= y BY <1>1
<1>3. Max(X) \in X /\ \A y \in X : Max(X) >= y BY <1>2, Zenon DEF Max
<1>4. Max(X) >= n /\ n >= Max(X) /\ Max(X) \in Int BY <1>1, <1>3
<1> QED BY <1>4

LEMMA MaxInside ==
  ASSUME NEW n \in Nat, NEW X \in SUBSET (1..n), X # {}
  PROVE  Max(X) \in X
<1> DEFINE B == {b \in Nat : \A y \in X : b >= y}
<1>1. B \in SUBSET Nat /\ n \in B /\ B # {}
  <2>1. \A y \in X : n >= y OBVIOUS
  <2> QED BY <2>1
<1>2. PICK b \in B : \A y \in B : b <= y BY <1>1, LeastNatural
<1>3. ASSUME b \notin X PROVE FALSE
  <2>1. \A y \in X : b > y BY <1>2, <1>3
  <2>2. b \in Nat /\ b > 0
    <3>1. PICK y \in X : TRUE OBVIOUS
    <3>2. y \in Nat /\ y > 0 /\ b > y /\ b \in Nat BY <2>1
    <3> QED BY <3>2
  <2>3. \A y \in X : b - 1 >= y
    <3> SUFFICES ASSUME NEW y \in X PROVE b - 1 >= y OBVIOUS
    <3>1. b > y /\ y \in Nat BY <2>1
    <3> QED BY <2>2, <3>1
  <2>4. b - 1 \in B BY <2>2, <2>3
  <2>5. ~ (b <= b - 1) BY <2>2
  <2> QED BY <2>4, <2>5, <1>2
<1>4. \E x \in X : \A y \in X : x >= y BY <1>2, <1>3
<1> QED BY <1>4, Zenon DEF Max

\* F applied to each of 1..n in turn: as the library's folds have it, and step by step.
FoldsUp(f, n, base, F) ==
  \A X \in SUBSET (1..n) : f[X] = IF X = {} THEN base ELSE F[<<f[X \ {Max(X)}], Max(X)>>]
StepsUp(h, n, base, F) == h[0] = base /\ \A i \in 1..n : h[i] = F[<<h[i - 1], i>>]

LEMMA FoldDefined ==
  ASSUME NEW N \in Nat, NEW D, NEW base \in D, NEW F \in [D \X (1..N) -> D]
  PROVE  \E f \in [SUBSET (1..N) -> D] : FoldsUp(f, N, base, F)
<1> DEFINE Folds(f, n) ==
      \A X \in SUBSET (1..n) :
        f[X] = IF X = {} THEN base ELSE F[<<f[X \ {Max(X)}], Max(X)>>]
           G == {n \in 0..N : \E f \in [SUBSET (1..n) -> D] : Folds(f, n)}
<1>1. 0 \in G
  <2> DEFINE f == [X \in SUBSET (1..0) |-> base]
  <2>1. f \in [SUBSET (1..0) -> D] OBVIOUS
  <2>2. \A X \in SUBSET (1..0) : X = {} OBVIOUS
  <2>3. Folds(f, 0) BY <2>2
  <2> HIDE DEF f, Folds
  <2>4. 0 \in 0..N OBVIOUS
  <2> QED BY <2>1, <2>3, <2>4
<1>2. ASSUME NEW n \in 1..N, n - 1 \in G PROVE n \in G
  <2>1. PICK f \in [SUBSET (1..(n - 1)) -> D] : Folds(f, n - 1) BY <1>2
  <2> DEFINE g == [X \in SUBSET (1..n) |->
                     IF n \in X THEN F[<<f[X \ {n}], n>>] ELSE f[X]]
  <2>2. \A X \in SUBSET (1..n) :
          X \ {n} \in SUBSET (1..(n - 1)) /\ (n \notin X => X \in SUBSET (1..(n - 1)))
    OBVIOUS
  <2>3. g \in [SUBSET (1..n) -> D] BY <2>2
  <2>4. Folds(g, n)
    <3> SUFFICES ASSUME NEW X \in SUBSET (1..n)
                 PROVE  g[X] = IF X = {} THEN base ELSE F[<<g[X \ {Max(X)}], Max(X)>>]
      OBVIOUS
    <3>1. CASE n \in X
      <4>1. Max(X) = n BY <3>1, MaxIsLast
      <4>2. g[X \ {n}] = f[X \ {n}] BY <2>2
      <4> QED BY <3>1, <4>1, <4>2
    <3>2. CASE n \notin X /\ X = {} BY <3>2, <2>1, <2>2
    <3>3. CASE n \notin X /\ X # {}
      <4>1. X \in SUBSET (1..(n - 1)) BY <3>3, <2>2
      <4>2. X \ {Max(X)} \in SUBSET (1..(n - 1)) /\ n \notin X \ {Max(X)}
        BY <4>1, <3>3
      <4>3. g[X] = f[X] /\ g[X \ {Max(X)}] = f[X \ {Max(X)}]
        BY <4>1, <4>2, <3>3
      <4>4. f[X] = F[<<f[X \ {Max(X)}], Max(X)>>] BY <2>1, <4>1, <3>3
      <4> QED BY <4>3, <4>4, <3>3
    <3> QED BY <3>1, <3>2, <3>3
  <2> HIDE DEF g, Folds
  <2>5. n \in 0..N OBVIOUS
  <2> QED BY <2>3, <2>4, <2>5
<1> HIDE DEF G
<1>3. N \in G BY <1>1, <1>2, CountUp
<1>4. PICK f \in [SUBSET (1..N) -> D] : Folds(f, N) BY <1>3 DEF G
<1> QED BY <1>4 DEF FoldsUp

LEMMA FoldByStep ==
  ASSUME NEW N \in Nat, NEW D, NEW base \in D, NEW F,
         NEW f \in [SUBSET (1..N) -> D], FoldsUp(f, N, base, F)
  PROVE  /\ [n \in 0..N |-> f[1..n]] \in [0..N -> D]
         /\ StepsUp([n \in 0..N |-> f[1..n]], N, base, F)
<1> DEFINE h == [n \in 0..N |-> f[1..n]]
<1>1. \A n \in 0..N : 1..n \in SUBSET (1..N) OBVIOUS
<1>2. h \in [0..N -> D] BY <1>1
<1>3. h[0] = base
  <2>1. 1..0 = {} /\ {} \in SUBSET (1..N) OBVIOUS
  <2>2. h[0] = f[{}] BY <2>1
  <2> QED BY <2>1, <2>2 DEF FoldsUp
<1>4. ASSUME NEW n \in 1..N PROVE h[n] = F[<<h[n - 1], n>>]
  <2>0. n \in Nat /\ n \in 1..n /\ 1..n \in SUBSET (1..N) OBVIOUS
  <2>1. Max(1..n) = n
    <3>1. 1..n \in SUBSET (1..n) OBVIOUS
    <3> QED BY <2>0, <3>1, MaxIsLast
  <2>2. (1..n) \ {n} = 1..(n - 1) /\ n \in 0..N /\ n - 1 \in 0..N OBVIOUS
  <2>3. f[1..n] = F[<<f[(1..n) \ {n}], n>>] BY <2>0, <2>1 DEF FoldsUp
  <2> QED BY <2>2, <2>3
<1> HIDE DEF h
<1>5. StepsUp(h, N, base, F) BY <1>3, <1>4 DEF StepsUp
<1> QED BY <1>2, <1>5 DEF h

\* A sequence of sequences is flattened one by one.
Flattens(h, ss, n) ==
  h[1] = ss[1] /\ h[n] = FlattenSeq(ss) /\ \A i \in 2..n : h[i] = h[i - 1] \o ss[i]

LEMMA FlattenSteps ==
  ASSUME NEW E, NEW N \in Nat \ {0}, NEW ss \in [1..N -> Seq(E)]
  PROVE  \E h \in [1..N -> Seq(E)] : Flattens(h, ss, N)
<1> DEFINE D == Seq(E)
           F == [x \in D \X (1..N) |-> IF x[2] = 1 THEN ss[1] ELSE x[1] \o ss[x[2]]]
           Flat(g) == g = [i \in 1..N |-> IF i = 1 THEN ss[i] ELSE g[i - 1] \o ss[i]]
<1>1. \A x \in D \X (1..N) : (IF x[2] = 1 THEN ss[1] ELSE x[1] \o ss[x[2]]) \in D
  BY ConcatProperties
<1>2. F \in [D \X (1..N) -> D] BY <1>1
<1>3. PICK base \in D : TRUE OBVIOUS
<1>17. N \in Nat OBVIOUS
<1> HIDE DEF F, D
<1>4. PICK f \in [SUBSET (1..N) -> D] : FoldsUp(f, N, base, F)
  BY <1>2, <1>3, <1>17, FoldDefined
<1>5. PICK h \in [0..N -> D] : StepsUp(h, N, base, F)
  BY <1>3, <1>4, <1>17, FoldByStep
<1>6. ASSUME NEW n \in 1..N
      PROVE  h[n] = IF n = 1 THEN ss[1] ELSE h[n - 1] \o ss[n]
  <2>1. h[n] = F[<<h[n - 1], n>>] BY <1>5 DEF StepsUp
  <2>2. n - 1 \in 0..N OBVIOUS
  <2>3. <<h[n - 1], n>> \in D \X (1..N) BY <1>5, <2>2
  <2> QED BY <2>1, <2>3 DEF F
<1> DEFINE k == [n \in 1..N |-> h[n]]
<1>7. Flat(k)
  <2>1. ASSUME NEW n \in 1..N
        PROVE  k[n] = IF n = 1 THEN ss[n] ELSE k[n - 1] \o ss[n]
    <3>1. n # 1 => n - 1 \in 1..N OBVIOUS
    <3>2. k[n] = h[n] /\ (n # 1 => k[n - 1] = h[n - 1]) BY <3>1
    <3> QED BY <1>6, <3>2
  <2> QED BY <2>1
<1>8. Flat(CHOOSE g : Flat(g))
  <2> HIDE DEF k, Flat
  <2> QED BY <1>7
<1>9. PICK g : Flat(g) /\ g = CHOOSE y : Flat(y) BY <1>8
<1>10. Len(ss) = N /\ Len(ss) # 0 OBVIOUS
<1>11. FlattenSeq(ss) = g[N]
  <2>1. FlattenSeq(ss) = (CHOOSE flatten : flatten = [i \in 1..Len(ss) |->
            IF i = 1 THEN ss[i] ELSE flatten[i-1] \o ss[i]])[Len(ss)]
    BY <1>10 DEF FlattenSeq
  <2> QED BY <1>9, <1>10, <2>1
<1>12. \A n \in 1..N : g[n] = IF n = 1 THEN ss[n] ELSE g[n - 1] \o ss[n] BY <1>9
<1>13. \A n \in 0..N : n \in {j \in 0..N : j = 0 \/ g[j] \in Seq(E)}
  <2> DEFINE G == {j \in 0..N : j = 0 \/ g[j] \in Seq(E)}
  <2>1. 0 \in G OBVIOUS
  <2>2. ASSUME NEW n \in 1..N, n - 1 \in G PROVE n \in G
    <3>1. CASE n = 1 BY <1>12, <3>1
    <3>2. CASE n # 1
      <4>1. g[n - 1] \in Seq(E) /\ ss[n] \in Seq(E) BY <2>2, <3>2
      <4>2. g[n] = g[n - 1] \o ss[n] BY <1>12, <3>2
      <4>3. g[n] \in Seq(E) BY <4>1, <4>2, ConcatProperties
      <4> QED BY <4>3
    <3> QED BY <3>1, <3>2
  <2> HIDE DEF G
  <2>3. \A n \in 0..N : n \in G BY <2>1, <2>2, CountUp
  <2> QED BY <2>3 DEF G
<1>14. g \in [1..N -> Seq(E)]
  <2>1. g = [i \in 1..N |-> g[i]] BY <1>9
  <2>2. \A n \in 1..N : g[n] \in Seq(E) BY <1>13
  <2> QED BY <2>1, <2>2
<1>15. g[1] = ss[1]
  <2>1. 1 \in 1..N OBVIOUS
  <2> QED BY <1>12, <2>1
<1>16. \A n \in 2..N : g[n] = g[n - 1] \o ss[n]
  <2>1. \A n \in 2..N : n \in 1..N /\ n # 1 OBVIOUS
  <2> QED BY <1>12, <2>1
<1> QED BY <1>11, <1>14, <1>15, <1>16 DEF Flattens

-----------------------------------------------------------------------------
(* Writing into the scratch.                                                *)

Scratches ==
  {s \in [rows : [Row -> Seq(Event)], pending : Seq(Event), dropped : SUBSET Message] :
     (\A t \in Row : Len(s.rows[t]) <= RowSize) /\ Len(s.pending) <= CarrySize}

\* A message is put into the first row with room, carried over, or dropped.
LEMMA WriteFacts ==
  ASSUME NEW s \in Scratches, NEW offset \in Int, NEW e \in Event
  PROVE  \/ \E t \in Row :
              /\ t >= offset /\ Len(s.rows[t]) < RowSize
              /\ \A u \in Row : u >= offset /\ Len(s.rows[u]) < RowSize => t <= u
              /\ Write(s, offset, e) = [s EXCEPT !.rows[t] = Append(@, e)]
         \/ /\ \A u \in Row : u >= offset => ~ (Len(s.rows[u]) < RowSize)
            /\ \/ /\ Len(s.pending) < CarrySize
                  /\ Write(s, offset, e) = [s EXCEPT !.pending = Append(@, e)]
               \/ Write(s, offset, e) = [s EXCEPT !.dropped = @ \cup {e.id}]
<1> DEFINE room == {t \in Row : t >= offset /\ Len(s.rows[t]) < RowSize}
<1>1. CASE room = {}
  <2>1. Write(s, offset, e) = Park(s, e) BY <1>1 DEF Write
  <2> QED BY <1>1, <2>1 DEF Park
<1>2. CASE room # {}
  <2>1. room \in SUBSET Nat BY MidiAssumption DEF Row
  <2>2. Min(room) \in room /\ \A u \in room : Min(room) <= u BY <1>2, <2>1, LeastNatural
  <2>3. Write(s, offset, e) = [s EXCEPT !.rows[Min(room)] = Append(@, e)]
    BY <1>2 DEF Write
  <2>4. PICK t : t = Min(room) OBVIOUS
  <2> QED BY <2>2, <2>3, <2>4
<1> QED BY <1>1, <1>2

LEMMA WriteTyped ==
  ASSUME NEW s \in Scratches, NEW offset \in Int, NEW e \in Event
  PROVE  Write(s, offset, e) \in Scratches
<1>1. RowSize \in Nat /\ CarrySize \in Nat BY MidiAssumption
<1>2. /\ s \in [rows : [Row -> Seq(Event)], pending : Seq(Event), dropped : SUBSET Message]
      /\ \A t \in Row : Len(s.rows[t]) <= RowSize
      /\ Len(s.pending) <= CarrySize
  BY DEF Scratches
<1>3. ASSUME NEW q \in Seq(Event)
      PROVE  Append(q, e) \in Seq(Event) /\ Len(Append(q, e)) = Len(q) + 1 /\ Len(q) \in Nat
  BY AppendProperties, LenProperties
<1>4. ASSUME NEW t \in Row, Len(s.rows[t]) < RowSize
      PROVE  [s EXCEPT !.rows[t] = Append(@, e)] \in Scratches
  <2> DEFINE x == [s EXCEPT !.rows[t] = Append(@, e)]
  <2>1. x.rows = [s.rows EXCEPT ![t] = Append(@, e)] /\ x.pending = s.pending
    BY <1>2
  <2>2. \A u \in Row : x.rows[u] = IF u = t THEN Append(s.rows[t], e) ELSE s.rows[u]
    BY <1>2, <2>1
  <2>3. s.rows[t] \in Seq(Event) BY <1>2
  <2>4. Len(Append(s.rows[t], e)) <= RowSize /\ Append(s.rows[t], e) \in Seq(Event)
    BY <1>1, <1>3, <1>4, <2>3
  <2>5. x \in [rows : [Row -> Seq(Event)], pending : Seq(Event), dropped : SUBSET Message]
    BY <1>2, <2>4
  <2>6. \A u \in Row : Len(x.rows[u]) <= RowSize BY <1>2, <2>2, <2>4
  <2> HIDE DEF x
  <2>7. x \in Scratches BY <1>2, <2>1, <2>5, <2>6 DEF Scratches
  <2> QED BY <2>7 DEF x
<1>5. ASSUME Len(s.pending) < CarrySize
      PROVE  [s EXCEPT !.pending = Append(@, e)] \in Scratches
  <2> DEFINE x == [s EXCEPT !.pending = Append(@, e)]
  <2>1. x.rows = s.rows /\ x.pending = Append(s.pending, e) BY <1>2
  <2>2. Append(s.pending, e) \in Seq(Event) /\ Len(Append(s.pending, e)) <= CarrySize
    BY <1>1, <1>2, <1>3, <1>5
  <2>3. x \in [rows : [Row -> Seq(Event)], pending : Seq(Event), dropped : SUBSET Message]
    BY <1>2, <2>2
  <2> HIDE DEF x
  <2>4. x \in Scratches BY <1>2, <2>1, <2>2, <2>3 DEF Scratches
  <2> QED BY <2>4 DEF x
<1>6. [s EXCEPT !.dropped = @ \cup {e.id}] \in Scratches
  <2>1. e.id \in Message BY DEF Event
  <2> QED BY <1>2, <2>1 DEF Scratches
<1> QED
  <2>1. CASE \E t \in Row :
               /\ Len(s.rows[t]) < RowSize
               /\ Write(s, offset, e) = [s EXCEPT !.rows[t] = Append(@, e)]
    BY <1>4, <2>1
  <2>2. CASE /\ Len(s.pending) < CarrySize
             /\ Write(s, offset, e) = [s EXCEPT !.pending = Append(@, e)]
    BY <1>5, <2>2
  <2>3. CASE Write(s, offset, e) = [s EXCEPT !.dropped = @ \cup {e.id}]
    BY <1>6, <2>3
  <2> QED BY <2>1, <2>2, <2>3, WriteFacts, Zenon

-----------------------------------------------------------------------------
(* Writing one message after another.                                       *)

\* What a fold of Write over the messages ev at the offsets off is.
Files(f, n, base, off, ev) ==
  \A X \in SUBSET (1..n) :
    f[X] = IF X = {} THEN base
           ELSE Write(f[X \ {Max(X)}], off[Max(X)], ev[Max(X)])
Stages(f, n) == [i \in 0..n |-> f[1..i]]
FilesOneByOne(h, n, base, off, ev) ==
  h[0] = base /\ \A i \in 1..n : h[i] = Write(h[i - 1], off[i], ev[i])

LEMMA FilesExists ==
  ASSUME NEW N \in Nat, NEW base \in Scratches, NEW off \in [1..N -> Int],
         NEW ev \in [1..N -> Event]
  PROVE  \E f \in [SUBSET (1..N) -> Scratches] : Files(f, N, base, off, ev)
<1> DEFINE F == [x \in Scratches \X (1..N) |-> Write(x[1], off[x[2]], ev[x[2]])]
<1>1. \A x \in Scratches \X (1..N) : Write(x[1], off[x[2]], ev[x[2]]) \in Scratches
  BY WriteTyped
<1>2. F \in [Scratches \X (1..N) -> Scratches] BY <1>1
<1>3. \A s \in Scratches, n \in 1..N : F[<<s, n>>] = Write(s, off[n], ev[n]) OBVIOUS
<1> HIDE DEF F
<1>4. PICK f \in [SUBSET (1..N) -> Scratches] : FoldsUp(f, N, base, F)
  BY <1>2, FoldDefined
<1>5. ASSUME NEW X \in SUBSET (1..N), X # {}
      PROVE  f[X] = Write(f[X \ {Max(X)}], off[Max(X)], ev[Max(X)])
  <2>1. Max(X) \in 1..N BY <1>5, MaxInside
  <2>2. f[X \ {Max(X)}] \in Scratches OBVIOUS
  <2>3. f[X] = F[<<f[X \ {Max(X)}], Max(X)>>] BY <1>4, <1>5 DEF FoldsUp
  <2> QED BY <1>3, <2>1, <2>2, <2>3
<1>6. f[{}] = base
  <2>1. {} \in SUBSET (1..N) OBVIOUS
  <2> QED BY <1>4, <2>1 DEF FoldsUp
<1> QED BY <1>5, <1>6 DEF Files

LEMMA FilesByStep ==
  ASSUME NEW N \in Nat, NEW base \in Scratches, NEW off \in [1..N -> Int],
         NEW ev \in [1..N -> Event], NEW f, Files(f, N, base, off, ev)
  PROVE  /\ Stages(f, N) \in [0..N -> Scratches]
         /\ FilesOneByOne(Stages(f, N), N, base, off, ev)
<1> DEFINE h == Stages(f, N)
<1>0. h = [n \in 0..N |-> f[1..n]] BY DEF Stages
<1> HIDE DEF h
<1>1. h[0] = base
  <2>1. 1..0 = {} /\ {} \in SUBSET (1..N) OBVIOUS
  <2>2. h[0] = f[{}] BY <1>0, <2>1
  <2> QED BY <2>1, <2>2 DEF Files
<1>2. ASSUME NEW n \in 1..N PROVE h[n] = Write(h[n - 1], off[n], ev[n])
  <2>1. n \in Nat /\ n \in 1..n /\ 1..n \in SUBSET (1..N) /\ 1..n \in SUBSET (1..n) OBVIOUS
  <2>2. Max(1..n) = n BY <2>1, MaxIsLast
  <2>3. (1..n) \ {n} = 1..(n - 1) /\ n \in 0..N /\ n - 1 \in 0..N OBVIOUS
  <2>4. f[1..n] = Write(f[(1..n) \ {n}], off[n], ev[n]) BY <2>1, <2>2 DEF Files
  <2> QED BY <1>0, <2>3, <2>4
<1>3. h = [n \in 0..N |-> h[n]] BY <1>0
<1> DEFINE G == {n \in 0..N : h[n] \in Scratches}
<1>4. 0 \in G BY <1>1
<1>5. ASSUME NEW n \in 1..N, n - 1 \in G PROVE n \in G
  <2>1. h[n - 1] \in Scratches /\ off[n] \in Int /\ ev[n] \in Event BY <1>5
  <2>2. h[n] \in Scratches BY <1>2, <2>1, WriteTyped
  <2> QED BY <2>2
<1> HIDE DEF G
<1>6. \A n \in 0..N : n \in G BY <1>4, <1>5, CountUp
<1>7. h \in [0..N -> Scratches] BY <1>3, <1>6 DEF G
<1>8. FilesOneByOne(h, N, base, off, ev) BY <1>1, <1>2 DEF FilesOneByOne
<1> QED BY <1>7, <1>8 DEF h

Cleared == [rows |-> [t \in Row |-> <<>>], pending |-> <<>>, dropped |-> dropped]

\* What was carried over, message by message.
LEMMA PreparedSteps ==
  ASSUME pending \in Seq(Event), dropped \in SUBSET Message
  PROVE  /\ Cleared \in Scratches
         /\ \E h \in [0..Len(pending) -> Scratches] :
              /\ h[0] = Cleared /\ h[Len(pending)] = Prepared
              /\ \A n \in 1..Len(pending) : h[n] = Write(h[n - 1], 0, pending[n])
<1> DEFINE N == Len(pending)
           off == [n \in 1..N |-> 0]
           Fold(f) == f = [X \in SUBSET DOMAIN pending |->
                             IF X = {} THEN Cleared
                             ELSE Write(f[X \ {Max(X)}], 0, pending[Max(X)])]
<1>1. N \in Nat /\ DOMAIN pending = 1..N /\ pending \in [1..N -> Event] BY LenProperties
<1>2. Cleared \in Scratches
  <2>1. RowSize \in Nat /\ CarrySize \in Nat BY MidiAssumption
  <2>2. Len(<<>>) = 0 /\ <<>> \in Seq(Event) OBVIOUS
  <2>3. /\ Cleared \in [rows : [Row -> Seq(Event)], pending : Seq(Event),
                        dropped : SUBSET Message]
        /\ Cleared.pending = <<>> /\ \A t \in Row : Cleared.rows[t] = <<>>
    BY <2>2 DEF Cleared
  <2> HIDE DEF Cleared
  <2> QED BY <2>1, <2>2, <2>3 DEF Scratches
<1>3. Prepared = (CHOOSE f : Fold(f))[DOMAIN pending]
  BY DEF Prepared, FoldLeft, MapThenFoldSet, Cleared
<1> HIDE DEF Cleared, N
<1>4. off \in [1..N -> Int] OBVIOUS
<1>5. \A X \in SUBSET (1..N) : X # {} => Max(X) \in 1..N /\ off[Max(X)] = 0
  BY <1>1, MaxInside
<1> HIDE DEF off
<1>6. PICK f \in [SUBSET (1..N) -> Scratches] : Files(f, N, Cleared, off, pending)
  BY <1>1, <1>2, <1>4, FilesExists
<1>7. Fold(f)
  <2>1. f = [X \in SUBSET DOMAIN pending |-> f[X]] BY <1>1
  <2>2. \A X \in SUBSET DOMAIN pending :
          f[X] = IF X = {} THEN Cleared ELSE Write(f[X \ {Max(X)}], 0, pending[Max(X)])
    BY <1>1, <1>5, <1>6 DEF Files
  <2> QED BY <2>1, <2>2
<1>8. PICK g : g = (CHOOSE y : Fold(y)) /\ Fold(g)
  <2> HIDE DEF Fold
  <2> QED BY <1>7
<1>9. Files(g, N, Cleared, off, pending)
  <2>1. \A X \in SUBSET (1..N) :
          g[X] = IF X = {} THEN Cleared ELSE Write(g[X \ {Max(X)}], 0, pending[Max(X)])
    BY <1>1, <1>8
  <2> QED BY <1>5, <2>1 DEF Files
<1>10. PICK h : h = Stages(g, N) OBVIOUS
<1>13. h \in [0..N -> Scratches] /\ FilesOneByOne(h, N, Cleared, off, pending)
  BY <1>1, <1>2, <1>4, <1>9, <1>10, FilesByStep
<1>11. h[N] = Prepared
  <2>1. h[N] = g[1..N] BY <1>1, <1>10 DEF Stages
  <2> QED BY <1>1, <1>3, <1>8, <2>1
<1>12. \A n \in 1..N : off[n] = 0 BY DEF off
<1> QED BY <1>2, <1>11, <1>12, <1>13 DEF N, FilesOneByOne

LEMMA OffsetFacts ==
  ASSUME NEW e \in Event, sample_counter \in Nat
  PROVE  /\ Offset(e) \in Row /\ Offset(e) \in Int
         /\ e.target < sample_counter + SubBlock => e.target <= sample_counter + Offset(e)
<1>1. SubBlock \in Nat \ {0} /\ e.target \in Nat BY MidiAssumption DEF Event
<1>2. CASE e.target < sample_counter
  <2>1. Offset(e) = 0 BY <1>2 DEF Offset
  <2> QED BY <1>1, <1>2, <2>1 DEF Row
<1>3. CASE ~ (e.target < sample_counter)
  <2>1. PICK a \in Nat, b \in Nat : a = e.target - sample_counter /\ b = SubBlock - 1
    BY <1>1, <1>3
  <2>2. Offset(e) = Min({a, b}) BY <1>3, <2>1 DEF Offset
  <2>3. Min({a, b}) \in {a, b} /\ Min({a, b}) <= a /\ Min({a, b}) <= b BY LesserOf
  <2>4. PICK m : m = Offset(e) OBVIOUS
  <2>5. m \in {a, b} /\ m <= a /\ m <= b BY <2>2, <2>3, <2>4
  <2>6. m \in 0..(SubBlock - 1) /\ m \in Int BY <1>1, <2>1, <2>5
  <2>7. e.target < sample_counter + SubBlock => e.target <= sample_counter + m
    BY <1>1, <2>1, <2>5
  <2> QED BY <2>4, <2>6, <2>7 DEF Row
<1> QED BY <1>2, <1>3

\* What was drained, message by message.
LEMMA DrainedSteps ==
  ASSUME Prepared \in Scratches, sample_counter \in Nat,
         NEW w \in Seq(Queued), w = SubSeq(Waiting, 1, DrainCount)
  PROVE  \E h \in [0..Len(w) -> Scratches] :
           /\ h[0] = Prepared /\ h[Len(w)] = Drained
           /\ \A n \in 1..Len(w) : h[n] = Write(h[n - 1], Offset(w[n].event), w[n].event)
<1> DEFINE N == Len(w)
           off == [n \in 1..N |-> Offset(w[n].event)]
           ev == [n \in 1..N |-> w[n].event]
           Fold(f) == f = [X \in SUBSET DOMAIN w |->
                             IF X = {} THEN Prepared
                             ELSE Write(f[X \ {Max(X)}], Offset(w[Max(X)].event),
                                        w[Max(X)].event)]
<1>1. N \in Nat /\ DOMAIN w = 1..N /\ \A n \in 1..N : w[n] \in Queued
  BY LenProperties, ElementOfSeq
<1>2. Drained = (CHOOSE f : Fold(f))[DOMAIN w] BY DEF Drained, FoldLeft, MapThenFoldSet
<1> HIDE DEF N
<1>3. \A n \in 1..N : w[n].event \in Event /\ Offset(w[n].event) \in Int
  BY <1>1, OffsetFacts DEF Queued
<1>4. off \in [1..N -> Int] /\ ev \in [1..N -> Event] BY <1>3
<1>5. \A X \in SUBSET (1..N) : X # {} =>
        /\ Max(X) \in 1..N
        /\ off[Max(X)] = Offset(w[Max(X)].event) /\ ev[Max(X)] = w[Max(X)].event
  BY <1>1, MaxInside
<1>6. \A n \in 1..N : off[n] = Offset(w[n].event) /\ ev[n] = w[n].event OBVIOUS
<1> HIDE DEF off, ev
<1>7. PICK f \in [SUBSET (1..N) -> Scratches] : Files(f, N, Prepared, off, ev)
  BY <1>1, <1>4, FilesExists
<1>8. Fold(f)
  <2>1. f = [X \in SUBSET DOMAIN w |-> f[X]] BY <1>1
  <2>2. \A X \in SUBSET DOMAIN w :
          f[X] = IF X = {} THEN Prepared
                 ELSE Write(f[X \ {Max(X)}], Offset(w[Max(X)].event), w[Max(X)].event)
    BY <1>1, <1>5, <1>7 DEF Files
  <2> QED BY <2>1, <2>2
<1>9. PICK g : g = (CHOOSE y : Fold(y)) /\ Fold(g)
  <2> HIDE DEF Fold
  <2> QED BY <1>8
<1>10. Files(g, N, Prepared, off, ev)
  <2>1. \A X \in SUBSET (1..N) :
          g[X] = IF X = {} THEN Prepared
                 ELSE Write(g[X \ {Max(X)}], Offset(w[Max(X)].event), w[Max(X)].event)
    BY <1>1, <1>9
  <2> QED BY <1>5, <2>1 DEF Files
<1>14. N \in Nat BY <1>1
<1>11. PICK h : h = Stages(g, N) OBVIOUS
<1>12. h \in [0..N -> Scratches] /\ FilesOneByOne(h, N, Prepared, off, ev)
  BY <1>4, <1>10, <1>11, <1>14, FilesByStep
<1>13. h[N] = Drained
  <2>1. h[N] = g[1..N] BY <1>11, <1>14 DEF Stages
  <2> QED BY <1>1, <1>2, <1>9, <2>1
<1> QED BY <1>6, <1>12, <1>13 DEF N, FilesOneByOne

-----------------------------------------------------------------------------
(* What a write does to the places of the messages.                         *)

LEMMA AppendEntries ==
  ASSUME NEW q \in Seq(Event), NEW e \in Event
  PROVE  /\ Len(q) \in Nat /\ Len(Append(q, e)) = Len(q) + 1
         /\ \A k \in 1..(Len(q) + 1) : Append(q, e)[k] = IF k <= Len(q) THEN q[k] ELSE e
         /\ \A k \in 1..Len(q) : q[k] \in Event
<1>1. Len(q) \in Nat /\ \A k \in 1..Len(q) : q[k] \in Event
  BY LenProperties, ElementOfSeq
<1>2. /\ Len(Append(q, e)) = Len(q) + 1
      /\ \A k \in 1..Len(q) : Append(q, e)[k] = q[k]
      /\ Append(q, e)[Len(q) + 1] = e
  BY AppendProperties
<1>3. ASSUME NEW k \in 1..(Len(q) + 1)
      PROVE  Append(q, e)[k] = IF k <= Len(q) THEN q[k] ELSE e
  <2>1. k <= Len(q) => k \in 1..Len(q) BY <1>1
  <2>2. ~ (k <= Len(q)) => k = Len(q) + 1 BY <1>1
  <2> QED BY <1>2, <2>1, <2>2
<1> QED BY <1>1, <1>2, <1>3

\* What a write makes of s, component by component.
Adds(x, s, offset, e) ==
  \/ \E t \in Row :
       /\ t >= offset /\ Len(s.rows[t]) < RowSize
       /\ \A u \in Row : u >= offset /\ Len(s.rows[u]) < RowSize => t <= u
       /\ x.rows = [s.rows EXCEPT ![t] = Append(@, e)]
       /\ x.pending = s.pending /\ x.dropped = s.dropped
  \/ /\ \A u \in Row : u >= offset => ~ (Len(s.rows[u]) < RowSize)
     /\ x.rows = s.rows
     /\ \/ x.pending = Append(s.pending, e) /\ x.dropped = s.dropped
        \/ x.pending = s.pending /\ x.dropped = s.dropped \cup {e.id}

LEMMA WriteAdds ==
  ASSUME NEW s \in Scratches, NEW offset \in Int, NEW e \in Event
  PROVE  Adds(Write(s, offset, e), s, offset, e)
<1> SUFFICES ASSUME NEW x, x = Write(s, offset, e) PROVE Adds(x, s, offset, e)
  OBVIOUS
<1>1. s \in [rows : [Row -> Seq(Event)], pending : Seq(Event), dropped : SUBSET Message]
  BY DEF Scratches
<1>2. ASSUME NEW t \in Row, x = [s EXCEPT !.rows[t] = Append(@, e)]
      PROVE  /\ x.rows = [s.rows EXCEPT ![t] = Append(@, e)]
             /\ x.pending = s.pending /\ x.dropped = s.dropped
  BY <1>1, <1>2
<1>3. ASSUME x = [s EXCEPT !.pending = Append(@, e)]
      PROVE  x.rows = s.rows /\ x.pending = Append(s.pending, e) /\ x.dropped = s.dropped
  BY <1>1, <1>3
<1>4. ASSUME x = [s EXCEPT !.dropped = @ \cup {e.id}]
      PROVE  x.rows = s.rows /\ x.pending = s.pending /\ x.dropped = s.dropped \cup {e.id}
  BY <1>1, <1>4
<1>5. CASE \E t \in Row :
             /\ t >= offset /\ Len(s.rows[t]) < RowSize
             /\ \A u \in Row : u >= offset /\ Len(s.rows[u]) < RowSize => t <= u
             /\ x = [s EXCEPT !.rows[t] = Append(@, e)]
  BY <1>2, <1>5 DEF Adds
<1>6. CASE /\ \A u \in Row : u >= offset => ~ (Len(s.rows[u]) < RowSize)
           /\ \/ x = [s EXCEPT !.pending = Append(@, e)]
              \/ x = [s EXCEPT !.dropped = @ \cup {e.id}]
  BY <1>3, <1>4, <1>6 DEF Adds
<1> QED BY <1>5, <1>6, WriteFacts, Zenon

InRow(s, m) == \E t \in Row : \E k \in 1..Len(s.rows[t]) : s.rows[t][k].id = m
Carried(s, m) == \E k \in 1..Len(s.pending) : s.pending[k].id = m
Has(s, m) == InRow(s, m) \/ Carried(s, m) \/ m \in s.dropped

\* No message is in two places of the scratch.
Alone(s) ==
  /\ \A t, u \in Row : \A k \in 1..Len(s.rows[t]), l \in 1..Len(s.rows[u]) :
       s.rows[t][k].id = s.rows[u][l].id => t = u /\ k = l
  /\ \A k, l \in 1..Len(s.pending) : s.pending[k].id = s.pending[l].id => k = l
  /\ \A m \in Nat : /\ ~ (InRow(s, m) /\ Carried(s, m))
                    /\ ~ (InRow(s, m) /\ m \in s.dropped)
                    /\ ~ (Carried(s, m) /\ m \in s.dropped)

\* The scratch is no earlier than the stamps.
Punctual(s, limit) ==
  /\ \A t \in Row : \A k \in 1..Len(s.rows[t]) : s.rows[t][k].target <= sample_counter + t
  /\ \A k \in 1..Len(s.pending) : s.pending[k].target < limit

LEMMA WriteFiles ==
  ASSUME NEW s \in Scratches, NEW offset \in Int, NEW e \in Event, Alone(s), ~ Has(s, e.id)
  PROVE  /\ Alone(Write(s, offset, e))
         /\ \A m \in Nat : Has(Write(s, offset, e), m) <=> Has(s, m) \/ m = e.id
<1>1. /\ s \in [rows : [Row -> Seq(Event)], pending : Seq(Event), dropped : SUBSET Message]
      /\ Message \subseteq Nat
  BY DEF Scratches, Message
<1>2. PICK x : x = Write(s, offset, e) OBVIOUS
<1>3. CASE \E t \in Row :
             /\ x.rows = [s.rows EXCEPT ![t] = Append(@, e)]
             /\ x.pending = s.pending /\ x.dropped = s.dropped
  <2>1. PICK t \in Row : /\ x.rows = [s.rows EXCEPT ![t] = Append(@, e)]
                         /\ x.pending = s.pending /\ x.dropped = s.dropped
    BY <1>3
  <2>2. PICK q : q = s.rows[t] OBVIOUS
  <2>3. q \in Seq(Event) BY <1>1, <2>2
  <2>4. /\ Len(q) \in Nat
        /\ \A u \in Row : x.rows[u] = IF u = t THEN Append(q, e) ELSE s.rows[u]
    BY <1>1, <2>1, <2>2, <2>3, LenProperties
  <2>5. \A u \in Row : Len(x.rows[u]) = IF u = t THEN Len(q) + 1 ELSE Len(s.rows[u])
    BY <2>3, <2>4, AppendEntries
  <2>6. ASSUME NEW u \in Row, NEW k \in 1..Len(x.rows[u])
        PROVE  x.rows[u][k] = IF u = t /\ k = Len(q) + 1 THEN e ELSE s.rows[u][k]
    <3>1. CASE u = t
      <4>1. k \in 1..(Len(q) + 1) BY <2>5, <3>1
      <4>2. Append(q, e)[k] = IF k <= Len(q) THEN q[k] ELSE e BY <2>3, <4>1, AppendEntries
      <4>3. k <= Len(q) <=> k # Len(q) + 1 BY <2>4, <4>1
      <4> QED BY <2>2, <2>4, <3>1, <4>2, <4>3
    <3>2. CASE u # t BY <2>4, <3>2
    <3> QED BY <3>1, <3>2
  <2>7. \A u \in Row, k \in Nat :
          /\ k \in 1..Len(x.rows[u]) <=> (k \in 1..Len(s.rows[u]) \/ (u = t /\ k = Len(q) + 1))
          /\ ~ (u = t /\ k = Len(q) + 1 /\ k \in 1..Len(s.rows[u]))
    BY <2>2, <2>4, <2>5
  <2>8. \A m : InRow(x, m) <=> InRow(s, m) \/ m = e.id
    <3>1. ASSUME NEW m, InRow(x, m) PROVE InRow(s, m) \/ m = e.id
      <4>1. PICK u \in Row : \E k \in 1..Len(x.rows[u]) : x.rows[u][k].id = m
        BY <3>1 DEF InRow
      <4>2. PICK k \in 1..Len(x.rows[u]) : x.rows[u][k].id = m BY <4>1
      <4>3. CASE u = t /\ k = Len(q) + 1 BY <2>6, <4>2, <4>3
      <4>4. CASE ~ (u = t /\ k = Len(q) + 1)
        <5>1. x.rows[u][k] = s.rows[u][k] /\ k \in 1..Len(s.rows[u]) BY <2>6, <2>7, <4>4
        <5> QED BY <4>2, <5>1 DEF InRow
      <4> QED BY <4>3, <4>4
    <3>2. ASSUME NEW m, InRow(s, m) PROVE InRow(x, m)
      <4>4. PICK u \in Row : \E k \in 1..Len(s.rows[u]) : s.rows[u][k].id = m
        BY <3>2 DEF InRow
      <4>1. PICK k \in 1..Len(s.rows[u]) : s.rows[u][k].id = m BY <4>4
      <4>2. k \in 1..Len(x.rows[u]) /\ ~ (u = t /\ k = Len(q) + 1) BY <2>7
      <4>3. x.rows[u][k].id = m BY <2>6, <4>1, <4>2
      <4> QED BY <4>2, <4>3 DEF InRow
    <3>3. InRow(x, e.id)
      <4>1. Len(q) + 1 \in 1..Len(x.rows[t]) BY <2>4, <2>7
      <4>2. x.rows[t][Len(q) + 1] = e BY <2>6, <4>1
      <4> QED BY <4>1, <4>2 DEF InRow
    <3> QED BY <3>1, <3>2, <3>3
  <2>9. \A m : (Carried(x, m) <=> Carried(s, m)) /\ (m \in x.dropped <=> m \in s.dropped)
    BY <2>1 DEF Carried
  <2>10. ~ InRow(s, e.id) /\ ~ Carried(s, e.id) /\ e.id \notin s.dropped BY DEF Has
  <2>11. ASSUME NEW u \in Row, NEW v \in Row, NEW k \in 1..Len(x.rows[u]),
                NEW l \in 1..Len(x.rows[v]), x.rows[u][k].id = x.rows[v][l].id
         PROVE  u = v /\ k = l
    <3>1. /\ k \in 1..Len(s.rows[u]) \/ (u = t /\ k = Len(q) + 1)
          /\ l \in 1..Len(s.rows[v]) \/ (v = t /\ l = Len(q) + 1)
      BY <2>7
    <3>2. k \in 1..Len(s.rows[u]) => s.rows[u][k].id # e.id BY <2>10 DEF InRow
    <3>3. l \in 1..Len(s.rows[v]) => s.rows[v][l].id # e.id BY <2>10 DEF InRow
    <3>4. CASE u = t /\ k = Len(q) + 1
      <4>1. x.rows[u][k].id = e.id BY <2>6, <3>4
      <4>2. v = t /\ l = Len(q) + 1 BY <2>6, <2>11, <3>1, <3>3, <4>1
      <4> QED BY <3>4, <4>2
    <3>5. CASE ~ (u = t /\ k = Len(q) + 1)
      <4>1. x.rows[u][k] = s.rows[u][k] /\ k \in 1..Len(s.rows[u]) BY <2>6, <3>1, <3>5
      <4>2. ~ (v = t /\ l = Len(q) + 1) BY <2>6, <2>11, <3>2, <4>1
      <4>3. x.rows[v][l] = s.rows[v][l] /\ l \in 1..Len(s.rows[v]) BY <2>6, <3>1, <4>2
      <4> QED BY <2>11, <4>1, <4>3 DEF Alone
    <3> QED BY <3>4, <3>5
  <2>12. Alone(x)
    <3>1. \A k, l \in 1..Len(x.pending) : x.pending[k].id = x.pending[l].id => k = l
      BY <2>1 DEF Alone
    <3>2. ASSUME NEW m \in Nat
          PROVE  /\ ~ (InRow(x, m) /\ Carried(x, m))
                 /\ ~ (InRow(x, m) /\ m \in x.dropped)
                 /\ ~ (Carried(x, m) /\ m \in x.dropped)
      BY <2>8, <2>9, <2>10, Zenon DEF Alone
    <3> QED BY <2>11, <3>1, <3>2, Zenon DEF Alone
  <2> QED BY <1>2, <2>8, <2>9, <2>12 DEF Has
<1>4. CASE /\ x.rows = s.rows /\ x.pending = Append(s.pending, e) /\ x.dropped = s.dropped
  <2>1. PICK q : q = s.pending OBVIOUS
  <2>2. q \in Seq(Event) /\ x.pending = Append(q, e) BY <1>1, <1>4, <2>1
  <2>3. /\ Len(q) \in Nat /\ Len(x.pending) = Len(q) + 1
        /\ \A k \in 1..(Len(q) + 1) : x.pending[k] = IF k <= Len(q) THEN q[k] ELSE e
    BY <2>2, AppendEntries
  <2>4. \A m : (InRow(x, m) <=> InRow(s, m)) /\ (m \in x.dropped <=> m \in s.dropped)
    BY <1>4 DEF InRow
  <2>5. \A m : Carried(x, m) <=> Carried(s, m) \/ m = e.id
    <3>1. ASSUME NEW m, Carried(x, m) PROVE Carried(s, m) \/ m = e.id
      BY <2>1, <2>3, <3>1 DEF Carried
    <3>2. ASSUME NEW m, Carried(s, m) PROVE Carried(x, m)
      <4>1. PICK k \in 1..Len(q) : q[k].id = m BY <2>1, <3>2 DEF Carried
      <4>2. k \in 1..(Len(q) + 1) /\ k <= Len(q) BY <2>3
      <4> QED BY <2>3, <4>1, <4>2 DEF Carried
    <3>3. Carried(x, e.id)
      <4>1. Len(q) + 1 \in 1..(Len(q) + 1) /\ ~ (Len(q) + 1 <= Len(q)) BY <2>3
      <4> QED BY <2>3, <4>1 DEF Carried
    <3> QED BY <3>1, <3>2, <3>3
  <2>6. ~ InRow(s, e.id) /\ ~ Carried(s, e.id) /\ e.id \notin s.dropped BY DEF Has
  <2>7. ASSUME NEW k \in 1..Len(x.pending), NEW l \in 1..Len(x.pending),
               x.pending[k].id = x.pending[l].id
        PROVE  k = l
    <3>1. \A i \in 1..Len(q) : q[i].id # e.id BY <2>1, <2>6 DEF Carried
    <3>2. k \in 1..(Len(q) + 1) /\ l \in 1..(Len(q) + 1) BY <2>3
    <3>3. (k \in 1..Len(q) \/ k = Len(q) + 1) /\ (l \in 1..Len(q) \/ l = Len(q) + 1)
      BY <2>3, <3>2
    <3>4. \A i \in 1..Len(q) : i <= Len(q) /\ i \in 1..(Len(q) + 1) /\ x.pending[i] = q[i]
      BY <2>3
    <3>5. x.pending[Len(q) + 1] = e
      <4>1. Len(q) + 1 \in 1..(Len(q) + 1) /\ ~ (Len(q) + 1 <= Len(q)) BY <2>3
      <4> QED BY <2>3, <4>1
    <3> QED BY <2>1, <2>7, <3>1, <3>3, <3>4, <3>5 DEF Alone
  <2>8. Alone(x)
    <3>1. \A t, u \in Row : \A k \in 1..Len(x.rows[t]), l \in 1..Len(x.rows[u]) :
            x.rows[t][k].id = x.rows[u][l].id => t = u /\ k = l
      BY <1>4 DEF Alone
    <3>2. ASSUME NEW m \in Nat
          PROVE  /\ ~ (InRow(x, m) /\ Carried(x, m))
                 /\ ~ (InRow(x, m) /\ m \in x.dropped)
                 /\ ~ (Carried(x, m) /\ m \in x.dropped)
      BY <2>4, <2>5, <2>6, Zenon DEF Alone
    <3> QED BY <2>7, <3>1, <3>2, Zenon DEF Alone
  <2> QED BY <1>2, <2>4, <2>5, <2>8 DEF Has
<1>5. CASE x.rows = s.rows /\ x.pending = s.pending /\ x.dropped = s.dropped \cup {e.id}
  <2>1. \A m : /\ InRow(x, m) <=> InRow(s, m)
               /\ Carried(x, m) <=> Carried(s, m)
               /\ m \in x.dropped <=> m \in s.dropped \/ m = e.id
    BY <1>5 DEF InRow, Carried
  <2>2. ~ InRow(s, e.id) /\ ~ Carried(s, e.id) BY DEF Has
  <2>3. Alone(x)
    <3>1. /\ \A t, u \in Row : \A k \in 1..Len(x.rows[t]), l \in 1..Len(x.rows[u]) :
               x.rows[t][k].id = x.rows[u][l].id => t = u /\ k = l
          /\ \A k, l \in 1..Len(x.pending) : x.pending[k].id = x.pending[l].id => k = l
      BY <1>5 DEF Alone
    <3>2. ASSUME NEW m \in Nat
          PROVE  /\ ~ (InRow(x, m) /\ Carried(x, m))
                 /\ ~ (InRow(x, m) /\ m \in x.dropped)
                 /\ ~ (Carried(x, m) /\ m \in x.dropped)
      BY <2>1, <2>2, Zenon DEF Alone
    <3> QED BY <3>1, <3>2, Zenon DEF Alone
  <2> QED BY <1>2, <2>1, <2>3 DEF Has
<1>6. \/ \E t \in Row : /\ x.rows = [s.rows EXCEPT ![t] = Append(@, e)]
                         /\ x.pending = s.pending /\ x.dropped = s.dropped
      \/ x.rows = s.rows /\ x.pending = Append(s.pending, e) /\ x.dropped = s.dropped
      \/ x.rows = s.rows /\ x.pending = s.pending /\ x.dropped = s.dropped \cup {e.id}
  <2>1. Adds(x, s, offset, e) BY <1>2, WriteAdds
  <2> QED BY <2>1 DEF Adds
<1> QED BY <1>3, <1>4, <1>5, <1>6

LEMMA WritePunctual ==
  ASSUME NEW s \in Scratches, NEW offset \in Int, NEW e \in Event, NEW limit \in Nat,
         sample_counter \in Nat, Punctual(s, limit),
         e.target <= sample_counter + offset, e.target < limit
  PROVE  Punctual(Write(s, offset, e), limit)
<1>1. s \in [rows : [Row -> Seq(Event)], pending : Seq(Event), dropped : SUBSET Message]
  BY DEF Scratches
<1>2. PICK x : x = Write(s, offset, e) OBVIOUS
<1>3. CASE \E t \in Row : /\ t >= offset
                          /\ x.rows = [s.rows EXCEPT ![t] = Append(@, e)]
                          /\ x.pending = s.pending
  <2>1. PICK t \in Row : /\ t >= offset
                         /\ x.rows = [s.rows EXCEPT ![t] = Append(@, e)]
                         /\ x.pending = s.pending
    BY <1>3
  <2>2. t \in Nat /\ e.target \in Nat BY MidiAssumption DEF Row, Event
  <2>3. e.target <= sample_counter + t BY <2>1, <2>2
  <2>4. ASSUME NEW u \in Row, NEW k \in 1..Len(x.rows[u])
        PROVE  x.rows[u][k].target <= sample_counter + u
    <3>1. CASE u = t
      <4>1. PICK q : q = s.rows[t] OBVIOUS
      <4>2. q \in Seq(Event) /\ x.rows[u] = Append(q, e) BY <1>1, <2>1, <3>1, <4>1
      <4>3. k \in 1..(Len(q) + 1) /\ Len(q) \in Nat BY <4>2, AppendEntries
      <4>4. Append(q, e)[k] = IF k <= Len(q) THEN q[k] ELSE e BY <4>2, <4>3, AppendEntries
      <4>5. k <= Len(q) => k \in 1..Len(q) BY <4>3
      <4>6. \A i \in 1..Len(q) : q[i].target <= sample_counter + t BY <4>1 DEF Punctual
      <4> QED BY <2>3, <3>1, <4>2, <4>4, <4>5, <4>6
    <3>2. CASE u # t
      <4>1. x.rows[u] = s.rows[u] BY <1>1, <2>1, <3>2
      <4> QED BY <4>1 DEF Punctual
    <3> QED BY <3>1, <3>2
  <2> QED BY <1>2, <2>1, <2>4 DEF Punctual
<1>4. CASE x.rows = s.rows /\ x.pending = Append(s.pending, e)
  <2>1. PICK q : q = s.pending OBVIOUS
  <2>2. q \in Seq(Event) /\ x.pending = Append(q, e) BY <1>1, <1>4, <2>1
  <2>3. ASSUME NEW k \in 1..Len(x.pending) PROVE x.pending[k].target < limit
    <3>1. k \in 1..(Len(q) + 1) /\ Len(q) \in Nat BY <2>2, AppendEntries
    <3>2. Append(q, e)[k] = IF k <= Len(q) THEN q[k] ELSE e BY <2>2, <3>1, AppendEntries
    <3>3. k <= Len(q) => k \in 1..Len(q) BY <3>1
    <3>4. \A i \in 1..Len(q) : q[i].target < limit BY <2>1 DEF Punctual
    <3> QED BY <2>2, <3>2, <3>3, <3>4
  <2> QED BY <1>2, <1>4, <2>3 DEF Punctual
<1>5. CASE x.rows = s.rows /\ x.pending = s.pending
  BY <1>2, <1>5 DEF Punctual
<1>6. \/ \E t \in Row : /\ t >= offset
                          /\ x.rows = [s.rows EXCEPT ![t] = Append(@, e)]
                          /\ x.pending = s.pending
      \/ x.rows = s.rows /\ x.pending = Append(s.pending, e)
      \/ x.rows = s.rows /\ x.pending = s.pending
  <2>1. Adds(x, s, offset, e) BY <1>2, WriteAdds
  <2> QED BY <2>1 DEF Adds
<1> QED BY <1>3, <1>4, <1>5, <1>6

-----------------------------------------------------------------------------
(* What a drain makes of the scratch.                                       *)

Scr == [rows |-> rows, pending |-> pending, dropped |-> dropped]

LEMMA PreparedFacts ==
  ASSUME pending \in Seq(Event), dropped \in SUBSET Message, Alone(Scr)
  PROVE  /\ Prepared \in Scratches /\ Alone(Prepared)
         /\ \A m \in Nat : Has(Prepared, m) <=> Carried(Scr, m) \/ m \in dropped
<1> DEFINE N == Len(pending)
<1>1. PICK h \in [0..N -> Scratches] :
        /\ h[0] = Cleared /\ h[N] = Prepared
        /\ \A n \in 1..N : h[n] = Write(h[n - 1], 0, pending[n])
  BY PreparedSteps
<1>2. N \in Nat /\ \A n \in 1..N : pending[n] \in Event /\ pending[n].id \in Nat
  <2>1. N \in Nat /\ \A n \in 1..N : pending[n] \in Event BY LenProperties, ElementOfSeq
  <2>2. \A e \in Event : e.id \in Nat BY DEF Event, Message
  <2> QED BY <2>1, <2>2
<1>3. /\ \A k, l \in 1..N : pending[k].id = pending[l].id => k = l
      /\ \A k \in 1..N : pending[k].id \notin dropped
  <2>1. Scr.pending = pending /\ Scr.dropped = dropped BY DEF Scr
  <2>2. \A k \in 1..N : Carried(Scr, pending[k].id) BY <2>1 DEF Carried
  <2> HIDE DEF Scr
  <2>3. \A m \in Nat : ~ (Carried(Scr, m) /\ m \in Scr.dropped) BY DEF Alone
  <2> QED BY <1>2, <2>1, <2>2, <2>3 DEF Alone
<1> DEFINE First(n, m) == \E k \in 1..n : pending[k].id = m
           Good(n) == Alone(h[n]) /\ \A m \in Nat : Has(h[n], m) <=> m \in dropped \/ First(n, m)
           G == {n \in 0..N : Good(n)}
<1>4. 0 \in G
  <2>1. /\ Cleared.rows = [t \in Row |-> <<>>] /\ Cleared.pending = <<>>
        /\ Cleared.dropped = dropped
    BY DEF Cleared
  <2> HIDE DEF Cleared
  <2>2. \A t \in Row : Cleared.rows[t] = <<>> /\ Len(Cleared.rows[t]) = 0 BY <2>1
  <2>3. \A k \in 1..0 : FALSE OBVIOUS
  <2>4. Len(Cleared.pending) = 0 BY <2>1
  <2>5. \A m : ~ InRow(Cleared, m) /\ ~ Carried(Cleared, m)
    BY <2>2, <2>3, <2>4 DEF InRow, Carried
  <2>6. Alone(Cleared)
    <3>1. \A t \in Row : \A k \in 1..Len(Cleared.rows[t]) : FALSE BY <2>2, <2>3
    <3>2. \A k \in 1..Len(Cleared.pending) : FALSE BY <2>3, <2>4
    <3> QED BY <2>5, <3>1, <3>2 DEF Alone
  <2>7. \A m \in Nat : Has(Cleared, m) <=> m \in dropped BY <2>1, <2>5 DEF Has
  <2>8. \A m : ~ First(0, m) BY <2>3
  <2>9. Good(0) BY <1>1, <2>6, <2>7, <2>8
  <2> HIDE DEF Good
  <2> QED BY <1>2, <2>9
<1>5. ASSUME NEW n \in 1..N, n - 1 \in G PROVE n \in G
  <2>1. Good(n - 1) BY <1>5
  <2>2. PICK e : e = pending[n] OBVIOUS
  <2>3. PICK i \in 0..N : i = n - 1 BY <1>2
  <2>4. ~ First(i, e.id)
    <3>1. \A k \in 1..i : k \in 1..N /\ k # n BY <1>2, <2>3
    <3> QED BY <1>3, <2>2, <3>1
  <2>5. \A m : First(n, m) <=> First(i, m) \/ m = e.id
    <3>1. \A k : k \in 1..n <=> k \in 1..i \/ k = n BY <1>2, <2>3
    <3> QED BY <2>2, <3>1
  <2> HIDE DEF First
  <2>6. e \in Event /\ e.id \in Nat /\ e.id \notin dropped BY <1>2, <1>3, <2>2
  <2>7. h[i] \in Scratches /\ h[n] = Write(h[i], 0, e) BY <1>1, <2>2, <2>3
  <2>8. Alone(h[i]) /\ \A m \in Nat : Has(h[i], m) <=> m \in dropped \/ First(i, m)
    BY <2>1, <2>3
  <2>9. ~ Has(h[i], e.id) BY <2>4, <2>6, <2>8
  <2>10. Alone(h[n]) /\ \A m \in Nat : Has(h[n], m) <=> Has(h[i], m) \/ m = e.id
    <3>1. 0 \in Int OBVIOUS
    <3> QED BY <2>6, <2>7, <2>8, <2>9, <3>1, WriteFiles
  <2>11. \A m \in Nat : Has(h[n], m) <=> m \in dropped \/ First(n, m)
    BY <2>5, <2>8, <2>10, Zenon
  <2>12. Good(n) BY <2>10, <2>11
  <2> HIDE DEF Good
  <2> QED BY <1>2, <2>12
<1>6. Good(N)
  <2> HIDE DEF Good
  <2>1. \A n \in 1..N : n - 1 \in G => n \in G BY <1>5
  <2>2. 0 \in G BY <1>4
  <2> HIDE DEF G, N
  <2>3. \A n \in 0..N : n \in G BY <1>2, <2>1, <2>2, CountUp
  <2>4. N \in G BY <1>2, <2>3
  <2> QED BY <2>4 DEF G
<1>7. \A m \in Nat : First(N, m) <=> Carried(Scr, m)
  <2>1. Scr.pending = pending BY DEF Scr
  <2> QED BY <2>1 DEF Carried
<1>8. Prepared \in Scratches BY <1>1, <1>2
<1> HIDE DEF First, N
<1> QED BY <1>1, <1>6, <1>7, <1>8

LEMMA PreparedPunctual ==
  ASSUME pending \in Seq(Event), dropped \in SUBSET Message, sample_counter \in Nat,
         \A k \in 1..Len(pending) : pending[k].target < sample_counter
  PROVE  Punctual(Prepared, sample_counter + SubBlock)
<1> DEFINE N == Len(pending)
           limit == sample_counter + SubBlock
<1>1. PICK h \in [0..N -> Scratches] :
        /\ h[0] = Cleared /\ h[N] = Prepared
        /\ \A n \in 1..N : h[n] = Write(h[n - 1], 0, pending[n])
  BY PreparedSteps
<1>2. N \in Nat /\ \A n \in 1..N : pending[n] \in Event
  BY LenProperties, ElementOfSeq
<1>3. limit \in Nat /\ SubBlock \in Nat \ {0} BY MidiAssumption
<1>4. \A n \in 1..N : pending[n].target < limit /\ pending[n].target <= sample_counter + 0
  BY <1>2, <1>3 DEF Event
<1> HIDE DEF limit, N
<1> DEFINE G == {n \in 0..N : Punctual(h[n], limit)}
<1>5. 0 \in G
  <2>1. Cleared.rows = [t \in Row |-> <<>>] /\ Cleared.pending = <<>> BY DEF Cleared
  <2> HIDE DEF Cleared
  <2>2. \A t \in Row : Cleared.rows[t] = <<>> /\ Len(Cleared.rows[t]) = 0 BY <2>1
  <2>3. \A k \in 1..0 : FALSE OBVIOUS
  <2>4. Len(Cleared.pending) = 0 BY <2>1
  <2>5. Punctual(Cleared, limit) BY <2>2, <2>3, <2>4 DEF Punctual
  <2> QED BY <1>1, <1>2, <2>5
<1>6. ASSUME NEW n \in 1..N, n - 1 \in G PROVE n \in G
  <2>1. PICK i \in 0..N : i = n - 1 BY <1>2
  <2>2. Punctual(h[i], limit) /\ h[i] \in Scratches BY <1>6, <2>1
  <2>3. h[n] = Write(h[i], 0, pending[n]) BY <1>1, <2>1
  <2>4. Punctual(h[n], limit)
    <3>1. 0 \in Int OBVIOUS
    <3> QED BY <1>2, <1>3, <1>4, <2>2, <2>3, <3>1, WritePunctual
  <2> QED BY <2>4
<1> HIDE DEF G
<1>7. \A n \in 0..N : n \in G BY <1>2, <1>5, <1>6, CountUp
<1>8. N \in G BY <1>2, <1>7
<1> QED BY <1>1, <1>8 DEF G, limit

LEMMA DrainedFacts ==
  ASSUME Prepared \in Scratches, Alone(Prepared), sample_counter \in Nat,
         NEW w \in Seq(Queued), w = SubSeq(Waiting, 1, DrainCount),
         \A k, l \in 1..Len(w) : w[k].event.id = w[l].event.id => k = l,
         \A k \in 1..Len(w) : ~ Has(Prepared, w[k].event.id)
  PROVE  /\ Drained \in Scratches /\ Alone(Drained)
         /\ \A m \in Nat : Has(Drained, m) <=>
              Has(Prepared, m) \/ \E k \in 1..Len(w) : w[k].event.id = m
<1> DEFINE N == Len(w)
<1>1. PICK h \in [0..N -> Scratches] :
        /\ h[0] = Prepared /\ h[N] = Drained
        /\ \A n \in 1..N : h[n] = Write(h[n - 1], Offset(w[n].event), w[n].event)
  BY DrainedSteps
<1>2. N \in Nat /\ \A n \in 1..N : w[n].event \in Event /\ w[n].event.id \in Nat
  <2>1. N \in Nat /\ \A n \in 1..N : w[n] \in Queued BY LenProperties, ElementOfSeq
  <2>2. \A e \in Event : e.id \in Nat BY DEF Event, Message
  <2>3. \A n \in 1..N : w[n].event \in Event BY <2>1 DEF Queued
  <2> QED BY <2>1, <2>2, <2>3
<1> DEFINE First(n, m) == \E k \in 1..n : w[k].event.id = m
           Good(n) == /\ Alone(h[n])
                      /\ \A m \in Nat : Has(h[n], m) <=> Has(Prepared, m) \/ First(n, m)
           G == {n \in 0..N : Good(n)}
<1>3. \A k, l \in 1..N : w[k].event.id = w[l].event.id => k = l OBVIOUS
<1>9. \A k \in 1..N : ~ Has(Prepared, w[k].event.id) OBVIOUS
<1>4. 0 \in G
  <2>1. \A k \in 1..0 : FALSE OBVIOUS
  <2>2. \A m : ~ First(0, m) BY <2>1
  <2>3. Good(0) BY <1>1, <2>2
  <2> HIDE DEF Good
  <2> QED BY <1>2, <2>3
<1>5. ASSUME NEW n \in 1..N, n - 1 \in G PROVE n \in G
  <2>1. Good(n - 1) BY <1>5
  <2>2. PICK e : e = w[n].event OBVIOUS
  <2>3. PICK i \in 0..N : i = n - 1 BY <1>2
  <2>4. ~ First(i, e.id)
    <3>1. \A k \in 1..i : k \in 1..N /\ k # n BY <1>2, <2>3
    <3> QED BY <1>3, <2>2, <3>1
  <2>5. \A m : First(n, m) <=> First(i, m) \/ m = e.id
    <3>1. \A k : k \in 1..n <=> k \in 1..i \/ k = n BY <1>2, <2>3
    <3> QED BY <2>2, <3>1
  <2> HIDE DEF First
  <2>6. e \in Event /\ e.id \in Nat /\ ~ Has(Prepared, e.id) BY <1>2, <1>9, <2>2
  <2>7. h[i] \in Scratches /\ h[n] = Write(h[i], Offset(e), e) BY <1>1, <2>2, <2>3
  <2>8. Alone(h[i]) /\ \A m \in Nat : Has(h[i], m) <=> Has(Prepared, m) \/ First(i, m)
    BY <2>1, <2>3
  <2>9. ~ Has(h[i], e.id) BY <2>4, <2>6, <2>8
  <2>10. Alone(h[n]) /\ \A m \in Nat : Has(h[n], m) <=> Has(h[i], m) \/ m = e.id
    <3>1. Offset(e) \in Int BY <2>6, OffsetFacts
    <3> QED BY <2>6, <2>7, <2>8, <2>9, <3>1, WriteFiles
  <2>11. \A m \in Nat : Has(h[n], m) <=> Has(Prepared, m) \/ First(n, m)
    BY <2>5, <2>8, <2>10, Zenon
  <2>12. Good(n) BY <2>10, <2>11
  <2> HIDE DEF Good
  <2> QED BY <1>2, <2>12
<1>6. Good(N)
  <2> HIDE DEF Good
  <2>1. \A n \in 1..N : n - 1 \in G => n \in G BY <1>5
  <2>2. 0 \in G BY <1>4
  <2> HIDE DEF G, N
  <2>3. \A n \in 0..N : n \in G BY <1>2, <2>1, <2>2, CountUp
  <2>4. N \in G BY <1>2, <2>3
  <2> QED BY <2>4 DEF G
<1>8. Drained \in Scratches BY <1>1, <1>2
<1> QED BY <1>1, <1>6, <1>8

LEMMA DrainedPunctual ==
  ASSUME Prepared \in Scratches, sample_counter \in Nat,
         Punctual(Prepared, sample_counter + SubBlock),
         NEW w \in Seq(Queued), w = SubSeq(Waiting, 1, DrainCount),
         \A k \in 1..Len(w) : w[k].event.target < sample_counter + SubBlock
  PROVE  Punctual(Drained, sample_counter + SubBlock)
<1> DEFINE N == Len(w)
           limit == sample_counter + SubBlock
<1>1. PICK h \in [0..N -> Scratches] :
        /\ h[0] = Prepared /\ h[N] = Drained
        /\ \A n \in 1..N : h[n] = Write(h[n - 1], Offset(w[n].event), w[n].event)
  BY DrainedSteps
<1>2. N \in Nat /\ \A n \in 1..N : w[n].event \in Event
  <2>1. N \in Nat /\ \A n \in 1..N : w[n] \in Queued BY LenProperties, ElementOfSeq
  <2> QED BY <2>1 DEF Queued
<1>3. limit \in Nat BY MidiAssumption
<1>4. ASSUME NEW n \in 1..N
      PROVE  /\ w[n].event.target < limit /\ Offset(w[n].event) \in Int
             /\ w[n].event.target <= sample_counter + Offset(w[n].event)
  BY <1>2, OffsetFacts
<1>9. Punctual(Prepared, limit) OBVIOUS
<1> HIDE DEF limit, N
<1> DEFINE G == {n \in 0..N : Punctual(h[n], limit)}
<1>5. 0 \in G BY <1>1, <1>2, <1>9
<1>6. ASSUME NEW n \in 1..N, n - 1 \in G PROVE n \in G
  <2>1. PICK i \in 0..N : i = n - 1 BY <1>2
  <2>2. Punctual(h[i], limit) /\ h[i] \in Scratches BY <1>6, <2>1
  <2>3. PICK e : e = w[n].event OBVIOUS
  <2>5. h[n] = Write(h[i], Offset(e), e) BY <1>1, <2>1, <2>3
  <2>6. e \in Event /\ e.target < limit /\ Offset(e) \in Int /\ e.target <= sample_counter + Offset(e)
    BY <1>2, <1>4, <2>3
  <2>4. Punctual(h[n], limit)
    BY <1>3, <2>2, <2>5, <2>6, WritePunctual
  <2> QED BY <2>4
<1> HIDE DEF G
<1>7. \A n \in 0..N : n \in G BY <1>2, <1>5, <1>6, CountUp
<1>8. N \in G BY <1>2, <1>7
<1> QED BY <1>1, <1>8 DEF G, limit

-----------------------------------------------------------------------------
(* What the ticks take.                                                     *)

\* The entries of c are those of a and of b.
Merges(c, a, b) ==
  /\ \A i \in 1..Len(c) : \/ \E j \in 1..Len(a) : c[i] = a[j]
                          \/ \E j \in 1..Len(b) : c[i] = b[j]
  /\ \A j \in 1..Len(a) : \E i \in 1..Len(c) : c[i] = a[j]
  /\ \A j \in 1..Len(b) : \E i \in 1..Len(c) : c[i] = b[j]

LEMMA ConcatEntries ==
  ASSUME NEW E, NEW a \in Seq(E), NEW b \in Seq(E)
  PROVE  Merges(a \o b, a, b)
<1>0. PICK c : c = a \o b OBVIOUS
<1>1. /\ c \in Seq(E) /\ Len(c) = Len(a) + Len(b) /\ Len(a) \in Nat /\ Len(b) \in Nat
      /\ \A i \in 1..(Len(a) + Len(b)) : c[i] = IF i <= Len(a) THEN a[i] ELSE b[i - Len(a)]
  BY <1>0, ConcatProperties, LenProperties
<1>2. ASSUME NEW i \in 1..Len(c)
      PROVE  \/ \E j \in 1..Len(a) : c[i] = a[j]
             \/ \E j \in 1..Len(b) : c[i] = b[j]
  <2>1. i <= Len(a) => i \in 1..Len(a) BY <1>1
  <2>2. ~ (i <= Len(a)) => i - Len(a) \in 1..Len(b) BY <1>1
  <2>3. c[i] = IF i <= Len(a) THEN a[i] ELSE b[i - Len(a)] BY <1>1
  <2> QED BY <2>1, <2>2, <2>3
<1>3. ASSUME NEW j \in 1..Len(a) PROVE \E i \in 1..Len(c) : c[i] = a[j]
  <2>1. j \in 1..(Len(a) + Len(b)) /\ j \in 1..Len(c) /\ j <= Len(a) BY <1>1
  <2> QED BY <1>1, <2>1
<1>4. ASSUME NEW j \in 1..Len(b) PROVE \E i \in 1..Len(c) : c[i] = b[j]
  <2>1. PICK i : i = Len(a) + j OBVIOUS
  <2>2. /\ i \in 1..(Len(a) + Len(b)) /\ i \in 1..Len(c) /\ ~ (i <= Len(a))
        /\ i - Len(a) = j
    BY <1>1, <2>1
  <2>3. c[i] = b[j] BY <1>1, <2>2
  <2> QED BY <2>2, <2>3
<1> QED BY <1>0, <1>2, <1>3, <1>4 DEF Merges

LEMMA TwoParts ==
  ASSUME NEW E, NEW a \in Seq(E), NEW b \in Seq(E), NEW c, c = a \o b
  PROVE  /\ Len(c) = Len(a) + Len(b) /\ Len(a) \in Nat /\ Len(b) \in Nat
         /\ \A k \in 1..Len(a) : k \in 1..Len(c) /\ c[k] = a[k]
         /\ \A k \in 1..Len(b) : c[Len(a) + k] = b[k]
<1>1. /\ Len(c) = Len(a) + Len(b) /\ Len(a) \in Nat /\ Len(b) \in Nat
      /\ \A i \in 1..(Len(a) + Len(b)) : c[i] = IF i <= Len(a) THEN a[i] ELSE b[i - Len(a)]
  BY ConcatProperties, LenProperties
<1> QED BY <1>1

\* Flattening keeps the entries and their order, and adds none.
Sooner(v, l, u, j) == v < u \/ (v = u /\ l < j)
InTurn(f, i, ss, u, j) ==
  f[i] = ss[u][j] /\ \A v \in 1..u : \A l \in 1..Len(ss[v]) :
                       Sooner(v, l, u, j) => \E k \in 1..i : f[k] = ss[v][l]
SameEntries(f, ss, n) ==
  /\ \A i \in 1..Len(f) : \E u \in 1..n : \E j \in 1..Len(ss[u]) : InTurn(f, i, ss, u, j)
  /\ \A u \in 1..n : \A j \in 1..Len(ss[u]) : \E i \in 1..Len(f) : f[i] = ss[u][j]

LEMMA FlattenEntries ==
  ASSUME NEW E, NEW N \in Nat \ {0}, NEW ss \in [1..N -> Seq(E)]
  PROVE  FlattenSeq(ss) \in Seq(E) /\ SameEntries(FlattenSeq(ss), ss, N)
<1>0. PICK f : f = FlattenSeq(ss) OBVIOUS
<1>9. PICK h \in [1..N -> Seq(E)] : Flattens(h, ss, N) BY FlattenSteps
<1>1. /\ h[1] = ss[1] /\ h[N] = f
      /\ \A n \in 2..N : h[n] = h[n - 1] \o ss[n]
  BY <1>0, <1>9 DEF Flattens
<1> DEFINE From(n) ==
      \A i \in 1..Len(h[n]) : \E u \in 1..n : \E j \in 1..Len(ss[u]) :
        InTurn(h[n], i, ss, u, j)
           Into(n) ==
      \A u \in 1..n : \A j \in 1..Len(ss[u]) : \E i \in 1..Len(h[n]) : h[n][i] = ss[u][j]
           G == {n \in 0..N : n = 0 \/ (From(n) /\ Into(n))}
<1>2. 0 \in G OBVIOUS
<1>3. ASSUME NEW n \in 1..N, n - 1 \in G PROVE n \in G
  <2>1. CASE n = 1
    <3>1. \A u : u \in 1..1 <=> u = 1 OBVIOUS
    <3>3. 1 \in 1..1 /\ h[1] = ss[1] BY <1>1
    <3>4. PICK a \in Seq(E) : a = ss[1] OBVIOUS
    <3>5. Len(a) \in Nat BY LenProperties
    <3>6. ASSUME NEW i \in 1..Len(a) PROVE InTurn(a, i, ss, 1, i)
      <4>1. ASSUME NEW v \in 1..1, NEW l \in 1..Len(ss[v]), Sooner(v, l, 1, i)
            PROVE  \E k \in 1..i : a[k] = ss[v][l]
        <5>1. v = 1 /\ l < i /\ l \in 1..Len(a) BY <3>4, <4>1 DEF Sooner
        <5>2. l \in 1..i BY <3>5, <5>1
        <5> QED BY <3>4, <5>1, <5>2
      <4> QED BY <3>4, <4>1 DEF InTurn
    <3>2. From(1) /\ Into(1) BY <3>1, <3>3, <3>4, <3>6
    <3> HIDE DEF From, Into
    <3> QED BY <2>1, <3>2
  <2>2. CASE n # 1
    <3>1. n \in 2..N /\ n - 1 \in 1..N /\ n - 1 # 0 BY <2>2
    <3>2. From(n - 1) /\ Into(n - 1) BY <1>3, <3>1
    <3>3. PICK a \in Seq(E), b \in Seq(E), c \in Seq(E) : a = h[n - 1] /\ b = ss[n] /\ c = h[n]
      BY <1>1, <3>1
    <3>4. c = a \o b BY <1>1, <3>1, <3>3
    <3>5. /\ \A i \in 1..Len(c) : \/ \E j \in 1..Len(a) : c[i] = a[j]
                                  \/ \E j \in 1..Len(b) : c[i] = b[j]
          /\ \A j \in 1..Len(a) : \E i \in 1..Len(c) : c[i] = a[j]
          /\ \A j \in 1..Len(b) : \E i \in 1..Len(c) : c[i] = b[j]
      <4>1. Merges(a \o b, a, b) BY ConcatEntries
      <4>2. Merges(c, a, b) BY <3>4, <4>1
      <4> QED BY <4>2 DEF Merges
    <3>6. \A u : u \in 1..n <=> u \in 1..(n - 1) \/ u = n OBVIOUS
    <3>7. From(n)
      <4> SUFFICES ASSUME NEW i \in 1..Len(c)
                   PROVE  \E u \in 1..n : \E j \in 1..Len(ss[u]) : InTurn(c, i, ss, u, j)
        BY <3>3
      <4>1. /\ Len(c) = Len(a) + Len(b) /\ Len(a) \in Nat /\ Len(b) \in Nat
            /\ \A k \in 1..Len(a) : k \in 1..Len(c) /\ c[k] = a[k]
            /\ \A k \in 1..Len(b) : c[Len(a) + k] = b[k]
        BY <3>4, TwoParts
      <4>2. CASE i <= Len(a)
        <5>1. i \in 1..Len(a) /\ 1..i \subseteq 1..Len(a) BY <4>1, <4>2
        <5>2. PICK u \in 1..(n - 1) : \E j \in 1..Len(ss[u]) : InTurn(a, i, ss, u, j)
          BY <3>2, <3>3, <5>1
        <5>3. PICK j \in 1..Len(ss[u]) : InTurn(a, i, ss, u, j) BY <5>2
        <5>4. InTurn(c, i, ss, u, j) BY <4>1, <5>1, <5>3 DEF InTurn
        <5> QED BY <3>6, <5>4
      <4>3. CASE ~ (i <= Len(a))
        <5>1. PICK j \in 1..Len(b) : i = Len(a) + j
          <6>1. i - Len(a) \in 1..Len(b) /\ i = Len(a) + (i - Len(a)) BY <4>1, <4>3
          <6> QED BY <6>1
        <5>2. ASSUME NEW v \in 1..n, NEW l \in 1..Len(ss[v]), Sooner(v, l, n, j)
              PROVE  \E k \in 1..i : c[k] = ss[v][l]
          <6>1. CASE v = n
            <7>1. l < j /\ l \in 1..Len(b) BY <3>3, <5>2, <6>1 DEF Sooner
            <7>2. Len(a) + l \in 1..i BY <4>1, <5>1, <7>1
            <7> QED BY <3>3, <4>1, <6>1, <7>1, <7>2
          <6>2. CASE v # n
            <7>1. v \in 1..(n - 1) BY <6>2
            <7>2. PICK k \in 1..Len(a) : a[k] = ss[v][l] BY <3>2, <3>3, <7>1
            <7>3. k \in 1..i /\ c[k] = a[k] BY <4>1, <5>1, <7>2
            <7> QED BY <7>2, <7>3
          <6> QED BY <6>1, <6>2
        <5>3. c[i] = ss[n][j] /\ j \in 1..Len(ss[n]) BY <3>3, <4>1, <5>1
        <5>4. InTurn(c, i, ss, n, j) BY <5>2, <5>3 DEF InTurn
        <5> QED BY <5>3, <5>4
      <4> QED BY <4>2, <4>3
    <3>8. Into(n)
      <4> SUFFICES ASSUME NEW u \in 1..n, NEW j \in 1..Len(ss[u])
                   PROVE  \E i \in 1..Len(c) : c[i] = ss[u][j]
        BY <3>3
      <4>1. CASE u = n BY <3>3, <3>5, <4>1
      <4>2. CASE u \in 1..(n - 1)
        <5>1. PICK i \in 1..Len(a) : a[i] = ss[u][j] BY <3>2, <3>3, <4>2
        <5>2. PICK k \in 1..Len(c) : c[k] = a[i] BY <3>5
        <5> QED BY <5>1, <5>2
      <4> QED BY <3>6, <4>1, <4>2
    <3> HIDE DEF From, Into
    <3> QED BY <3>7, <3>8
  <2> QED BY <2>1, <2>2
<1> HIDE DEF G, From, Into
<1>4. N \in Nat /\ N # 0 OBVIOUS
<1>5. \A n \in 0..N : n \in G BY <1>2, <1>3, <1>4, CountUp
<1>6. N \in G BY <1>4, <1>5
<1>7. From(N) /\ Into(N) BY <1>4, <1>6 DEF G
<1>8. h[N] = f /\ f \in Seq(E) BY <1>1
<1> QED BY <1>0, <1>7, <1>8 DEF From, Into, SameEntries

TakenRows == NextRow..(NextRow + Ticks - 1)

LEMMA TicksFacts ==
  ASSUME TimeInv, remaining > 0
  PROVE  /\ Ticks \in Nat \ {0} /\ NextRow \in Nat /\ NextRow + Ticks <= SubBlock
         /\ Ticks <= until_next /\ TakenRows \subseteq Row
         /\ NextRow + until_next = SubBlock /\ until_next \in Nat /\ SubBlock \in Nat \ {0}
<1>1. until_next \in 1..SubBlock /\ remaining \in 0..Frames /\ SubBlock \in Nat \ {0}
  BY MidiAssumption DEF TimeInv
<1>2. until_next \in Nat /\ remaining \in Nat BY <1>1, MidiAssumption
<1>3. Ticks \in {until_next, remaining} /\ Ticks <= until_next /\ Ticks <= remaining
  BY <1>2, LesserOf DEF Ticks
<1>4. Ticks \in Nat \ {0} BY <1>1, <1>2, <1>3
<1>5. PICK n, k : n = NextRow /\ k = Ticks OBVIOUS
<1>6. n \in Nat /\ n + until_next = SubBlock BY <1>1, <1>2, <1>5 DEF NextRow
<1>7. n + k <= SubBlock /\ \A t \in n..(n + k - 1) : t \in 0..(SubBlock - 1)
  BY <1>1, <1>2, <1>3, <1>4, <1>5, <1>6
<1> QED BY <1>1, <1>2, <1>3, <1>4, <1>5, <1>6, <1>7 DEF TakenRows, Row

\* The modules are handed the rows, each message at the sample of its row.
TakesRows(out, table) ==
  /\ \A i \in 1..Len(out) : \E t \in TakenRows : \E j \in 1..Len(table[t]) :
       /\ out[i] = [event |-> table[t][j], sample |-> sample_counter + t]
       /\ \A u \in TakenRows : \A l \in 1..Len(table[u]) :
            Sooner(u, l, t, j) => \E k \in 1..i : out[k].event = table[u][l]
  /\ \A t \in TakenRows : \A j \in 1..Len(table[t]) : \E i \in 1..Len(out) :
       out[i] = [event |-> table[t][j], sample |-> sample_counter + t]

LEMMA TakenFacts ==
  ASSUME TimeInv, remaining > 0, NEW table \in [Row -> Seq(Event)], NEW out, out = Taken(table)
  PROVE  out \in Seq([event : Event, sample : Nat]) /\ TakesRows(out, table)
<1> DEFINE E == [event : Event, sample : Nat]
           Shown(t) == [j \in DOMAIN table[t] |->
                          [event |-> table[t][j], sample |-> sample_counter + t]]
<1>1. /\ Ticks \in Nat \ {0} /\ NextRow \in Nat /\ TakenRows \subseteq Row
      /\ sample_counter \in Nat
  BY TicksFacts DEF TimeInv
<1>2. PICK n, k : n = Ticks /\ k = NextRow OBVIOUS
<1>3. PICK ss : ss = [i \in 1..n |-> [j \in DOMAIN table[k + i - 1] |->
        [event |-> table[k + i - 1][j], sample |-> sample_counter + k + i - 1]]]
  OBVIOUS
<1>4. out = FlattenSeq(ss) BY <1>2, <1>3 DEF Taken
<1>5. ASSUME NEW t \in TakenRows
      PROVE  /\ Shown(t) \in Seq(E) /\ Len(Shown(t)) = Len(table[t])
             /\ \A j \in 1..Len(table[t]) :
                  Shown(t)[j] = [event |-> table[t][j], sample |-> sample_counter + t]
  <2>1. PICK q \in Seq(Event) : q = table[t] BY <1>1
  <2>2. Len(q) \in Nat /\ DOMAIN q = 1..Len(q) /\ \A j \in 1..Len(q) : q[j] \in Event
    BY LenProperties, ElementOfSeq
  <2>3. t \in Row BY <1>1
  <2>4. sample_counter + t \in Nat BY <1>1, <2>3 DEF Row
  <2>5. Shown(t) = [j \in 1..Len(q) |-> [event |-> q[j], sample |-> sample_counter + t]]
    BY <2>1, <2>2
  <2>6. \A j \in 1..Len(q) : [event |-> q[j], sample |-> sample_counter + t] \in E
    BY <2>2, <2>4
  <2> HIDE DEF E, Shown
  <2>7. Shown(t) \in [1..Len(q) -> E] BY <2>5, <2>6
  <2>8. Shown(t) \in Seq(E) /\ Len(Shown(t)) = Len(q) BY <2>2, <2>7, IsASeq, LenProperties
  <2> QED BY <2>1, <2>5, <2>8
<1>6. \A i \in 1..n : k + i - 1 \in TakenRows /\ ss[i] = Shown(k + i - 1)
  <2> SUFFICES ASSUME NEW i \in 1..n
               PROVE  k + i - 1 \in TakenRows /\ ss[i] = Shown(k + i - 1)
    OBVIOUS
  <2>1. k + i - 1 \in TakenRows BY <1>1, <1>2 DEF TakenRows
  <2>2. sample_counter + k + i - 1 = sample_counter + (k + i - 1) BY <1>1, <1>2
  <2> QED BY <1>3, <2>1, <2>2
<1>7. \A t \in TakenRows : \E i \in 1..n : t = k + i - 1
  <2> SUFFICES ASSUME NEW t \in TakenRows PROVE \E i \in 1..n : t = k + i - 1
    OBVIOUS
  <2>1. t - k + 1 \in 1..n /\ t = k + (t - k + 1) - 1 BY <1>1, <1>2 DEF TakenRows
  <2> QED BY <2>1
<1>8. ss \in [1..n -> Seq(E)]
  <2> HIDE DEF Shown, E
  <2>1. \A i \in 1..n : ss[i] \in Seq(E) BY <1>5, <1>6
  <2>2. ss = [i \in 1..n |-> ss[i]] BY <1>3
  <2> QED BY <2>1, <2>2
<1> HIDE DEF Shown, E
<1>9. /\ out \in Seq(E)
      /\ \A i \in 1..Len(out) : \E u \in 1..n : \E j \in 1..Len(ss[u]) : InTurn(out, i, ss, u, j)
      /\ \A u \in 1..n : \A j \in 1..Len(ss[u]) : \E i \in 1..Len(out) : out[i] = ss[u][j]
  <2>1. n \in Nat \ {0} BY <1>1, <1>2
  <2>2. out \in Seq(E) /\ SameEntries(out, ss, n) BY <1>4, <1>8, <2>1, FlattenEntries
  <2> QED BY <2>2 DEF SameEntries
<1>10. ASSUME NEW i \in 1..Len(out)
       PROVE  \E t \in TakenRows : \E j \in 1..Len(table[t]) :
                /\ out[i] = [event |-> table[t][j], sample |-> sample_counter + t]
                /\ \A u \in TakenRows : \A l \in 1..Len(table[u]) :
                     Sooner(u, l, t, j) => \E q \in 1..i : out[q].event = table[u][l]
  <2>1. PICK u \in 1..n : \E j \in 1..Len(ss[u]) : InTurn(out, i, ss, u, j) BY <1>9
  <2>2. PICK t \in TakenRows : t = k + u - 1 /\ ss[u] = Shown(t) BY <1>6
  <2>3. PICK j \in 1..Len(ss[u]) : InTurn(out, i, ss, u, j) BY <2>1
  <2>4. /\ j \in 1..Len(table[t])
        /\ out[i] = [event |-> table[t][j], sample |-> sample_counter + t]
    BY <1>5, <2>2, <2>3 DEF InTurn
  <2>5. ASSUME NEW r \in TakenRows, NEW l \in 1..Len(table[r]), Sooner(r, l, t, j)
        PROVE  \E q \in 1..i : out[q].event = table[r][l]
    <3>1. PICK v \in 1..n : r = k + v - 1 BY <1>7
    <3>2. ss[v] = Shown(r) BY <1>6, <3>1
    <3>3. Sooner(v, l, u, j) /\ v \in 1..u
      <4>1. k \in Nat /\ n \in Nat BY <1>1, <1>2
      <4> QED BY <2>2, <2>5, <3>1, <4>1 DEF Sooner
    <3>4. /\ l \in 1..Len(ss[v])
          /\ ss[v][l] = [event |-> table[r][l], sample |-> sample_counter + r]
      BY <1>5, <3>2
    <3>5. PICK q \in 1..i : out[q] = ss[v][l] BY <2>3, <3>3, <3>4 DEF InTurn
    <3> QED BY <3>4, <3>5
  <2> QED BY <2>4, <2>5
<1>11. ASSUME NEW t \in TakenRows, NEW j \in 1..Len(table[t])
       PROVE  \E i \in 1..Len(out) :
                out[i] = [event |-> table[t][j], sample |-> sample_counter + t]
  <2>1. PICK u \in 1..n : ss[u] = Shown(t) BY <1>6, <1>7
  <2>2. j \in 1..Len(ss[u]) /\ ss[u][j] = [event |-> table[t][j], sample |-> sample_counter + t]
    BY <1>5, <2>1
  <2>3. PICK i \in 1..Len(out) : out[i] = ss[u][j] BY <1>9, <2>2
  <2> QED BY <2>2, <2>3
<1> QED BY <1>9, <1>10, <1>11 DEF E, TakesRows

-----------------------------------------------------------------------------
(* Types, and where each message is.                                        *)

PortStates ==
  {Idle} \cup [pc : {"clock"}, id : Message, at : 0..MaxTime]
         \cup [pc : {"push"}, event : Event]

TypeInv ==
  /\ TypeOK
  /\ port \in [Port -> PortStates] /\ rows \in [Row -> Seq(Event)]
  /\ playback_time \in 0..MaxTime

\* Rows are ticked once, and no row or carried message is ahead of its time.
RowsInv ==
  /\ \A t \in Row : until_next = SubBlock \/ t < NextRow => rows[t] = <<>>
  /\ Punctual(Scr, Horizon)

Handled(m) == \E p \in Port : Handling(p, m)
Waits(m) == \E i \in 1..Len(Waiting) : Waiting[i].event.id = m
Apart(m) ==
  /\ ~ (Handled(m) /\ Waits(m)) /\ ~ (Handled(m) /\ Has(Scr, m))
  /\ ~ (Handled(m) /\ m \in seen) /\ ~ (Handled(m) /\ m \in queue_dropped)
  /\ ~ (Waits(m) /\ Has(Scr, m)) /\ ~ (Waits(m) /\ m \in seen)
  /\ ~ (Waits(m) /\ m \in queue_dropped) /\ ~ (Has(Scr, m) /\ m \in seen)
  /\ ~ (Has(Scr, m) /\ m \in queue_dropped) /\ ~ (m \in seen /\ m \in queue_dropped)
PlaceInv ==
  /\ Alone(Scr)
  /\ \A p, q \in Port : \A m \in Nat : Handling(p, m) /\ Handling(q, m) => p = q
  /\ \A i, j \in 1..Len(Waiting) : Waiting[i].event.id = Waiting[j].event.id => i = j
  /\ \A m \in Nat : /\ Apart(m)
                    /\ m \in 1..received <=>
                         \/ Handled(m) \/ Waits(m) \/ Has(Scr, m)
                         \/ m \in seen \/ m \in queue_dropped

FiledInv == TypeInv /\ RowsInv /\ PlaceInv

LEMMA TailEntries ==
  ASSUME NEW E, NEW w \in Seq(E), NEW n \in 0..Len(w), NEW v, v = SubSeq(w, n + 1, Len(w))
  PROVE  /\ v \in Seq(E) /\ Len(v) = Len(w) - n
         /\ \A i \in 1..Len(v) : n + i \in 1..Len(w) /\ v[i] = w[n + i]
<1>1. Len(w) \in Nat /\ \A i \in 1..Len(w) : w[i] \in E BY LenProperties, ElementOfSeq
<1>2. \A i \in n + 1..Len(w) : i \in 1..Len(w) BY <1>1
<1>3. n \in Nat /\ n + 1 \in Int /\ Len(w) \in Int /\ n <= Len(w) BY <1>1
<1>4. /\ v \in Seq(E)
      /\ Len(v) = IF n + 1 <= Len(w) THEN Len(w) - (n + 1) + 1 ELSE 0
      /\ \A i \in 1..(Len(w) - (n + 1) + 1) : v[i] = w[n + 1 + i - 1]
  BY <1>1, <1>2, <1>3, SubSeqProperties
<1>5. Len(v) = Len(w) - n BY <1>3, <1>4
<1>6. ASSUME NEW i \in 1..Len(v) PROVE n + i \in 1..Len(w) /\ v[i] = w[n + i]
  <2>1. i \in 1..(Len(w) - (n + 1) + 1) /\ n + 1 + i - 1 = n + i BY <1>3, <1>5
  <2> QED BY <1>3, <1>4, <1>5, <2>1
<1> QED BY <1>4, <1>5, <1>6

LEMMA HeadEntries ==
  ASSUME NEW E, NEW w \in Seq(E), NEW n \in 0..Len(w), NEW v, v = SubSeq(w, 1, n)
  PROVE  /\ v \in Seq(E) /\ Len(v) = n
         /\ \A i \in 1..n : i \in 1..Len(w) /\ v[i] = w[i]
<1>1. Len(w) \in Nat /\ \A i \in 1..Len(w) : w[i] \in E BY LenProperties, ElementOfSeq
<1>2. \A i \in 1..n : i \in 1..Len(w) BY <1>1
<1>3. n \in Nat /\ n \in Int /\ 1 \in Int BY <1>1
<1>4. /\ v \in Seq(E) /\ Len(v) = IF 1 <= n THEN n - 1 + 1 ELSE 0
      /\ \A i \in 1..(n - 1 + 1) : v[i] = w[1 + i - 1]
  BY <1>1, <1>2, <1>3, SubSeqProperties
<1>5. Len(v) = n BY <1>3, <1>4
<1>6. ASSUME NEW i \in 1..n PROVE v[i] = w[i]
  <2>1. i \in 1..(n - 1 + 1) /\ 1 + i - 1 = i BY <1>3
  <2> QED BY <1>4, <2>1
<1> QED BY <1>2, <1>4, <1>5, <1>6

\* The look-ahead slot holds one message, and the queue has room again for it.
LEMMA DrainLengths ==
  ASSUME NEW E, NEW w \in Seq(E), NEW n \in 0..Len(w),
         NEW first, first = SubSeq(w, n + 1, Min({n + 1, Len(w)})),
         NEW rest, rest = SubSeq(w, n + 2, Len(w))
  PROVE  Len(first) <= 1 /\ (Len(rest) = 0 \/ Len(rest) + 1 <= Len(w))
<1>1. Len(w) \in Nat /\ \A i \in 1..Len(w) : w[i] \in E BY LenProperties, ElementOfSeq
<1>2. PICK m \in Nat : /\ m = Min({n + 1, Len(w)}) /\ m \in {n + 1, Len(w)}
                       /\ m <= n + 1 /\ m <= Len(w)
  <2>1. n + 1 \in Nat BY <1>1
  <2>2. /\ Min({n + 1, Len(w)}) \in {n + 1, Len(w)}
        /\ Min({n + 1, Len(w)}) <= n + 1 /\ Min({n + 1, Len(w)}) <= Len(w)
    BY <1>1, <2>1, LesserOf
  <2> QED BY <1>1, <2>1, <2>2
<1>3. n \in Nat /\ n + 1 \in Int /\ n + 2 \in Int /\ m \in Int /\ Len(w) \in Int BY <1>1
<1>4. Len(first) = IF n + 1 <= m THEN m - (n + 1) + 1 ELSE 0
  <2>1. \A i \in n + 1..m : i \in 1..Len(w) BY <1>1, <1>2
  <2> QED BY <1>1, <1>2, <1>3, <2>1, SubSeqProperties
<1>5. Len(rest) = IF n + 2 <= Len(w) THEN Len(w) - (n + 2) + 1 ELSE 0
  <2>1. \A i \in n + 2..Len(w) : i \in 1..Len(w) BY <1>1
  <2> QED BY <1>1, <1>3, <2>1, SubSeqProperties
<1> QED BY <1>1, <1>2, <1>3, <1>4, <1>5

LEMMA WaitingTyped ==
  ASSUME TypeInv
  PROVE  /\ Waiting \in Seq(Queued) /\ Len(Waiting) \in Nat
         /\ Len(Waiting) <= QueueSize + 1
         /\ \A i \in 1..Len(Waiting) :
              /\ Waiting[i].event \in Event /\ Waiting[i].event.id \in Nat
              /\ Waiting[i].event.target \in Nat
<1>1. queue \in Seq(Queued) /\ Len(queue) <= QueueSize /\ peeked \in Seq(Queued) /\ Len(peeked) <= 1
  BY DEF TypeInv, TypeOK
<1>2. QueueSize \in Nat /\ Len(queue) \in Nat /\ Len(peeked) \in Nat
  BY <1>1, MidiAssumption, LenProperties
<1>3. Waiting \in Seq(Queued) /\ Len(Waiting) = Len(peeked) + Len(queue)
  BY <1>1, ConcatProperties DEF Waiting
<1>4. \A i \in 1..Len(Waiting) : Waiting[i] \in Queued BY <1>3, ElementOfSeq
<1>5. \A q \in Queued : q.event \in Event /\ q.event.id \in Nat /\ q.event.target \in Nat
  BY DEF Queued, Event, Message
<1> QED BY <1>1, <1>2, <1>3, <1>4, <1>5

\* The messages drained are for this sub-block or late.
LEMMA DrainTakes ==
  ASSUME TypeInv, sample_counter \in Nat
  PROVE  /\ DrainCount \in 0..Len(Waiting)
         /\ \A k \in 1..DrainCount : Waiting[k].event.target < sample_counter + SubBlock
<1> DEFINE w == Waiting
           limit == sample_counter + SubBlock
           later == {i \in DOMAIN w : w[i].event.target >= limit}
<1>1. /\ w \in Seq(Queued) /\ Len(w) \in Nat /\ DOMAIN w = 1..Len(w)
      /\ \A i \in 1..Len(w) : w[i].event.target \in Nat
  BY WaitingTyped, LenProperties
<1>2. limit \in Nat BY MidiAssumption
<1>3. DrainCount = IF later = {} THEN Len(w) ELSE Min(later) - 1 BY DEF DrainCount
<1>4. later \in SUBSET Nat /\ \A i \in 1..Len(w) : i \in later <=> w[i].event.target >= limit
  BY <1>1
<1> HIDE DEF w, later, limit
<1>5. CASE later = {}
  <2>1. DrainCount = Len(w) BY <1>3, <1>5
  <2> QED BY <1>1, <1>2, <1>4, <1>5, <2>1 DEF w, limit
<1>6. CASE later # {}
  <2>1. PICK m : m = Min(later) OBVIOUS
  <2>2. m \in later /\ \A i \in later : m <= i BY <1>4, <1>6, <2>1, LeastNatural
  <2>3. m \in 1..Len(w) BY <1>1, <2>2 DEF later
  <2>4. DrainCount = m - 1 BY <1>3, <1>6, <2>1
  <2>5. DrainCount \in 0..Len(w) BY <1>1, <2>3, <2>4
  <2>6. ASSUME NEW k \in 1..DrainCount PROVE w[k].event.target < limit
    <3>1. k \in 1..Len(w) /\ ~ (m <= k) BY <1>1, <2>3, <2>4
    <3>2. ~ (w[k].event.target >= limit) BY <1>4, <2>2, <3>1
    <3> QED BY <1>1, <1>2, <3>1, <3>2
  <2> QED BY <2>5, <2>6 DEF w, limit
<1> QED BY <1>5, <1>6

-----------------------------------------------------------------------------
(* One turn of the callback's loop.                                         *)

\* The queue after the turn, and who is in it.
Left == IF until_next = SubBlock THEN SubSeq(Waiting, DrainCount + 1, Len(Waiting)) ELSE Waiting
StillWaits(m) == \E i \in 1..Len(Left) : Left[i].event.id = m

LEMMA ScrTyped ==
  ASSUME TypeInv
  PROVE  /\ Scr \in Scratches /\ Scr.rows = rows /\ Scr.pending = pending
         /\ Scr.dropped = dropped
<1>1. /\ rows \in [Row -> Seq(Event)] /\ \A t \in Row : Len(rows[t]) <= RowSize
      /\ pending \in Seq(Event) /\ Len(pending) <= CarrySize /\ dropped \in SUBSET Message
  BY DEF TypeInv, TypeOK
<1>2. Scr.rows = rows /\ Scr.pending = pending /\ Scr.dropped = dropped BY DEF Scr
<1>3. Scr \in [rows : [Row -> Seq(Event)], pending : Seq(Event), dropped : SUBSET Message]
  BY <1>1 DEF Scr
<1> HIDE DEF Scr
<1> QED BY <1>1, <1>2, <1>3 DEF Scratches

LEMMA DrainSorts ==
  ASSUME FiledInv, sample_counter \in Nat, until_next = SubBlock
  PROVE  /\ Drained \in Scratches /\ Alone(Drained)
         /\ Punctual(Drained, sample_counter + SubBlock)
         /\ \A m \in Nat : /\ Has(Drained, m) \/ StillWaits(m) <=> Has(Scr, m) \/ Waits(m)
                           /\ ~ (Has(Drained, m) /\ StillWaits(m))
         /\ \A i, j \in 1..Len(Left) : Left[i].event.id = Left[j].event.id => i = j
<1>1. TypeInv /\ Alone(Scr) /\ Punctual(Scr, Horizon) BY DEF FiledInv, RowsInv, PlaceInv
<1>2. pending \in Seq(Event) /\ dropped \in SUBSET Message BY <1>1 DEF TypeInv, TypeOK
<1>3. /\ Prepared \in Scratches /\ Alone(Prepared)
      /\ \A m \in Nat : Has(Prepared, m) <=> Carried(Scr, m) \/ m \in dropped
  BY <1>1, <1>2, PreparedFacts
<1>4. \A m \in Nat : Has(Prepared, m) <=> Has(Scr, m)
  <2>1. Scr.rows = rows /\ Scr.dropped = dropped BY DEF Scr
  <2>2. \A t \in Row : rows[t] = <<>> BY DEF FiledInv, RowsInv
  <2>3. \A t \in Row : Len(Scr.rows[t]) = 0 BY <2>1, <2>2
  <2>4. \A k \in 1..0 : FALSE OBVIOUS
  <2>5. \A m : ~ InRow(Scr, m) BY <2>3, <2>4 DEF InRow
  <2> QED BY <1>3, <2>1, <2>5 DEF Has
<1>5. Punctual(Prepared, sample_counter + SubBlock)
  <2>1. Horizon = sample_counter BY DEF Horizon
  <2>2. \A k \in 1..Len(pending) : pending[k].target < sample_counter
    BY <1>1, <2>1 DEF Punctual, Scr
  <2> QED BY <1>2, <2>2, PreparedPunctual
<1> DEFINE n == DrainCount
           W == Waiting
<1>6. /\ W \in Seq(Queued) /\ Len(W) \in Nat /\ n \in 0..Len(W)
      /\ \A i \in 1..Len(W) : W[i].event.id \in Nat
      /\ \A k \in 1..n : W[k].event.target < sample_counter + SubBlock
  BY <1>1, WaitingTyped, DrainTakes
<1>7. \A i, j \in 1..Len(W) : W[i].event.id = W[j].event.id => i = j
  BY DEF FiledInv, PlaceInv
<1>8. \A m \in Nat : ~ (Waits(m) /\ Has(Scr, m)) BY DEF FiledInv, PlaceInv, Apart
<1>9. PICK w : w = SubSeq(Waiting, 1, DrainCount) OBVIOUS
<1>10. PICK v : v = SubSeq(Waiting, DrainCount + 1, Len(Waiting)) OBVIOUS
<1>11. /\ w \in Seq(Queued) /\ Len(w) = n
       /\ \A i \in 1..n : i \in 1..Len(W) /\ w[i] = W[i]
  BY <1>6, <1>9, HeadEntries
<1>12. /\ Len(v) = Len(W) - n
       /\ \A i \in 1..Len(v) : n + i \in 1..Len(W) /\ v[i] = W[n + i]
  BY <1>6, <1>10, TailEntries
<1>13. Left = v BY <1>10 DEF Left
<1>14. \A m : Waits(m) <=> \E i \in 1..Len(W) : W[i].event.id = m BY DEF Waits
<1>15. \A m : StillWaits(m) <=> \E i \in 1..Len(v) : v[i].event.id = m
  BY <1>13 DEF StillWaits
<1> HIDE DEF n, W
<1>16. \A k, l \in 1..Len(w) : w[k].event.id = w[l].event.id => k = l
  BY <1>7, <1>11
<1>17. \A k \in 1..Len(w) : ~ Has(Prepared, w[k].event.id)
  BY <1>4, <1>6, <1>8, <1>11, <1>14
<1>18. /\ Drained \in Scratches /\ Alone(Drained)
       /\ \A m \in Nat : Has(Drained, m) <=>
            Has(Prepared, m) \/ \E k \in 1..Len(w) : w[k].event.id = m
  BY <1>3, <1>9, <1>11, <1>16, <1>17, DrainedFacts
<1>19. Punctual(Drained, sample_counter + SubBlock)
  <2>1. \A k \in 1..Len(w) : w[k].event.target < sample_counter + SubBlock
    BY <1>6, <1>11
  <2> QED BY <1>3, <1>5, <1>9, <1>11, <2>1, DrainedPunctual
<1>20. \A m : Waits(m) <=> (\E k \in 1..Len(w) : w[k].event.id = m) \/ StillWaits(m)
  <2>1. ASSUME NEW m, Waits(m)
        PROVE  (\E k \in 1..Len(w) : w[k].event.id = m) \/ StillWaits(m)
    <3>1. PICK i \in 1..Len(W) : W[i].event.id = m BY <1>14, <2>1
    <3>2. CASE i <= n
      <4>1. i \in 1..n BY <1>6, <3>2
      <4> QED BY <1>11, <3>1, <4>1
    <3>3. CASE ~ (i <= n)
      <4>1. i - n \in 1..Len(v) /\ n + (i - n) = i BY <1>6, <1>12, <3>3
      <4> QED BY <1>12, <1>15, <3>1, <4>1
    <3> QED BY <3>2, <3>3
  <2>2. ASSUME NEW m, NEW k \in 1..Len(w), w[k].event.id = m PROVE Waits(m)
    BY <1>11, <1>14, <2>2
  <2>3. ASSUME NEW m, StillWaits(m) PROVE Waits(m)
    BY <1>12, <1>14, <1>15, <2>3
  <2> QED BY <2>1, <2>2, <2>3
<1>21. ASSUME NEW m, \E k \in 1..Len(w) : w[k].event.id = m, StillWaits(m)
       PROVE  FALSE
  <2>1. PICK k \in 1..Len(w) : w[k].event.id = m BY <1>21
  <2>2. PICK i \in 1..Len(v) : v[i].event.id = m BY <1>15, <1>21
  <2>3. k = n + i BY <1>7, <1>11, <1>12, <2>1, <2>2
  <2>4. k <= n /\ i > 0 /\ i \in Nat /\ n \in Nat BY <1>6, <1>11, <1>12
  <2> QED BY <2>3, <2>4
<1>22. \A m \in Nat : /\ Has(Drained, m) \/ StillWaits(m) <=> Has(Scr, m) \/ Waits(m)
                      /\ ~ (Has(Drained, m) /\ StillWaits(m))
  <2> SUFFICES ASSUME NEW m \in Nat
               PROVE  /\ Has(Drained, m) \/ StillWaits(m) <=> Has(Scr, m) \/ Waits(m)
                      /\ ~ (Has(Drained, m) /\ StillWaits(m))
    OBVIOUS
  <2>1. Has(Drained, m) <=> Has(Scr, m) \/ \E k \in 1..Len(w) : w[k].event.id = m
    BY <1>4, <1>18
  <2> QED BY <1>8, <1>20, <1>21, <2>1, Zenon
<1>23. \A i, j \in 1..Len(v) : v[i].event.id = v[j].event.id => i = j
  <2> SUFFICES ASSUME NEW i \in 1..Len(v), NEW j \in 1..Len(v), v[i].event.id = v[j].event.id
               PROVE  i = j
    OBVIOUS
  <2>1. n + i = n + j BY <1>7, <1>12
  <2> QED BY <1>6, <1>12, <2>1
<1> QED BY <1>13, <1>18, <1>19, <1>22, <1>23

LEMMA ScratchFacts ==
  ASSUME FiledInv, TimeInv
  PROVE  /\ Scratch \in Scratches /\ Alone(Scratch)
         /\ Punctual(Scratch, sample_counter + SubBlock)
         /\ \A t \in Row : t < NextRow => Scratch.rows[t] = <<>>
         /\ \A m \in Nat : /\ Has(Scratch, m) \/ StillWaits(m) <=> Has(Scr, m) \/ Waits(m)
                           /\ ~ (Has(Scratch, m) /\ StillWaits(m))
         /\ \A i, j \in 1..Len(Left) : Left[i].event.id = Left[j].event.id => i = j
<1>1. sample_counter \in Nat BY DEF TimeInv
<1>2. CASE until_next = SubBlock
  <2>1. Scratch = Drained BY <1>2 DEF Scratch
  <2>2. \A t \in Row : ~ (t < NextRow)
    <3>1. NextRow = 0 BY <1>2, MidiAssumption DEF NextRow
    <3> QED BY <3>1, MidiAssumption DEF Row
  <2> QED BY <1>1, <1>2, <2>1, <2>2, DrainSorts
<1>3. CASE until_next # SubBlock
  <2>1. Scratch = Scr /\ Left = Waiting /\ Horizon = sample_counter + SubBlock
    BY <1>3 DEF Scratch, Scr, Left, Horizon
  <2>2. \A m : StillWaits(m) <=> Waits(m) BY <2>1 DEF StillWaits, Waits
  <2>3. Scr \in Scratches /\ Scr.rows = rows BY ScrTyped DEF FiledInv
  <2>4. \A t \in Row : t < NextRow => Scr.rows[t] = <<>>
    BY <2>3 DEF FiledInv, RowsInv
  <2>5. Alone(Scr) /\ Punctual(Scr, sample_counter + SubBlock)
    BY <2>1 DEF FiledInv, RowsInv, PlaceInv
  <2>6. \A m \in Nat : ~ (Has(Scr, m) /\ Waits(m)) BY DEF FiledInv, PlaceInv, Apart
  <2>7. \A i, j \in 1..Len(Waiting) : Waiting[i].event.id = Waiting[j].event.id => i = j
    BY DEF FiledInv, PlaceInv
  <2> QED BY <2>1, <2>2, <2>3, <2>4, <2>5, <2>6, <2>7
<1> QED BY <1>2, <1>3

-----------------------------------------------------------------------------
(* What the ticks leave.                                                    *)

\* A scratch s of which the rows up to the last tick were taken.
Cut(s) ==
  [rows |-> [t \in Row |-> IF t < NextRow + Ticks THEN <<>> ELSE s.rows[t]],
   pending |-> s.pending, dropped |-> s.dropped]
Ticked(s, m) == \E t \in TakenRows : \E k \in 1..Len(s.rows[t]) : s.rows[t][k].id = m

LEMMA CutRows ==
  ASSUME NEW s \in Scratches, NEW z, z = Cut(s)
  PROVE  /\ z.rows \in [Row -> Seq(Event)] /\ z.pending = s.pending /\ z.dropped = s.dropped
         /\ \A t \in Row : z.rows[t] = IF t < NextRow + Ticks THEN <<>> ELSE s.rows[t]
         /\ \A t \in Row : \A k \in 1..Len(z.rows[t]) :
              ~ (t < NextRow + Ticks) /\ z.rows[t] = s.rows[t] /\ k \in 1..Len(s.rows[t])
<1>1. s \in [rows : [Row -> Seq(Event)], pending : Seq(Event), dropped : SUBSET Message]
  BY DEF Scratches
<1>2. z.pending = s.pending /\ z.dropped = s.dropped BY DEF Cut
<1>3. z.rows = [t \in Row |-> IF t < NextRow + Ticks THEN <<>> ELSE s.rows[t]] BY DEF Cut
<1>4. <<>> \in Seq(Event) /\ Len(<<>>) = 0 OBVIOUS
<1>5. z.rows \in [Row -> Seq(Event)] BY <1>1, <1>3, <1>4
<1>6. \A t \in Row : z.rows[t] = IF t < NextRow + Ticks THEN <<>> ELSE s.rows[t] BY <1>3
<1>7. ASSUME NEW t \in Row, NEW k \in 1..Len(z.rows[t])
      PROVE  ~ (t < NextRow + Ticks) /\ z.rows[t] = s.rows[t] /\ k \in 1..Len(s.rows[t])
  <2>1. CASE t < NextRow + Ticks
    <3>1. z.rows[t] = <<>> BY <1>6, <2>1
    <3>2. k \in 1..0 BY <1>4, <1>7, <3>1
    <3> QED BY <3>2
  <2>2. CASE ~ (t < NextRow + Ticks) BY <1>6, <1>7, <2>2
  <2> QED BY <2>1, <2>2
<1> QED BY <1>2, <1>5, <1>6, <1>7

LEMMA CutFacts ==
  ASSUME TimeInv, remaining > 0, NEW s \in Scratches, Alone(s), NEW limit,
         Punctual(s, limit), \A t \in Row : t < NextRow => s.rows[t] = <<>>
  PROVE  /\ Cut(s) \in Scratches /\ Alone(Cut(s)) /\ Punctual(Cut(s), limit)
         /\ \A m \in Nat : /\ Has(s, m) <=> Has(Cut(s), m) \/ Ticked(s, m)
                           /\ ~ (Has(Cut(s), m) /\ Ticked(s, m))
<1>1. PICK z : z = Cut(s) OBVIOUS
<1>2. /\ z.rows \in [Row -> Seq(Event)] /\ z.pending = s.pending /\ z.dropped = s.dropped
      /\ \A t \in Row : z.rows[t] = IF t < NextRow + Ticks THEN <<>> ELSE s.rows[t]
      /\ \A t \in Row : \A k \in 1..Len(z.rows[t]) :
           ~ (t < NextRow + Ticks) /\ z.rows[t] = s.rows[t] /\ k \in 1..Len(s.rows[t])
  BY <1>1, CutRows
<1>3. /\ s \in [rows : [Row -> Seq(Event)], pending : Seq(Event), dropped : SUBSET Message]
      /\ (\A t \in Row : Len(s.rows[t]) <= RowSize) /\ Len(s.pending) <= CarrySize
      /\ RowSize \in Nat
  BY MidiAssumption DEF Scratches
<1>4. /\ TakenRows \subseteq Row /\ NextRow \in Nat /\ Ticks \in Nat
      /\ \A t \in Row : t \in TakenRows <=> ~ (t < NextRow) /\ t < NextRow + Ticks
  BY TicksFacts DEF TakenRows, Row
<1>5. z \in Scratches
  <2>1. ASSUME NEW t \in Row PROVE Len(z.rows[t]) <= RowSize
    <3>1. Len(<<>>) = 0 OBVIOUS
    <3> QED BY <1>2, <1>3, <3>1
  <2>2. z \in [rows : [Row -> Seq(Event)], pending : Seq(Event), dropped : SUBSET Message]
    BY <1>1, <1>2, <1>3 DEF Cut
  <2> QED BY <1>2, <1>3, <2>1, <2>2 DEF Scratches
<1>6. \A m : (Carried(z, m) <=> Carried(s, m)) /\ (m \in z.dropped <=> m \in s.dropped)
  BY <1>2 DEF Carried
<1>7. ASSUME NEW m PROVE InRow(s, m) <=> InRow(z, m) \/ Ticked(s, m)
  <2>1. ASSUME InRow(s, m) PROVE InRow(z, m) \/ Ticked(s, m)
    <3>1. PICK t \in Row : \E k \in 1..Len(s.rows[t]) : s.rows[t][k].id = m
      BY <2>1 DEF InRow
    <3>2. PICK k \in 1..Len(s.rows[t]) : s.rows[t][k].id = m BY <3>1
    <3>3. CASE t < NextRow
      <4>1. s.rows[t] = <<>> BY <3>3
      <4>2. Len(<<>>) = 0 /\ \A i \in 1..0 : FALSE OBVIOUS
      <4> QED BY <3>2, <4>1, <4>2
    <3>4. CASE t \in TakenRows BY <3>2, <3>4 DEF Ticked
    <3>5. CASE ~ (t < NextRow + Ticks) BY <1>2, <3>2, <3>5 DEF InRow
    <3> QED BY <1>4, <3>3, <3>4, <3>5
  <2>2. ASSUME InRow(z, m) PROVE InRow(s, m)
    BY <1>2, <2>2 DEF InRow
  <2>3. ASSUME Ticked(s, m) PROVE InRow(s, m)
    BY <1>4, <2>3 DEF InRow, Ticked
  <2> QED BY <2>1, <2>2, <2>3
<1>8. ASSUME NEW m, InRow(z, m), Ticked(s, m) PROVE FALSE
  <2>1. PICK t \in Row : \E k \in 1..Len(z.rows[t]) : z.rows[t][k].id = m
    BY <1>8 DEF InRow
  <2>2. PICK k \in 1..Len(z.rows[t]) : z.rows[t][k].id = m BY <2>1
  <2>3. PICK u \in TakenRows : \E l \in 1..Len(s.rows[u]) : s.rows[u][l].id = m
    BY <1>8 DEF Ticked
  <2>4. PICK l \in 1..Len(s.rows[u]) : s.rows[u][l].id = m BY <2>3
  <2>5. /\ k \in 1..Len(s.rows[t]) /\ s.rows[t][k].id = m /\ ~ (t < NextRow + Ticks)
        /\ u \in Row /\ u < NextRow + Ticks
    BY <1>2, <1>4, <2>2, <2>3
  <2>6. t = u BY <2>4, <2>5 DEF Alone
  <2> QED BY <2>5, <2>6
<1>9. Alone(z)
  <2>1. ASSUME NEW t \in Row, NEW u \in Row,
               NEW k \in 1..Len(z.rows[t]), NEW l \in 1..Len(z.rows[u]),
               z.rows[t][k].id = z.rows[u][l].id
        PROVE  t = u /\ k = l
    <3>1. /\ k \in 1..Len(s.rows[t]) /\ l \in 1..Len(s.rows[u])
          /\ s.rows[t][k].id = s.rows[u][l].id
      BY <1>2, <2>1
    <3> QED BY <3>1 DEF Alone
  <2>2. \A k, l \in 1..Len(z.pending) : z.pending[k].id = z.pending[l].id => k = l
    BY <1>2 DEF Alone
  <2>3. \A m : InRow(z, m) => InRow(s, m) BY <1>7
  <2>4. \A m \in Nat : /\ ~ (InRow(z, m) /\ Carried(z, m))
                       /\ ~ (InRow(z, m) /\ m \in z.dropped)
                       /\ ~ (Carried(z, m) /\ m \in z.dropped)
    BY <1>6, <2>3, Zenon DEF Alone
  <2> QED BY <2>1, <2>2, <2>4 DEF Alone
<1>10. Punctual(z, limit) BY <1>2 DEF Punctual
<1>11. ASSUME NEW m \in Nat
       PROVE  /\ Has(s, m) <=> Has(z, m) \/ Ticked(s, m)
              /\ ~ (Has(z, m) /\ Ticked(s, m))
  <2>1. Ticked(s, m) => InRow(s, m) BY <1>7
  <2>2. Ticked(s, m) => ~ Carried(s, m) /\ m \notin s.dropped BY <2>1 DEF Alone
  <2> QED BY <1>6, <1>7, <1>8, <2>2, Zenon DEF Has
<1> QED BY <1>1, <1>5, <1>9, <1>10, <1>11

\* The modules have seen, afterwards, what is in the rows that were ticked.
LEMMA TakenIds ==
  ASSUME TimeInv, remaining > 0, NEW s \in Scratches
  PROVE  \A m : m \in QueuedIds(Taken(s.rows)) <=> Ticked(s, m)
<1>1. PICK table : table = s.rows OBVIOUS
<1>8. table \in [Row -> Seq(Event)] BY <1>1 DEF Scratches
<1>2. PICK out : out = Taken(table) OBVIOUS
<1>3. /\ out \in Seq([event : Event, sample : Nat])
      /\ \A i \in 1..Len(out) : \E t \in TakenRows : \E j \in 1..Len(table[t]) :
           out[i] = [event |-> table[t][j], sample |-> sample_counter + t]
      /\ \A t \in TakenRows : \A j \in 1..Len(table[t]) : \E i \in 1..Len(out) :
           out[i] = [event |-> table[t][j], sample |-> sample_counter + t]
  <2>1. out \in Seq([event : Event, sample : Nat]) /\ TakesRows(out, table)
    BY <1>2, <1>8, TakenFacts
  <2> QED BY <2>1 DEF TakesRows
<1>4. DOMAIN out = 1..Len(out) BY <1>3, LenProperties
<1>5. \A m : m \in QueuedIds(out) <=> \E i \in 1..Len(out) : out[i].event.id = m
  BY <1>4 DEF QueuedIds
<1>6. ASSUME NEW m, NEW i \in 1..Len(out), out[i].event.id = m PROVE Ticked(s, m)
  <2>1. PICK t \in TakenRows : \E j \in 1..Len(table[t]) :
              out[i] = [event |-> table[t][j], sample |-> sample_counter + t]
    BY <1>3
  <2>2. PICK j \in 1..Len(table[t]) :
              out[i] = [event |-> table[t][j], sample |-> sample_counter + t]
    BY <2>1
  <2>3. out[i].event = table[t][j] BY <2>2
  <2> QED BY <1>1, <1>6, <2>3 DEF Ticked
<1>7. ASSUME NEW m, NEW t \in TakenRows, NEW j \in 1..Len(table[t]), table[t][j].id = m
      PROVE  \E i \in 1..Len(out) : out[i].event.id = m
  <2>1. PICK i \in 1..Len(out) :
              out[i] = [event |-> table[t][j], sample |-> sample_counter + t]
    BY <1>3
  <2>2. out[i].event = table[t][j] BY <2>1
  <2> QED BY <1>7, <2>2
<1> QED BY <1>1, <1>2, <1>5, <1>6, <1>7 DEF Ticked

-----------------------------------------------------------------------------
(* The steps.                                                               *)

\* A turn of the loop: what it leaves in the queue and in the scratch.
LEMMA ChunkMoves ==
  ASSUME FiledInv, TimeInv, Chunk
  PROVE  /\ Waiting' = Left
         /\ peeked' \in Seq(Queued) /\ queue' \in Seq(Queued)
         /\ Len(peeked') <= 1 /\ Len(queue') <= QueueSize
         /\ Scr' = Cut(Scratch)
         /\ \A m : m \in seen' <=> m \in seen \/ Ticked(Scratch, m)
<1>1. TypeInv /\ sample_counter \in Nat /\ remaining > 0 BY DEF FiledInv, TimeInv, Chunk
<1>2. Waiting' = peeked' \o queue' BY DEF Waiting
<1>3. /\ Waiting' = Left
      /\ peeked' \in Seq(Queued) /\ queue' \in Seq(Queued)
      /\ Len(peeked') <= 1 /\ Len(queue') <= QueueSize
  <2>1. CASE until_next # SubBlock
    <3>1. UNCHANGED <<peeked, queue>> BY <2>1 DEF Chunk
    <3>2. Waiting' = Left BY <1>2, <2>1, <3>1 DEF Left, Waiting
    <3> QED BY <1>1, <3>1, <3>2 DEF TypeInv, TypeOK
  <2>2. CASE until_next = SubBlock
    <3> DEFINE w == Waiting
               n == DrainCount
    <3>1. /\ peeked' = SubSeq(w, n + 1, Min({n + 1, Len(w)}))
          /\ queue' = SubSeq(w, n + 2, Len(w))
      BY <2>2 DEF Chunk
    <3>2. /\ w \in Seq(Queued) /\ Len(w) \in Nat /\ Len(w) <= QueueSize + 1
          /\ n \in 0..Len(w) /\ Left = SubSeq(w, n + 1, Len(w))
      BY <1>1, <2>2, WaitingTyped, DrainTakes DEF Left
    <3> HIDE DEF w, n
    <3>3. /\ peeked' \in Seq(Queued) /\ queue' \in Seq(Queued)
          /\ peeked' \o queue' = SubSeq(w, n + 1, Len(w))
      BY <3>1, <3>2, DrainLeaves
    <3>4. PICK first, rest : first = peeked' /\ rest = queue' OBVIOUS
    <3>5. Len(first) <= 1 /\ (Len(rest) = 0 \/ Len(rest) + 1 <= Len(w))
      BY <3>1, <3>2, <3>4, DrainLengths
    <3>6. Len(rest) \in Nat /\ QueueSize \in Nat
      BY <3>3, <3>4, LenProperties, MidiAssumption
    <3>7. Len(rest) <= QueueSize BY <3>2, <3>5, <3>6
    <3> QED BY <1>2, <3>2, <3>3, <3>4, <3>5, <3>7
  <2> QED BY <2>1, <2>2
<1>5. Scr' = Cut(Scratch)
  <2>1. /\ rows' = [t \in Row |-> IF t < NextRow + Ticks THEN <<>> ELSE Scratch.rows[t]]
        /\ pending' = Scratch.pending /\ dropped' = Scratch.dropped
    BY DEF Chunk
  <2> QED BY <2>1 DEF Scr, Cut
<1>6. \A m : m \in seen' <=> m \in seen \/ Ticked(Scratch, m)
  <2>1. seen' = seen \cup QueuedIds(Taken(Scratch.rows)) BY DEF Chunk
  <2>2. Scratch \in Scratches BY ScratchFacts
  <2>3. \A m : m \in QueuedIds(Taken(Scratch.rows)) <=> Ticked(Scratch, m)
    BY <1>1, <2>2, TakenIds
  <2> QED BY <2>1, <2>3
<1> QED BY <1>3, <1>5, <1>6

LEMMA ChunkPlaces ==
  ASSUME FiledInv, TimeInv, Chunk
  PROVE  PlaceInv'
<1>1. /\ Scratch \in Scratches /\ Alone(Scratch)
      /\ Punctual(Scratch, sample_counter + SubBlock)
      /\ \A t \in Row : t < NextRow => Scratch.rows[t] = <<>>
      /\ \A m \in Nat : /\ Has(Scratch, m) \/ StillWaits(m) <=> Has(Scr, m) \/ Waits(m)
                        /\ ~ (Has(Scratch, m) /\ StillWaits(m))
      /\ \A i, j \in 1..Len(Left) : Left[i].event.id = Left[j].event.id => i = j
  BY ScratchFacts
<1>2. /\ Waiting' = Left /\ Scr' = Cut(Scratch)
      /\ \A m : m \in seen' <=> m \in seen \/ Ticked(Scratch, m)
  BY ChunkMoves
<1>3. UNCHANGED <<received, port, queue_dropped>> BY DEF Chunk
<1>4. PICK limit : limit = sample_counter + SubBlock OBVIOUS
<1>5. /\ Alone(Cut(Scratch))
      /\ \A m \in Nat : /\ Has(Scratch, m) <=> Has(Cut(Scratch), m) \/ Ticked(Scratch, m)
                        /\ ~ (Has(Cut(Scratch), m) /\ Ticked(Scratch, m))
  BY <1>1, <1>4, CutFacts DEF Chunk
<1>6. Alone(Scr)'
  <2>1. PICK z : z = Cut(Scratch) /\ Scr' = z BY <1>2
  <2>2. Alone(z) BY <1>5, <2>1
  <2>3. Alone(Scr')
    BY <2>1, <2>2
  <2> QED BY <2>3
<1>7. \A p, m : Handling(p, m)' <=> Handling(p, m) BY <1>3 DEF Handling
<1>8. \A m : Handled(m)' <=> Handled(m) BY <1>7 DEF Handled
<1>9. \A m : Waits(m)' <=> StillWaits(m) BY <1>2 DEF Waits, StillWaits
<1>10. \A m : Has(Scr, m)' <=> Has(Cut(Scratch), m) BY <1>2 DEF Has, InRow, Carried, Row
<1>11. \A p, q \in Port : \A m \in Nat : Handling(p, m)' /\ Handling(q, m)' => p = q
  BY <1>7 DEF FiledInv, PlaceInv
<1>12. ASSUME NEW m \in Nat
       PROVE  /\ Apart(m)'
              /\ m \in 1..received' <=>
                   \/ Handled(m)' \/ Waits(m)' \/ Has(Scr, m)'
                   \/ m \in seen' \/ m \in queue_dropped'
  <2>1. /\ Apart(m)
        /\ m \in 1..received <=>
             \/ Handled(m) \/ Waits(m) \/ Has(Scr, m) \/ m \in seen \/ m \in queue_dropped
    BY DEF FiledInv, PlaceInv
  <2>2. m \in 1..received' <=> m \in 1..received BY <1>3
  <2>3. m \in queue_dropped' <=> m \in queue_dropped BY <1>3
  <2>4. /\ Has(Scratch, m) \/ StillWaits(m) <=> Has(Scr, m) \/ Waits(m)
        /\ ~ (Has(Scratch, m) /\ StillWaits(m))
    BY <1>1
  <2>5. /\ Has(Scratch, m) <=> Has(Cut(Scratch), m) \/ Ticked(Scratch, m)
        /\ ~ (Has(Cut(Scratch), m) /\ Ticked(Scratch, m))
    BY <1>5
  <2>6. m \in seen' <=> m \in seen \/ Ticked(Scratch, m) BY <1>2
  <2> QED BY <1>8, <1>9, <1>10, <2>1, <2>2, <2>3, <2>4, <2>5, <2>6, Zenon DEF Apart
<1>13. \A i, j \in 1..Len(Waiting') : Waiting'[i].event.id = Waiting'[j].event.id => i = j
  BY <1>1, <1>2
<1> QED BY <1>6, <1>11, <1>12, <1>13, Zenon DEF PlaceInv

LEMMA ChunkRows ==
  ASSUME FiledInv, TimeInv, Chunk
  PROVE  RowsInv'
<1>1. /\ Scratch \in Scratches /\ Alone(Scratch)
      /\ Punctual(Scratch, sample_counter + SubBlock)
      /\ \A t \in Row : t < NextRow => Scratch.rows[t] = <<>>
  BY ScratchFacts
<1>2. PICK z : z = Cut(Scratch) OBVIOUS
<1>3. /\ Scr' = z /\ rows' = z.rows
      /\ \A t \in Row : z.rows[t] = IF t < NextRow + Ticks THEN <<>> ELSE Scratch.rows[t]
      /\ \A t \in Row : \A k \in 1..Len(z.rows[t]) : ~ (t < NextRow + Ticks)
  <2>1. Scr' = z BY <1>2, ChunkMoves
  <2>2. rows' = z.rows BY <2>1 DEF Scr
  <2> QED BY <1>1, <1>2, <2>1, <2>2, CutRows
<1>4. PICK limit : limit = sample_counter + SubBlock OBVIOUS
<1>5. Punctual(z, limit) BY <1>1, <1>2, <1>4, CutFacts DEF Chunk
<1>6. Horizon' = limit BY <1>4, CallbackTicks DEF Horizon
<1>7. /\ Ticks \in Nat \ {0} /\ NextRow \in Nat
      /\ NextRow + until_next = SubBlock /\ until_next \in Nat /\ SubBlock \in Nat
      /\ Ticks <= until_next
  BY TicksFacts DEF Chunk
<1>8. \A k \in 1..Len(z.pending) : z.pending[k].target < limit BY <1>5 DEF Punctual
<1>9. CASE Ticks = until_next
  <2>1. \A t \in Row : t < NextRow + Ticks BY <1>7, <1>9 DEF Row
  <2>2. \A t \in Row : rows'[t] = <<>> BY <1>3, <2>1
  <2>3. \A t \in Row : \A k \in 1..Len(z.rows[t]) : FALSE BY <1>3, <2>1
  <2>4. Punctual(Scr, Horizon)' BY <1>3, <1>6, <1>8, <2>3 DEF Punctual, Row
  <2> QED BY <2>2, <2>4 DEF RowsInv, Row
<1>10. CASE Ticks # until_next
  <2>1. until_next' = until_next - Ticks /\ sample_counter' = sample_counter
    BY <1>10 DEF Chunk
  <2>2. PICK u : u = until_next' OBVIOUS
  <2>3. u = until_next - Ticks /\ NextRow' = SubBlock - u BY <2>1, <2>2 DEF NextRow
  <2>4. NextRow' = NextRow + Ticks /\ u # SubBlock BY <1>7, <1>10, <2>3
  <2>5. ASSUME NEW t \in Row, until_next' = SubBlock \/ t < NextRow' PROVE rows'[t] = <<>>
    BY <1>3, <2>2, <2>4, <2>5
  <2>6. \A t \in Row : \A k \in 1..Len(z.rows[t]) : z.rows[t][k].target <= sample_counter' + t
    BY <1>5, <2>1 DEF Punctual
  <2>7. Punctual(Scr, Horizon)' BY <1>3, <1>6, <1>8, <2>6 DEF Punctual, Row
  <2> QED BY <2>5, <2>7 DEF RowsInv, Row
<1> QED BY <1>9, <1>10

LEMMA ChunkTypes ==
  ASSUME FiledInv, TimeInv, Chunk
  PROVE  TypeInv'
<1>1. TypeInv /\ TimeInv' BY CallbackTicks DEF FiledInv
<1>2. /\ Scratch \in Scratches /\ Alone(Scratch)
      /\ Punctual(Scratch, sample_counter + SubBlock)
      /\ \A t \in Row : t < NextRow => Scratch.rows[t] = <<>>
  BY ScratchFacts
<1>3. PICK z : z = Cut(Scratch) OBVIOUS
<1>4. PICK limit : limit = sample_counter + SubBlock OBVIOUS
<1>5. z \in Scratches BY <1>2, <1>3, <1>4, CutFacts DEF Chunk
<1>6. /\ peeked' \in Seq(Queued) /\ queue' \in Seq(Queued)
      /\ Len(peeked') <= 1 /\ Len(queue') <= QueueSize
      /\ Scr' = z /\ \A m : m \in seen' <=> m \in seen \/ Ticked(Scratch, m)
  BY <1>3, ChunkMoves
<1>7. rows' = z.rows /\ pending' = z.pending /\ dropped' = z.dropped
  BY <1>6 DEF Scr
<1>8. /\ rows' \in [Row -> Seq(Event)] /\ \A t \in Row : Len(rows'[t]) <= RowSize
      /\ pending' \in Seq(Event) /\ Len(pending') <= CarrySize /\ dropped' \subseteq Message
  BY <1>5, <1>7 DEF Scratches
<1>9. \A t \in Row : rows'[t] \in Seq(Event) BY <1>8
<1>10. ASSUME NEW m, Ticked(Scratch, m) PROVE m \in Message
  <2>1. PICK t \in TakenRows : \E k \in 1..Len(Scratch.rows[t]) : Scratch.rows[t][k].id = m
    BY <1>10 DEF Ticked
  <2>2. PICK k \in 1..Len(Scratch.rows[t]) : Scratch.rows[t][k].id = m BY <2>1
  <2>3. t \in Row BY TicksFacts DEF Chunk
  <2>4. Scratch.rows[t] \in Seq(Event) BY <1>2, <2>3 DEF Scratches
  <2>5. Scratch.rows[t][k] \in Event BY <2>2, <2>4, ElementOfSeq
  <2> QED BY <2>2, <2>5 DEF Event
<1>11. seen \subseteq Message BY <1>1 DEF TypeInv, TypeOK
<1>12. seen' \subseteq Message BY <1>6, <1>10, <1>11
<1>13. /\ remaining' \in 0..Frames /\ until_next' \in 1..SubBlock /\ sample_counter' \in Nat
  BY <1>1 DEF TimeInv
<1>14. UNCHANGED <<now, received, port, queue_dropped, callback, playback_time, clock>>
  BY DEF Chunk
<1>15. /\ now' \in 0..MaxTime /\ received' \in 0..MaxEvents
       /\ \A p \in Port : port'[p].pc \in {"idle", "clock", "push"}
       /\ callback' \in {"waiting", "running"}
       /\ queue_dropped' \subseteq Message /\ clock' \in [count : Nat, wall : 0..MaxTime]
       /\ port' \in [Port -> PortStates] /\ playback_time' \in 0..MaxTime
  BY <1>1, <1>14 DEF TypeInv, TypeOK
<1> QED BY <1>6, <1>8, <1>9, <1>12, <1>13, <1>15 DEF TypeInv, TypeOK, PortStates, Queued, Event, Message, Row, Idle

\* Steps that leave the scratch alone, or the queue, or the threads.
LEMMA ScratchAside ==
  ASSUME FiledInv, UNCHANGED <<until_next, sample_counter, rows, pending, dropped>>
  PROVE  RowsInv' /\ Alone(Scr)' /\ \A m : Has(Scr, m)' <=> Has(Scr, m)
<1>1. RowsInv /\ Alone(Scr) BY DEF FiledInv, PlaceInv
<1>2. Scr' = Scr /\ Horizon' = Horizon /\ NextRow' = NextRow BY DEF Scr, Horizon, NextRow
<1>3. Alone(Scr') BY <1>1, <1>2
<1>4. \A m : Has(Scr, m)' <=> Has(Scr, m) BY <1>2 DEF Has, InRow, Carried, Row
<1>5. Punctual(Scr, Horizon)' BY <1>1, <1>2 DEF RowsInv, Punctual, Row
<1>6. \A t \in Row : until_next' = SubBlock \/ t < NextRow' => rows'[t] = <<>>
  BY <1>1, <1>2 DEF RowsInv
<1> QED BY <1>3, <1>4, <1>5, <1>6 DEF RowsInv, Row

LEMMA QueueAside ==
  ASSUME UNCHANGED <<queue, peeked>>
  PROVE  Waiting' = Waiting /\ \A m : Waits(m)' <=> Waits(m)
<1>1. Waiting' = Waiting BY DEF Waiting
<1> QED BY <1>1 DEF Waits

LEMMA ThreadsAside ==
  ASSUME UNCHANGED port
  PROVE  \A m : /\ Handled(m)' <=> Handled(m)
                /\ \A p : Handling(p, m)' <=> Handling(p, m)
<1>1. \A p, m : Handling(p, m)' <=> Handling(p, m) BY DEF Handling
<1> QED BY <1>1 DEF Handled

\* No message moves.
LEMMA FilesAside ==
  ASSUME FiledInv, UNCHANGED <<received, port, queueVars, until_next, sample_counter, scratchVars>>
  PROVE  RowsInv' /\ PlaceInv'
<1>1. /\ RowsInv' /\ Alone(Scr)' /\ \A m : Has(Scr, m)' <=> Has(Scr, m)
      /\ Waiting' = Waiting /\ \A m : Waits(m)' <=> Waits(m)
      /\ \A m : /\ Handled(m)' <=> Handled(m)
                /\ \A p : Handling(p, m)' <=> Handling(p, m)
  BY ScratchAside, QueueAside, ThreadsAside DEF queueVars, scratchVars
<1>2. UNCHANGED <<received, seen, queue_dropped>> BY DEF queueVars, scratchVars
<1>3. \A p, q \in Port : \A m \in Nat : Handling(p, m)' /\ Handling(q, m)' => p = q
  BY <1>1 DEF FiledInv, PlaceInv
<1>4. \A i, j \in 1..Len(Waiting') : Waiting'[i].event.id = Waiting'[j].event.id => i = j
  BY <1>1 DEF FiledInv, PlaceInv
<1>5. ASSUME NEW m \in Nat
      PROVE  /\ Apart(m)'
             /\ m \in 1..received' <=>
                  \/ Handled(m)' \/ Waits(m)' \/ Has(Scr, m)'
                  \/ m \in seen' \/ m \in queue_dropped'
  <2>1. /\ Apart(m)
        /\ m \in 1..received <=>
             \/ Handled(m) \/ Waits(m) \/ Has(Scr, m) \/ m \in seen \/ m \in queue_dropped
    BY DEF FiledInv, PlaceInv
  <2>2. /\ m \in 1..received' <=> m \in 1..received
        /\ m \in seen' <=> m \in seen
        /\ m \in queue_dropped' <=> m \in queue_dropped
    BY <1>2
  <2>3. /\ Handled(m)' <=> Handled(m)
        /\ Waits(m)' <=> Waits(m)
        /\ Has(Scr, m)' <=> Has(Scr, m)
    BY <1>1
  <2> QED BY <2>1, <2>2, <2>3, Zenon DEF Apart
<1> QED BY <1>1, <1>3, <1>4, <1>5, Zenon DEF PlaceInv

\* The next message is nowhere yet.
LEMMA ReceiveFiles ==
  ASSUME FiledInv, NEW p \in Port, Receive(p)
  PROVE  RowsInv' /\ PlaceInv'
<1>1. /\ RowsInv' /\ Alone(Scr)' /\ \A m : Has(Scr, m)' <=> Has(Scr, m)
      /\ Waiting' = Waiting /\ \A m : Waits(m)' <=> Waits(m)
  BY ScratchAside, QueueAside DEF Receive, queueVars, callbackVars, scratchVars
<1>2. /\ UNCHANGED <<seen, queue_dropped>> /\ received' = received + 1 /\ received \in Nat
      /\ port[p] = Idle /\ port \in [Port -> PortStates]
  BY DEF Receive, queueVars, scratchVars, FiledInv, TypeInv, TypeOK
<1>3. PICK r \in Nat : r = received + 1 BY <1>2
<1>4. port' = [port EXCEPT ![p] = [pc |-> "clock", id |-> r, at |-> now]]
  BY <1>2, <1>3 DEF Receive
<1>5. port'[p] = [pc |-> "clock", id |-> r, at |-> now] /\ \A q \in Port : q # p => port'[q] = port[q]
  BY <1>2, <1>4
<1>6. ASSUME NEW q \in Port, NEW m
      PROVE  /\ Handling(q, m)' <=> (q # p /\ Handling(q, m)) \/ (q = p /\ m = r)
             /\ ~ Handling(p, m)
  <2>1. ~ Handling(p, m) BY <1>2 DEF Handling, Idle
  <2>2. CASE q = p
    <3>1. Handling(p, m)' <=> m = r BY <1>5 DEF Handling
    <3> QED BY <2>1, <2>2, <3>1
  <2>3. CASE q # p
    <3>1. port'[q] = port[q] BY <1>5, <2>3
    <3>2. Handling(q, m)' <=> Handling(q, m) BY <3>1 DEF Handling
    <3> QED BY <2>1, <2>3, <3>2
  <2> QED BY <2>2, <2>3
<1>7. \A m : Handled(m)' <=> Handled(m) \/ m = r
  BY <1>6 DEF Handled
<1>8. ~ (r \in 1..received) BY <1>2, <1>3
<1>9. /\ \A m \in Nat :
           /\ Apart(m)
           /\ m \in 1..received <=>
                \/ Handled(m) \/ Waits(m) \/ Has(Scr, m) \/ m \in seen \/ m \in queue_dropped
      /\ \A u, q \in Port : \A m \in Nat : Handling(u, m) /\ Handling(q, m) => u = q
      /\ \A i, j \in 1..Len(Waiting) : Waiting[i].event.id = Waiting[j].event.id => i = j
  BY DEF FiledInv, PlaceInv
<1>10. ASSUME NEW u \in Port, NEW q \in Port, NEW m \in Nat, Handling(u, m)', Handling(q, m)'
       PROVE  u = q
  <2>1. \A v \in Port : Handling(v, m) => m # r BY <1>8, <1>9 DEF Handled
  <2>2. /\ (u # p /\ Handling(u, m)) \/ (u = p /\ m = r)
        /\ (q # p /\ Handling(q, m)) \/ (q = p /\ m = r)
    BY <1>6, <1>10
  <2> QED BY <1>9, <2>1, <2>2
<1>11. ASSUME NEW m \in Nat
       PROVE  /\ Apart(m)'
              /\ m \in 1..received' <=>
                   \/ Handled(m)' \/ Waits(m)' \/ Has(Scr, m)'
                   \/ m \in seen' \/ m \in queue_dropped'
  <2>1. m \in 1..received' <=> m \in 1..received \/ m = r
    <3>1. PICK n \in Nat : n = received BY <1>2
    <3>2. 1..received' = 1..(n + 1) /\ r = n + 1 BY <1>2, <1>3, <3>1
    <3>3. m \in 1..(n + 1) <=> m \in 1..n \/ m = n + 1 BY <3>1
    <3> QED BY <3>1, <3>2, <3>3
  <2>2. /\ m \in seen' <=> m \in seen
        /\ m \in queue_dropped' <=> m \in queue_dropped
    BY <1>2
  <2>3. /\ Handled(m)' <=> Handled(m) \/ m = r
        /\ Waits(m)' <=> Waits(m)
        /\ Has(Scr, m)' <=> Has(Scr, m)
    BY <1>1, <1>7
  <2>4. /\ Apart(m)
        /\ m \in 1..received <=>
             \/ Handled(m) \/ Waits(m) \/ Has(Scr, m) \/ m \in seen \/ m \in queue_dropped
    BY <1>9
  <2>5. m = r => ~ (m \in 1..received) BY <1>8
  <2> QED BY <2>1, <2>2, <2>3, <2>4, <2>5, Zenon DEF Apart
<1>12. \A i, j \in 1..Len(Waiting') : Waiting'[i].event.id = Waiting'[j].event.id => i = j
  BY <1>1, <1>9
<1> QED BY <1>1, <1>10, <1>11, <1>12, Zenon DEF PlaceInv

\* A message keeps its number when it is stamped.
LEMMA ReadFiles ==
  ASSUME FiledInv, NEW p \in Port, ReadClock(p)
  PROVE  RowsInv' /\ PlaceInv'
<1>1. /\ RowsInv' /\ Alone(Scr)' /\ \A m : Has(Scr, m)' <=> Has(Scr, m)
      /\ Waiting' = Waiting /\ \A m : Waits(m)' <=> Waits(m)
  BY ScratchAside, QueueAside DEF ReadClock, queueVars, callbackVars, scratchVars
<1>2. /\ UNCHANGED <<received, seen, queue_dropped>> /\ port[p].pc = "clock"
      /\ port \in [Port -> PortStates]
      /\ port' = [port EXCEPT ![p] = [pc |-> "push", event |->
                    [id |-> port[p].id, port |-> p, target |-> Stamp(clock, port[p].at)]]]
  BY DEF ReadClock, queueVars, scratchVars, FiledInv, TypeInv
<1>3. PICK g : g = Stamp(clock, port[p].at) OBVIOUS
<1>4. /\ port'[p] = [pc |-> "push", event |-> [id |-> port[p].id, port |-> p, target |-> g]]
      /\ \A q \in Port : q # p => port'[q] = port[q]
  BY <1>2, <1>3
<1>5. ASSUME NEW q \in Port, NEW m PROVE Handling(q, m)' <=> Handling(q, m)
  <2>1. CASE q = p
    <3>1. Handling(p, m)' <=> m = port[p].id BY <1>4 DEF Handling
    <3>2. Handling(p, m) <=> m = port[p].id BY <1>2 DEF Handling
    <3> QED BY <2>1, <3>1, <3>2
  <2>2. CASE q # p
    <3>1. port'[q] = port[q] BY <1>4, <2>2
    <3> QED BY <3>1 DEF Handling
  <2> QED BY <2>1, <2>2
<1>6. \A m : Handled(m)' <=> Handled(m) BY <1>5 DEF Handled
<1>7. \A u, q \in Port : \A m \in Nat : Handling(u, m)' /\ Handling(q, m)' => u = q
  BY <1>5 DEF FiledInv, PlaceInv
<1>8. \A i, j \in 1..Len(Waiting') : Waiting'[i].event.id = Waiting'[j].event.id => i = j
  BY <1>1 DEF FiledInv, PlaceInv
<1>9. ASSUME NEW m \in Nat
      PROVE  /\ Apart(m)'
             /\ m \in 1..received' <=>
                  \/ Handled(m)' \/ Waits(m)' \/ Has(Scr, m)'
                  \/ m \in seen' \/ m \in queue_dropped'
  <2>1. /\ Apart(m)
        /\ m \in 1..received <=>
             \/ Handled(m) \/ Waits(m) \/ Has(Scr, m) \/ m \in seen \/ m \in queue_dropped
    BY DEF FiledInv, PlaceInv
  <2>2. /\ m \in 1..received' <=> m \in 1..received
        /\ m \in seen' <=> m \in seen
        /\ m \in queue_dropped' <=> m \in queue_dropped
    BY <1>2
  <2>3. /\ Handled(m)' <=> Handled(m)
        /\ Waits(m)' <=> Waits(m)
        /\ Has(Scr, m)' <=> Has(Scr, m)
    BY <1>1, <1>6
  <2> QED BY <2>1, <2>2, <2>3, Zenon DEF Apart
<1> QED BY <1>1, <1>7, <1>8, <1>9, Zenon DEF PlaceInv

\* One more message waits, and no message twice.
LEMMA AppendWaits ==
  ASSUME NEW w \in Seq(Queued), NEW x \in Queued, NEW v, v = Append(w, x),
         \A i, j \in 1..Len(w) : w[i].event.id = w[j].event.id => i = j,
         \A i \in 1..Len(w) : w[i].event.id # x.event.id
  PROVE  /\ \A i, j \in 1..Len(v) : v[i].event.id = v[j].event.id => i = j
         /\ \A m : (\E i \in 1..Len(v) : v[i].event.id = m)
                     <=> (\E i \in 1..Len(w) : w[i].event.id = m) \/ m = x.event.id
<1>1. Len(w) \in Nat BY LenProperties
<1>2. PICK n \in Nat : n = Len(w) BY <1>1
<1>3. /\ Len(v) = n + 1 /\ v[n + 1] = x
      /\ \A i \in 1..n : v[i] = w[i]
  BY <1>2, AppendProperties
<1>4. \A i \in 1..(n + 1) : i \in 1..n \/ i = n + 1 BY <1>2
<1>5. 1..n \subseteq 1..(n + 1) /\ n + 1 \in 1..(n + 1) BY <1>2
<1>6. ASSUME NEW i \in 1..(n + 1), NEW j \in 1..(n + 1), v[i].event.id = v[j].event.id
      PROVE  i = j
  BY <1>2, <1>3, <1>4, <1>6
<1>7. ASSUME NEW m
      PROVE  (\E i \in 1..(n + 1) : v[i].event.id = m)
               <=> (\E i \in 1..n : w[i].event.id = m) \/ m = x.event.id
  BY <1>2, <1>3, <1>4, <1>5
<1> QED BY <1>2, <1>3, <1>6, <1>7

LEMMA PushHandles ==
  ASSUME FiledInv, NEW p \in Port, Push(p), NEW n, n = port[p].event.id
  PROVE  /\ n \in Nat /\ port[p].event \in Event /\ Handled(n)
         /\ \A q \in Port : \A m : Handling(q, m)' <=> q # p /\ Handling(q, m)
         /\ \A m \in Nat : Handled(m)' <=> Handled(m) /\ m # n
<1>1. port \in [Port -> PortStates] /\ port[p].pc = "push" /\ port' = [port EXCEPT ![p] = Idle]
  BY DEF FiledInv, TypeInv, Push
<1>2. port[p].event \in Event
  <2>1. port[p] \in PortStates BY <1>1
  <2> QED BY <1>1, <2>1 DEF PortStates, Idle
<1>3. n \in Nat BY <1>2 DEF Event, Message
<1>4. \A m : Handling(p, m) <=> m = n BY <1>1 DEF Handling
<1>5. Handled(n) BY <1>4 DEF Handled
<1>6. port'[p] = Idle /\ \A q \in Port : q # p => port'[q] = port[q] BY <1>1
<1>7. ASSUME NEW q \in Port, NEW m PROVE Handling(q, m)' <=> q # p /\ Handling(q, m)
  <2>1. CASE q = p
    <3>1. ~ Handling(p, m)' BY <1>6 DEF Handling, Idle
    <3> QED BY <2>1, <3>1
  <2>2. CASE q # p
    <3>1. port'[q] = port[q] BY <1>6, <2>2
    <3>2. Handling(q, m)' <=> Handling(q, m) BY <3>1 DEF Handling
    <3> QED BY <2>2, <3>2
  <2> QED BY <2>1, <2>2
<1>8. \A u, q \in Port : \A m \in Nat : Handling(u, m) /\ Handling(q, m) => u = q
  BY DEF FiledInv, PlaceInv
<1>9. ASSUME NEW m \in Nat PROVE Handled(m)' <=> Handled(m) /\ m # n
  <2>1. Handled(m)' <=> \E q \in Port : q # p /\ Handling(q, m) BY <1>7 DEF Handled
  <2>2. ASSUME NEW q \in Port, q # p, Handling(q, m) PROVE m # n
    BY <1>4, <1>8, <2>2
  <2>3. ASSUME NEW q \in Port, Handling(q, m), m # n PROVE q # p
    BY <1>4, <2>3
  <2> QED BY <2>1, <2>2, <2>3 DEF Handled
<1> QED BY <1>2, <1>3, <1>5, <1>7, <1>9

\* A message is queued behind the others, or counted as dropped.
LEMMA PushFiles ==
  ASSUME FiledInv, NEW p \in Port, Push(p)
  PROVE  RowsInv' /\ PlaceInv'
<1>1. RowsInv' /\ Alone(Scr)' /\ \A m : Has(Scr, m)' <=> Has(Scr, m)
  BY ScratchAside DEF Push, callbackVars, scratchVars
<1>2. UNCHANGED <<received, seen, peeked>> BY DEF Push, scratchVars
<1>3. PICK n : n = port[p].event.id OBVIOUS
<1>4. /\ n \in Nat /\ port[p].event \in Event /\ Handled(n)
      /\ \A q \in Port : \A m : Handling(q, m)' <=> q # p /\ Handling(q, m)
      /\ \A m \in Nat : Handled(m)' <=> Handled(m) /\ m # n
  BY <1>3, PushHandles
<1>5. /\ \A m \in Nat :
           /\ Apart(m)
           /\ m \in 1..received <=>
                \/ Handled(m) \/ Waits(m) \/ Has(Scr, m) \/ m \in seen \/ m \in queue_dropped
      /\ \A u, q \in Port : \A m \in Nat : Handling(u, m) /\ Handling(q, m) => u = q
      /\ \A i, j \in 1..Len(Waiting) : Waiting[i].event.id = Waiting[j].event.id => i = j
  BY DEF FiledInv, PlaceInv
<1>6. \A u, q \in Port : \A m \in Nat : Handling(u, m)' /\ Handling(q, m)' => u = q
  BY <1>4, <1>5
<1>7. \A m : /\ m \in 1..received' <=> m \in 1..received
             /\ m \in seen' <=> m \in seen
  BY <1>2
<1>8. CASE queue' = Append(queue, [event |-> port[p].event, pushed |-> now])
           /\ UNCHANGED queue_dropped
  <2>1. PICK x : x = [event |-> port[p].event, pushed |-> now] OBVIOUS
  <2>2. x \in Queued /\ x.event.id = n
    BY <1>3, <1>4, <2>1 DEF FiledInv, TypeInv, TypeOK, Queued
  <2>3. PICK w : w = Waiting OBVIOUS
  <2>4. w \in Seq(Queued) BY <2>3, WaitingTyped DEF FiledInv
  <2>5. peeked \in Seq(Queued) /\ queue \in Seq(Queued) BY DEF FiledInv, TypeInv, TypeOK
  <2>6. Waiting' = Append(w, x) BY <1>2, <1>8, <2>1, <2>2, <2>3, <2>5, PushAppends
  <2>7. ~ Waits(n) BY <1>4, <1>5 DEF Apart
  <2>8. \A i \in 1..Len(w) : w[i].event.id # x.event.id BY <2>2, <2>3, <2>7 DEF Waits
  <2>9. PICK v : v = Append(w, x) OBVIOUS
  <2>10. \A i, j \in 1..Len(w) : w[i].event.id = w[j].event.id => i = j BY <1>5, <2>3
  <2>11. /\ \A i, j \in 1..Len(v) : v[i].event.id = v[j].event.id => i = j
         /\ \A m : (\E i \in 1..Len(v) : v[i].event.id = m)
                     <=> (\E i \in 1..Len(w) : w[i].event.id = m) \/ m = x.event.id
    BY <2>2, <2>4, <2>8, <2>9, <2>10, AppendWaits
  <2>12. \A m : Waits(m)' <=> Waits(m) \/ m = n
    BY <2>2, <2>3, <2>6, <2>9, <2>11 DEF Waits
  <2>13. \A i, j \in 1..Len(Waiting') : Waiting'[i].event.id = Waiting'[j].event.id => i = j
    BY <2>6, <2>9, <2>11
  <2>14. ASSUME NEW m \in Nat
         PROVE  /\ Apart(m)'
                /\ m \in 1..received' <=>
                     \/ Handled(m)' \/ Waits(m)' \/ Has(Scr, m)'
                     \/ m \in seen' \/ m \in queue_dropped'
    <3>1. /\ Apart(m)
          /\ m \in 1..received <=>
               \/ Handled(m) \/ Waits(m) \/ Has(Scr, m) \/ m \in seen \/ m \in queue_dropped
      BY <1>5
    <3>2. m \in queue_dropped' <=> m \in queue_dropped BY <1>8
    <3>3. /\ Handled(m)' <=> Handled(m) /\ m # n
          /\ Waits(m)' <=> Waits(m) \/ m = n
          /\ Has(Scr, m)' <=> Has(Scr, m)
      BY <1>1, <1>4, <2>12
    <3>4. m = n => Handled(m) BY <1>4
    <3> QED BY <1>7, <3>1, <3>2, <3>3, <3>4, Zenon DEF Apart
  <2> QED BY <1>1, <1>6, <2>13, <2>14, Zenon DEF PlaceInv
<1>9. CASE queue_dropped' = queue_dropped \cup {port[p].event.id} /\ UNCHANGED queue
  <2>1. Waiting' = Waiting /\ \A m : Waits(m)' <=> Waits(m) BY <1>2, <1>9, QueueAside
  <2>2. \A i, j \in 1..Len(Waiting') : Waiting'[i].event.id = Waiting'[j].event.id => i = j
    BY <1>5, <2>1
  <2>3. ASSUME NEW m \in Nat
        PROVE  /\ Apart(m)'
               /\ m \in 1..received' <=>
                    \/ Handled(m)' \/ Waits(m)' \/ Has(Scr, m)'
                    \/ m \in seen' \/ m \in queue_dropped'
    <3>1. /\ Apart(m)
          /\ m \in 1..received <=>
               \/ Handled(m) \/ Waits(m) \/ Has(Scr, m) \/ m \in seen \/ m \in queue_dropped
      BY <1>5
    <3>2. m \in queue_dropped' <=> m \in queue_dropped \/ m = n BY <1>3, <1>9
    <3>3. /\ Handled(m)' <=> Handled(m) /\ m # n
          /\ Waits(m)' <=> Waits(m)
          /\ Has(Scr, m)' <=> Has(Scr, m)
      BY <1>1, <1>4, <2>1
    <3>4. m = n => Handled(m) BY <1>4
    <3> QED BY <1>7, <3>1, <3>2, <3>3, <3>4, Zenon DEF Apart
  <2> QED BY <1>1, <1>6, <2>2, <2>3, Zenon DEF PlaceInv
<1> QED BY <1>8, <1>9 DEF Push

\* What the types of the variables are after a step, variable by variable.
LEMMA TypesNext ==
  ASSUME TypeInv,
         now' \in 0..MaxTime, received' \in 0..MaxEvents, port' \in [Port -> PortStates],
         queue' \in Seq(Queued), Len(queue') <= QueueSize, queue_dropped' \subseteq Message,
         callback' \in {"waiting", "running"}, remaining' \in 0..Frames,
         playback_time' \in 0..MaxTime, clock' \in [count : Nat, wall : 0..MaxTime],
         UNCHANGED <<peeked, until_next, sample_counter, rows, pending, dropped, seen>>
  PROVE  TypeInv'
<1>1. \A p \in Port : port'[p].pc \in {"idle", "clock", "push"}
  <2>1. \A p \in Port : port'[p] \in PortStates OBVIOUS
  <2> QED BY <2>1 DEF PortStates, Idle
<1>2. /\ peeked' \in Seq(Queued) /\ Len(peeked') <= 1
      /\ until_next' \in 1..SubBlock /\ sample_counter' \in Nat
      /\ pending' \in Seq(Event) /\ Len(pending') <= CarrySize
      /\ dropped' \subseteq Message /\ seen' \subseteq Message
  BY DEF TypeInv, TypeOK
<1>3. rows' \in [Row -> Seq(Event)] BY DEF TypeInv
<1>4. \A t \in Row : rows'[t] \in Seq(Event) /\ Len(rows'[t]) <= RowSize
  BY DEF TypeInv, TypeOK
<1> QED BY <1>1, <1>2, <1>3, <1>4
        DEF TypeInv, TypeOK, PortStates, Queued, Event, Message, Row, Idle

LEMMA TypesBefore ==
  ASSUME TypeInv
  PROVE  /\ now \in 0..MaxTime /\ received \in 0..MaxEvents /\ port \in [Port -> PortStates]
         /\ queue \in Seq(Queued) /\ Len(queue) <= QueueSize /\ queue_dropped \subseteq Message
         /\ callback \in {"waiting", "running"} /\ remaining \in 0..Frames
         /\ playback_time \in 0..MaxTime /\ clock \in [count : Nat, wall : 0..MaxTime]
         /\ sample_counter \in Nat
         /\ MaxTime \in Nat /\ MaxEvents \in Nat /\ Frames \in Nat /\ QueueSize \in Nat
BY MidiAssumption DEF TypeInv, TypeOK

LEMMA ReceiveTypes ==
  ASSUME TypeInv, NEW p \in Port, Receive(p)
  PROVE  TypeInv'
<1>1. /\ now \in 0..MaxTime /\ received \in 0..MaxEvents /\ port \in [Port -> PortStates]
      /\ MaxEvents \in Nat
  BY TypesBefore
<1>2. PICK r : r = received + 1 OBVIOUS
<1>3. r \in Message /\ received' = r /\ r \in 0..MaxEvents
  BY <1>1, <1>2 DEF Receive, Message
<1>4. port' = [port EXCEPT ![p] = [pc |-> "clock", id |-> r, at |-> now]]
  BY <1>3 DEF Receive
<1>5. [pc |-> "clock", id |-> r, at |-> now] \in PortStates BY <1>1, <1>3 DEF PortStates
<1>6. port' \in [Port -> PortStates] BY <1>1, <1>4, <1>5
<1>7. UNCHANGED <<now, queue, peeked, queue_dropped, callback, playback_time, remaining,
                  until_next, sample_counter, rows, pending, dropped, seen, clock>>
  BY DEF Receive, queueVars, callbackVars, scratchVars
<1> QED BY <1>3, <1>6, <1>7, TypesBefore, TypesNext

LEMMA ReadTypes ==
  ASSUME TypeInv, TimeInv, StampInv, NEW p \in Port, ReadClock(p)
  PROVE  TypeInv'
<1>1. port \in [Port -> PortStates] /\ port[p].pc = "clock" BY TypesBefore DEF ReadClock
<1>2. port[p].id \in Message
  <2>1. port[p] \in PortStates BY <1>1
  <2> QED BY <1>1, <2>1 DEF PortStates, Idle
<1>3. PICK at \in StartDelay..now : at = port[p].at BY <1>1 DEF StampInv
<1>4. PICK g \in Nat : g = Stamp(clock, at) BY StampLeads DEF Stamps
<1>5. port' = [port EXCEPT ![p] = [pc |-> "push", event |->
                [id |-> port[p].id, port |-> p, target |-> g]]]
  BY <1>1, <1>3, <1>4 DEF ReadClock
<1>6. [pc |-> "push", event |-> [id |-> port[p].id, port |-> p, target |-> g]] \in PortStates
  BY <1>2, <1>4 DEF PortStates, Event
<1>7. port' \in [Port -> PortStates] BY <1>1, <1>5, <1>6
<1>8. UNCHANGED <<now, received, queue, peeked, queue_dropped, callback, playback_time, remaining,
                  until_next, sample_counter, rows, pending, dropped, seen, clock>>
  BY DEF ReadClock, queueVars, callbackVars, scratchVars
<1> QED BY <1>7, <1>8, TypesBefore, TypesNext

LEMMA PushTypes ==
  ASSUME FiledInv, NEW p \in Port, Push(p)
  PROVE  TypeInv'
<1>1. /\ TypeInv /\ port \in [Port -> PortStates] /\ queue \in Seq(Queued)
      /\ Len(queue) <= QueueSize /\ queue_dropped \subseteq Message /\ now \in 0..MaxTime
      /\ QueueSize \in Nat
  BY TypesBefore DEF FiledInv
<1>2. port[p].event \in Event BY PushHandles
<1>3. port[p].event.id \in Message BY <1>2 DEF Event
<1>4. [event |-> port[p].event, pushed |-> now] \in Queued BY <1>1, <1>2 DEF Queued
<1>5. port' \in [Port -> PortStates]
  <2>1. Idle \in PortStates BY DEF PortStates
  <2>2. port' = [port EXCEPT ![p] = Idle] BY DEF Push
  <2> QED BY <1>1, <2>1, <2>2
<1>6. UNCHANGED <<now, received, peeked, callback, playback_time, remaining,
                  until_next, sample_counter, rows, pending, dropped, seen, clock>>
  BY DEF Push, callbackVars, scratchVars
<1>7. queue' \in Seq(Queued) /\ Len(queue') <= QueueSize /\ queue_dropped' \subseteq Message
  <2>1. CASE Len(queue) < QueueSize
    <3>1. PICK x \in Queued : x = [event |-> port[p].event, pushed |-> now] BY <1>4
    <3>2. queue' = Append(queue, x) /\ queue_dropped' = queue_dropped
      BY <2>1, <3>1 DEF Push
    <3>3. Append(queue, x) \in Seq(Queued) /\ Len(Append(queue, x)) = Len(queue) + 1
      BY <1>1, AppendProperties
    <3>4. Len(queue) \in Nat BY <1>1, LenProperties
    <3>5. Len(Append(queue, x)) <= QueueSize BY <1>1, <2>1, <3>3, <3>4
    <3> QED BY <1>1, <3>2, <3>3, <3>5
  <2>2. CASE ~ (Len(queue) < QueueSize)
    BY <1>1, <1>3, <2>2 DEF Push
  <2> QED BY <2>1, <2>2
<1> QED BY <1>1, <1>5, <1>6, <1>7, TypesBefore, TypesNext

\* The wall clock and the callbacks' beginning and end.
LEMMA RestTypes ==
  ASSUME TypeInv, Time \/ BeginCallback \/ EndCallback \/ UNCHANGED vars
  PROVE  TypeInv'
<1>1. /\ now \in 0..MaxTime /\ MaxTime \in Nat /\ Frames \in Nat /\ sample_counter \in Nat
      /\ playback_time \in 0..MaxTime
  BY TypesBefore
<1>2. CASE Time
  <2>1. now' \in 0..MaxTime BY <1>1, <1>2 DEF Time
  <2>2. UNCHANGED <<received, port, queue, peeked, queue_dropped, callback, playback_time,
                    remaining, until_next, sample_counter, rows, pending, dropped, seen, clock>>
    BY <1>2 DEF Time, queueVars, callbackVars, scratchVars
  <2> QED BY <2>1, <2>2, TypesBefore, TypesNext
<1>3. CASE BeginCallback
  <2>1. callback' = "running" /\ playback_time' \in 0..MaxTime /\ remaining' \in 0..Frames
    BY <1>1, <1>3 DEF BeginCallback
  <2>2. UNCHANGED <<now, received, port, queue, peeked, queue_dropped,
                    until_next, sample_counter, rows, pending, dropped, seen, clock>>
    BY <1>3 DEF BeginCallback, queueVars, scratchVars
  <2> QED BY <2>1, <2>2, TypesBefore, TypesNext
<1>4. CASE EndCallback
  <2>1. callback' = "waiting" /\ clock' \in [count : Nat, wall : 0..MaxTime]
    BY <1>1, <1>4 DEF EndCallback
  <2>2. UNCHANGED <<now, received, port, queue, peeked, queue_dropped, playback_time, remaining,
                    until_next, sample_counter, rows, pending, dropped, seen>>
    BY <1>4 DEF EndCallback, queueVars, scratchVars
  <2> QED BY <2>1, <2>2, TypesBefore, TypesNext
<1>5. CASE UNCHANGED vars
  <2>1. UNCHANGED <<now, received, port, queue, peeked, queue_dropped, callback, playback_time,
                    remaining, until_next, sample_counter, rows, pending, dropped, seen, clock>>
    BY <1>5 DEF vars, queueVars, callbackVars, scratchVars
  <2> QED BY <2>1, TypesBefore, TypesNext
<1> QED BY <1>2, <1>3, <1>4, <1>5

LEMMA FiledInit == Init => FiledInv
<1> SUFFICES ASSUME Init PROVE FiledInv OBVIOUS
<1>1. /\ {Frames, SubBlock, RowSize, CarrySize, QueueSize} \subseteq Nat \ {0}
      /\ {Lookahead, StartDelay, Jitter, MaxEvents, MaxTime} \subseteq Nat
  BY MidiAssumption
<1>2. /\ <<>> \in Seq(Event) /\ <<>> \in Seq(Queued) /\ Len(<<>>) = 0
      /\ <<>> \o <<>> = <<>> /\ \A i \in 1..0 : FALSE
  BY ConcatEmptySeq
<1>3. TypeInv
  <2>1. rows \in [Row -> Seq(Event)] /\ \A t \in Row : rows[t] = <<>> BY <1>2 DEF Init
  <2>2. port \in [Port -> PortStates] /\ \A p \in Port : port[p] = Idle
    BY DEF Init, PortStates
  <2>3. TypeOK
    <3>1. /\ now \in 0..MaxTime /\ received \in 0..MaxEvents
          /\ remaining \in 0..Frames /\ until_next \in 1..SubBlock /\ sample_counter \in Nat
          /\ callback \in {"waiting", "running"}
          /\ queue_dropped \subseteq Message /\ dropped \subseteq Message /\ seen \subseteq Message
          /\ clock \in [count : Nat, wall : 0..MaxTime]
      BY <1>1 DEF Init
    <3>2. /\ queue \in Seq(Queued) /\ Len(queue) <= QueueSize
          /\ peeked \in Seq(Queued) /\ Len(peeked) <= 1
          /\ pending \in Seq(Event) /\ Len(pending) <= CarrySize
      BY <1>1, <1>2 DEF Init
    <3>3. \A p \in Port : port[p].pc \in {"idle", "clock", "push"} BY <2>2 DEF Idle
    <3>4. \A t \in Row : rows[t] \in Seq(Event) /\ Len(rows[t]) <= RowSize
      BY <1>1, <1>2, <2>1
    <3> QED BY <3>1, <3>2, <3>3, <3>4 DEF TypeOK
  <2>4. playback_time \in 0..MaxTime BY <1>1 DEF Init
  <2> QED BY <2>1, <2>2, <2>3, <2>4 DEF TypeInv
<1>4. /\ \A t \in Row : Len(Scr.rows[t]) = 0
      /\ Len(Scr.pending) = 0 /\ Scr.dropped = {}
  BY <1>2 DEF Init, Scr
<1>5. \A m : ~ InRow(Scr, m) /\ ~ Carried(Scr, m) /\ m \notin Scr.dropped
  BY <1>2, <1>4 DEF InRow, Carried
<1>6. RowsInv
  <2>1. \A t \in Row : rows[t] = <<>> BY DEF Init
  <2>2. Punctual(Scr, Horizon) BY <1>2, <1>4 DEF Punctual
  <2> QED BY <2>1, <2>2 DEF RowsInv
<1>7. PlaceInv
  <2>1. Alone(Scr) BY <1>2, <1>4, <1>5 DEF Alone
  <2>2. \A m : ~ Has(Scr, m) BY <1>5 DEF Has
  <2>3. Len(Waiting) = 0 BY <1>2 DEF Waiting, Init
  <2>4. \A m : ~ Waits(m) BY <1>2, <2>3 DEF Waits
  <2>5. \A m : \A p \in Port : ~ Handling(p, m) BY DEF Init, Idle, Handling
  <2>6. \A m : ~ Handled(m) BY <2>5 DEF Handled
  <2>7. seen = {} /\ queue_dropped = {} /\ \A m : m \notin 1..received BY DEF Init
  <2>8. \A m : Apart(m) BY <2>2, <2>4, <2>6, <2>7 DEF Apart
  <2>9. \A i, j \in 1..Len(Waiting) : Waiting[i].event.id = Waiting[j].event.id => i = j
    BY <1>2, <2>3
  <2>10. \A m : m \in 1..received <=> \/ Handled(m) \/ Waits(m) \/ Has(Scr, m)
                                      \/ m \in seen \/ m \in queue_dropped
    BY <2>2, <2>4, <2>6, <2>7
  <2> QED BY <2>1, <2>5, <2>8, <2>9, <2>10 DEF PlaceInv
<1> QED BY <1>3, <1>6, <1>7 DEF FiledInv

LEMMA FiledStep == MidiInv /\ FiledInv /\ [Next]_vars => FiledInv'
<1> SUFFICES ASSUME MidiInv, FiledInv, [Next]_vars PROVE FiledInv' OBVIOUS
<1>1. TimeInv /\ StampInv /\ TypeInv BY DEF MidiInv, FiledInv
<1>2. ASSUME NEW p \in Port, Receive(p) PROVE FiledInv'
  BY <1>1, <1>2, ReceiveTypes, ReceiveFiles DEF FiledInv
<1>3. ASSUME NEW p \in Port, ReadClock(p) PROVE FiledInv'
  BY <1>1, <1>3, ReadTypes, ReadFiles DEF FiledInv
<1>4. ASSUME NEW p \in Port, Push(p) PROVE FiledInv'
  BY <1>4, PushTypes, PushFiles DEF FiledInv
<1>5. CASE Time \/ BeginCallback \/ EndCallback \/ UNCHANGED vars
  <2>1. TypeInv' BY <1>1, <1>5, RestTypes
  <2>2. UNCHANGED <<received, port, queueVars, until_next, sample_counter, scratchVars>>
    BY <1>5 DEF Time, BeginCallback, EndCallback, vars, callbackVars
  <2>3. RowsInv' /\ PlaceInv' BY <2>2, FilesAside
  <2> QED BY <2>1, <2>3 DEF FiledInv
<1>6. CASE Chunk
  BY <1>1, <1>6, ChunkTypes, ChunkRows, ChunkPlaces DEF FiledInv
<1> QED BY <1>2, <1>3, <1>4, <1>5, <1>6 DEF Next, Handle, Callback

-----------------------------------------------------------------------------
(* What it says of the places a message may be in.                          *)

LEMMA PlacesFacts ==
  ASSUME FiledInv, NEW m \in Nat
  PROVE  /\ Waits(m) <=> m \in QueuedIds(peeked) \/ m \in QueuedIds(queue)
         /\ ~ (m \in QueuedIds(peeked) /\ m \in QueuedIds(queue))
         /\ InRow(Scr, m) <=> m \in InRows
         /\ Carried(Scr, m) <=> m \in Ids(pending)
<1>1. /\ peeked \in Seq(Queued) /\ queue \in Seq(Queued) /\ pending \in Seq(Event)
      /\ \A t \in Row : rows[t] \in Seq(Event)
  BY DEF FiledInv, TypeInv, TypeOK
<1>2. PICK a, b, w : a = peeked /\ b = queue /\ w = Waiting OBVIOUS
<1>3. PICK n \in Nat, k \in Nat : n = Len(a) /\ k = Len(b) BY <1>1, <1>2, LenProperties
<1>4. /\ Len(w) = n + k
      /\ \A i \in 1..(n + k) : w[i] = IF i <= n THEN a[i] ELSE b[i - n]
  BY <1>1, <1>2, <1>3, ConcatProperties DEF Waiting
<1>5. DOMAIN a = 1..n /\ DOMAIN b = 1..k BY <1>1, <1>2, <1>3, LenProperties
<1>6. Waits(m) <=> \E i \in 1..(n + k) : w[i].event.id = m BY <1>2, <1>4 DEF Waits
<1>7. m \in QueuedIds(peeked) <=> \E i \in 1..n : a[i].event.id = m
  BY <1>2, <1>5 DEF QueuedIds
<1>8. m \in QueuedIds(queue) <=> \E i \in 1..k : b[i].event.id = m
  BY <1>2, <1>5 DEF QueuedIds
<1>9. /\ \A i \in 1..n : i \in 1..(n + k) /\ w[i] = a[i]
      /\ \A i \in 1..k : n + i \in 1..(n + k) /\ w[n + i] = b[i]
  BY <1>4
<1>10. \A i \in 1..(n + k) : (i \in 1..n /\ w[i] = a[i]) \/ (i - n \in 1..k /\ w[i] = b[i - n])
  BY <1>4
<1>11. Waits(m) <=> m \in QueuedIds(peeked) \/ m \in QueuedIds(queue)
  BY <1>6, <1>7, <1>8, <1>9, <1>10
<1>12. ASSUME NEW i \in 1..n, a[i].event.id = m, NEW j \in 1..k, b[j].event.id = m
       PROVE  FALSE
  <2>1. \A x, y \in 1..(n + k) : w[x].event.id = w[y].event.id => x = y
    BY <1>2, <1>4 DEF FiledInv, PlaceInv
  <2>2. i = n + j BY <1>9, <1>12, <2>1
  <2> QED BY <2>2
<1>13. InRow(Scr, m) <=> m \in InRows
  <2>1. \A t \in Row : DOMAIN rows[t] = 1..Len(rows[t]) BY <1>1, LenProperties
  <2>2. \A t \in Row : m \in Ids(rows[t]) <=> \E j \in 1..Len(rows[t]) : rows[t][j].id = m
    BY <2>1 DEF Ids
  <2>3. m \in InRows <=> \E t \in Row : m \in Ids(rows[t]) BY DEF InRows
  <2> QED BY <2>2, <2>3 DEF InRow, Scr
<1>14. Carried(Scr, m) <=> m \in Ids(pending)
  <2>1. DOMAIN pending = 1..Len(pending) BY <1>1, LenProperties
  <2> QED BY <2>1 DEF Carried, Scr, Ids
<1> QED BY <1>7, <1>8, <1>11, <1>12, <1>13, <1>14

LEMMA FiledAccounts == ASSUME FiledInv PROVE Accounted
<1> SUFFICES ASSUME NEW m \in 1..received
             PROVE  Cardinality({p \in Port : Handling(p, m)})
                    + Cardinality({x \in {"queue", "peeked", "rows", "pending", "seen", "dropped", "queue_dropped"} :
                        CASE x = "queue" -> m \in QueuedIds(queue)
                          [] x = "peeked" -> m \in QueuedIds(peeked)
                          [] x = "rows" -> m \in InRows
                          [] x = "pending" -> m \in Ids(pending)
                          [] x = "seen" -> m \in seen
                          [] x = "dropped" -> m \in dropped
                          [] x = "queue_dropped" -> m \in queue_dropped}) = 1
  BY DEF Accounted
<1> DEFINE A == {p \in Port : Handling(p, m)}
           S == {"queue", "peeked", "rows", "pending", "seen", "dropped", "queue_dropped"}
           B == {x \in S :
                   CASE x = "queue" -> m \in QueuedIds(queue)
                     [] x = "peeked" -> m \in QueuedIds(peeked)
                     [] x = "rows" -> m \in InRows
                     [] x = "pending" -> m \in Ids(pending)
                     [] x = "seen" -> m \in seen
                     [] x = "dropped" -> m \in dropped
                     [] x = "queue_dropped" -> m \in queue_dropped}
<1>1. m \in Nat OBVIOUS
<1>2. /\ Waits(m) <=> m \in QueuedIds(peeked) \/ m \in QueuedIds(queue)
      /\ ~ (m \in QueuedIds(peeked) /\ m \in QueuedIds(queue))
      /\ InRow(Scr, m) <=> m \in InRows
      /\ Carried(Scr, m) <=> m \in Ids(pending)
  BY <1>1, PlacesFacts
<1>3. /\ Apart(m)
      /\ Handled(m) \/ Waits(m) \/ Has(Scr, m) \/ m \in seen \/ m \in queue_dropped
      /\ ~ (InRow(Scr, m) /\ Carried(Scr, m))
      /\ ~ (InRow(Scr, m) /\ m \in Scr.dropped) /\ ~ (Carried(Scr, m) /\ m \in Scr.dropped)
      /\ \A p, q \in Port : Handling(p, m) /\ Handling(q, m) => p = q
  BY <1>1 DEF FiledInv, PlaceInv, Alone
<1>4. Has(Scr, m) <=> m \in InRows \/ m \in Ids(pending) \/ m \in dropped
  BY <1>2 DEF Has, Scr
<1>5. m \in Scr.dropped <=> m \in dropped BY DEF Scr
<1>6. /\ B \subseteq S
      /\ "queue" \in B <=> m \in QueuedIds(queue)
      /\ "peeked" \in B <=> m \in QueuedIds(peeked)
      /\ "rows" \in B <=> m \in InRows
      /\ "pending" \in B <=> m \in Ids(pending)
      /\ "seen" \in B <=> m \in seen
      /\ "dropped" \in B <=> m \in dropped
      /\ "queue_dropped" \in B <=> m \in queue_dropped
  OBVIOUS
<1> HIDE DEF A, B
<1>7. ASSUME Handled(m) PROVE Cardinality(A) + Cardinality(B) = 1
  <2>1. PICK p \in Port : Handling(p, m) BY <1>7 DEF Handled
  <2>2. A = {p} BY <1>3, <2>1 DEF A
  <2>3. B = {}
    <3>1. \A x \in S : x \notin B BY <1>2, <1>3, <1>4, <1>6, <1>7 DEF Apart
    <3> QED BY <1>6, <3>1
  <2>4. Cardinality({p}) = 1 /\ Cardinality({}) = 0 BY FS_EmptySet, FS_Singleton
  <2>5. Cardinality(A) = 1 /\ Cardinality(B) = 0 BY <2>2, <2>3, <2>4
  <2> QED BY <2>5
<1>8. ASSUME ~ Handled(m) PROVE Cardinality(A) + Cardinality(B) = 1
  <2>1. A = {} BY <1>8 DEF A, Handled
  <2>2. \E x \in S : B = {x}
    <3>1. \E x \in S : x \in B BY <1>2, <1>3, <1>4, <1>6, <1>8
    <3>2. \A x, y \in S : x \in B /\ y \in B => x = y
      BY <1>2, <1>3, <1>4, <1>5, <1>6, <1>8 DEF Apart
    <3>3. PICK x \in S : x \in B BY <3>1
    <3>4. \A y : y \in B => y = x BY <1>6, <3>2, <3>3
    <3>5. B = {x} BY <3>3, <3>4
    <3> QED BY <3>5
  <2>3. PICK x : B = {x} BY <2>2
  <2>4. Cardinality({x}) = 1 /\ Cardinality({}) = 0 BY FS_EmptySet, FS_Singleton
  <2>5. Cardinality(A) = 0 /\ Cardinality(B) = 1 BY <2>1, <2>3, <2>4
  <2> QED BY <2>5
<1>9. Cardinality(A) + Cardinality(B) = 1 BY <1>7, <1>8
<1> QED BY <1>9, Zenon DEF A, B

LEMMA NoneSeenEarly ==
  ASSUME FiledInv, TimeInv, [Next]_vars, seen' # seen
  PROVE  LET out == Output IN \A i \in DOMAIN out : out[i].sample >= out[i].event.target
<1>1. Chunk
  <2>1. UNCHANGED seen \/ Chunk
    BY DEF Next, Time, Handle, Callback, Receive, ReadClock, Push, BeginCallback, EndCallback,
           scratchVars, vars
  <2> QED BY <2>1
<1>2. remaining > 0 /\ sample_counter \in Nat BY <1>1 DEF Chunk, TimeInv
<1>3. Scratch \in Scratches /\ Punctual(Scratch, sample_counter + SubBlock) BY ScratchFacts
<1>4. PICK table : table = Scratch.rows OBVIOUS
<1>5. table \in [Row -> Seq(Event)] BY <1>3, <1>4 DEF Scratches
<1>6. PICK out : out = Taken(table) OBVIOUS
<1>7. out \in Seq([event : Event, sample : Nat]) /\ TakesRows(out, table)
  BY <1>2, <1>5, <1>6, TakenFacts
<1>8. Output = out BY <1>4, <1>6 DEF Output
<1>9. DOMAIN out = 1..Len(out) BY <1>7, LenProperties
<1>10. ASSUME NEW i \in 1..Len(out) PROVE out[i].sample >= out[i].event.target
  <2>1. PICK t \in TakenRows : \E j \in 1..Len(table[t]) :
              out[i] = [event |-> table[t][j], sample |-> sample_counter + t]
    BY <1>7 DEF TakesRows
  <2>2. PICK j \in 1..Len(table[t]) :
              out[i] = [event |-> table[t][j], sample |-> sample_counter + t]
    BY <2>1
  <2>3. t \in Row /\ t \in Nat BY <1>2, TicksFacts DEF Row
  <2>4. table[t][j] \in Event BY <1>5, <2>2, <2>3, ElementOfSeq
  <2>5. table[t][j].target <= sample_counter + t /\ table[t][j].target \in Nat
    BY <1>3, <1>4, <2>2, <2>3, <2>4 DEF Punctual, Event
  <2>6. out[i].event = table[t][j] /\ out[i].sample = sample_counter + t BY <2>2
  <2>7. \A a, b \in Nat : a <= b => b >= a OBVIOUS
  <2>8. sample_counter + t \in Nat BY <1>2, <2>3
  <2> QED BY <2>5, <2>6, <2>7, <2>8
<1> QED BY <1>8, <1>9, <1>10

-----------------------------------------------------------------------------
(* The order of the messages of a port.                                     *)

\* b may not be seen before a.
Leads(a, b) == a.port = b.port /\ a.id < b.id /\ a.target <= b.target

Located(s, x) ==
  \/ \E t \in Row : \E k \in 1..Len(s.rows[t]) : s.rows[t][k] = x
  \/ \E k \in 1..Len(s.pending) : s.pending[k] = x

\* The order the ticks will keep.
Ordered(s) ==
  /\ \A t, u \in Row : \A k \in 1..Len(s.rows[t]), l \in 1..Len(s.rows[u]) :
       Leads(s.rows[t][k], s.rows[u][l]) => Sooner(t, k, u, l)
  /\ \A k \in 1..Len(s.pending) : \A u \in Row : \A l \in 1..Len(s.rows[u]) :
       ~ Leads(s.pending[k], s.rows[u][l])
  /\ \A k, l \in 1..Len(s.pending) :
       s.pending[k].port = s.pending[l].port /\ k < l => s.pending[k].id < s.pending[l].id

\* While a sub-block's messages are written, one that was not put where it belongs
\* found no room before the place it has.
Full(s, w) == ~ (Len(s.rows[w]) < RowSize)
Snug(s) ==
  /\ \A t \in Row : \A k \in 1..Len(s.rows[t]) : \A w \in Row :
       Offset(s.rows[t][k]) <= w /\ w < t => Full(s, w)
  /\ \A k \in 1..Len(s.pending) : \A w \in Row : Offset(s.pending[k]) <= w => Full(s, w)

\* e was received after what its port has in s.
Latest(s, e) == \A x : Located(s, x) /\ x.port = e.port => x.id < e.id

LEMMA OffsetsInOrder ==
  ASSUME NEW a \in Event, NEW b \in Event, a.target <= b.target, sample_counter \in Nat
  PROVE  Offset(a) <= Offset(b)
<1>1. a.target \in Nat /\ b.target \in Nat /\ SubBlock \in Nat \ {0}
  BY MidiAssumption DEF Event
<1>2. Offset(b) \in Nat BY OffsetFacts, <1>1 DEF Row
<1>3. CASE a.target < sample_counter BY <1>2, <1>3 DEF Offset
<1>4. CASE ~ (a.target < sample_counter)
  <2>1. ~ (b.target < sample_counter) BY <1>1, <1>4
  <2>2. PICK n \in Nat, k \in Nat, z \in Nat :
          n = a.target - sample_counter /\ k = b.target - sample_counter /\ z = SubBlock - 1
    BY <1>1, <1>4, <2>1
  <2>3. n <= k BY <1>1, <2>2
  <2>4. Offset(a) = Min({n, z}) /\ Offset(b) = Min({k, z}) BY <1>4, <2>1, <2>2 DEF Offset
  <2>5. Min({n, z}) <= n /\ Min({n, z}) <= z /\ Min({n, z}) \in {n, z} /\ Min({k, z}) \in {k, z}
    BY LesserOf
  <2>6. PICK i \in Nat, j \in Nat : i = Min({n, z}) /\ j = Min({k, z}) BY <2>5
  <2>7. i <= j BY <2>3, <2>5, <2>6
  <2> QED BY <2>4, <2>6, <2>7
<1> QED BY <1>3, <1>4

\* One more entry at the end.
Grows(v, w, e) ==
  /\ Len(w) \in Nat /\ Len(v) = Len(w) + 1 /\ v[Len(w) + 1] = e
  /\ \A k \in 1..Len(w) : k \in 1..Len(v) /\ v[k] = w[k]
  /\ \A k \in 1..Len(v) : k \in 1..Len(w) \/ k = Len(w) + 1
  /\ Len(w) + 1 \in 1..Len(v)

LEMMA AppendGrows ==
  ASSUME NEW w \in Seq(Event), NEW e \in Event
  PROVE  Grows(Append(w, e), w, e)
<1>1. PICK v : v = Append(w, e) OBVIOUS
<1>2. /\ Len(w) \in Nat /\ Len(v) = Len(w) + 1 /\ v[Len(w) + 1] = e
      /\ \A k \in 1..Len(w) : v[k] = w[k]
  BY <1>1, AppendProperties, LenProperties
<1>3. PICK n \in Nat : n = Len(w) BY <1>2
<1>4. /\ \A k \in 1..n : k \in 1..(n + 1)
      /\ \A k \in 1..(n + 1) : k \in 1..n \/ k = n + 1
      /\ n + 1 \in 1..(n + 1)
  OBVIOUS
<1> QED BY <1>1, <1>2, <1>3, <1>4 DEF Grows

\* What a write adds is last in its row, or in the carry-over, or counted as dropped.
Placed(x, s, e, t) ==
  /\ Grows(x.rows[t], s.rows[t], e)
  /\ \A u \in Row \ {t} : x.rows[u] = s.rows[u]
  /\ x.pending = s.pending /\ x.dropped = s.dropped

LEMMA WritePlaces ==
  ASSUME NEW s \in Scratches, NEW offset \in Int, NEW e \in Event, NEW x,
         x = Write(s, offset, e)
  PROVE  \/ \E t \in Row :
              /\ t >= offset /\ ~ Full(s, t) /\ Placed(x, s, e, t)
              /\ \A u \in Row : u >= offset /\ ~ Full(s, u) => t <= u
         \/ /\ \A u \in Row : u >= offset => Full(s, u)
            /\ x.rows = s.rows
            /\ \/ Grows(x.pending, s.pending, e) /\ x.dropped = s.dropped
               \/ x.pending = s.pending /\ x.dropped = s.dropped \cup {e.id}
<1>1. s \in [rows : [Row -> Seq(Event)], pending : Seq(Event), dropped : SUBSET Message]
  BY DEF Scratches
<1>2. ASSUME NEW t \in Row, x.rows = [s.rows EXCEPT ![t] = Append(@, e)],
             x.pending = s.pending, x.dropped = s.dropped
      PROVE  Placed(x, s, e, t)
  <2>1. x.rows[t] = Append(s.rows[t], e) /\ \A u \in Row \ {t} : x.rows[u] = s.rows[u]
    BY <1>1, <1>2
  <2>2. PICK q \in Seq(Event) : q = s.rows[t] BY <1>1
  <2>3. Grows(Append(q, e), q, e) BY AppendGrows
  <2> QED BY <1>2, <2>1, <2>2, <2>3 DEF Placed
<1>3. ASSUME x.pending = Append(s.pending, e) PROVE Grows(x.pending, s.pending, e)
  <2>1. PICK q \in Seq(Event) : q = s.pending BY <1>1
  <2>2. Grows(Append(q, e), q, e) BY AppendGrows
  <2> QED BY <1>3, <2>1, <2>2
<1>4. Adds(x, s, offset, e) BY WriteAdds
<1> QED BY <1>2, <1>3, <1>4 DEF Adds, Full

LEMMA WriteLocates ==
  ASSUME NEW s \in Scratches, NEW offset \in Int, NEW e \in Event, NEW x,
         x = Write(s, offset, e)
  PROVE  /\ \A y : Located(x, y) => Located(s, y) \/ y = e
         /\ \A y : Located(s, y) => Located(x, y)
         /\ Located(x, e) \/ e.id \in x.dropped
         /\ s.dropped \subseteq x.dropped
<1>1. CASE \E t \in Row : Placed(x, s, e, t)
  <2>1. PICK t \in Row : Placed(x, s, e, t) BY <1>1
  <2>2. ASSUME NEW y, NEW u \in Row, NEW k \in 1..Len(x.rows[u]), x.rows[u][k] = y
        PROVE  Located(s, y) \/ y = e
    <3>1. CASE u = t BY <2>1, <2>2, <3>1 DEF Placed, Grows, Located
    <3>2. CASE u # t BY <2>1, <2>2, <3>2 DEF Placed, Located
    <3> QED BY <3>1, <3>2
  <2>3. ASSUME NEW y, NEW u \in Row, NEW k \in 1..Len(s.rows[u]), s.rows[u][k] = y
        PROVE  Located(x, y)
    <3>1. CASE u = t BY <2>1, <2>3, <3>1 DEF Placed, Grows, Located
    <3>2. CASE u # t BY <2>1, <2>3, <3>2 DEF Placed, Located
    <3> QED BY <3>1, <3>2
  <2>4. Located(x, e) BY <2>1 DEF Placed, Grows, Located
  <2>5. x.pending = s.pending /\ x.dropped = s.dropped BY <2>1 DEF Placed
  <2>6. \A y : Located(x, y) => Located(s, y) \/ y = e BY <2>2, <2>5 DEF Located
  <2>7. \A y : Located(s, y) => Located(x, y) BY <2>3, <2>5 DEF Located
  <2> QED BY <2>4, <2>5, <2>6, <2>7
<1>2. CASE x.rows = s.rows /\ Grows(x.pending, s.pending, e) /\ x.dropped = s.dropped
  BY <1>2 DEF Grows, Located
<1>3. CASE x.rows = s.rows /\ x.pending = s.pending /\ x.dropped = s.dropped \cup {e.id}
  BY <1>3 DEF Located
<1> QED BY <1>1, <1>2, <1>3, WritePlaces

LEMMA WriteOrders ==
  ASSUME NEW s \in Scratches, NEW e \in Event, sample_counter \in Nat, NEW x,
         x = Write(s, Offset(e), e), Ordered(s), Snug(s), Latest(s, e)
  PROVE  Ordered(x) /\ Snug(x)
<1>1. /\ s \in [rows : [Row -> Seq(Event)], pending : Seq(Event), dropped : SUBSET Message]
      /\ Offset(e) \in Row /\ Offset(e) \in Int /\ e.id \in Nat
      /\ Row \subseteq Nat /\ RowSize \in Nat
  <2>1. s \in [rows : [Row -> Seq(Event)], pending : Seq(Event), dropped : SUBSET Message]
    BY DEF Scratches
  <2>2. Offset(e) \in Row /\ Offset(e) \in Int BY OffsetFacts
  <2>3. e.id \in Nat BY DEF Event, Message
  <2>4. Row \subseteq Nat /\ RowSize \in Nat BY MidiAssumption DEF Row
  <2> QED BY <2>1, <2>2, <2>3, <2>4
<1>2. /\ \A t \in Row : \A k \in 1..Len(s.rows[t]) :
           s.rows[t][k] \in Event /\ Located(s, s.rows[t][k])
      /\ \A k \in 1..Len(s.pending) : s.pending[k] \in Event /\ Located(s, s.pending[k])
  BY <1>1, ElementOfSeq DEF Located
<1>3. \A y \in Event : Offset(y) \in Row /\ (Leads(y, e) => Offset(y) <= Offset(e))
  BY OffsetFacts, OffsetsInOrder DEF Leads
<1>4. \A y \in Event : Located(s, y) => ~ Leads(e, y)
  <2>1. \A y \in Event : y.id \in Nat BY DEF Event, Message
  <2> QED BY <1>1, <2>1 DEF Latest, Leads
<1>5. ~ Leads(e, e) BY <1>1 DEF Leads
<1>6. CASE \E t \in Row : /\ t >= Offset(e) /\ ~ Full(s, t) /\ Placed(x, s, e, t)
                          /\ \A u \in Row : u >= Offset(e) /\ ~ Full(s, u) => t <= u
  <2>1. PICK t \in Row : /\ t >= Offset(e) /\ ~ Full(s, t) /\ Placed(x, s, e, t)
                         /\ \A u \in Row : u >= Offset(e) /\ ~ Full(s, u) => t <= u
    BY <1>6
  <2>2. PICK n \in Nat : n = Len(s.rows[t]) BY <2>1 DEF Placed, Grows
  <2>3. /\ x.rows[t][n + 1] = e
        /\ \A u \in Row, k \in Nat :
             k \in 1..Len(x.rows[u]) =>
               \/ u = t /\ k = n + 1
               \/ k \in 1..Len(s.rows[u]) /\ x.rows[u][k] = s.rows[u][k] /\ (u = t => k <= n)
    <3>1. Placed(x, s, e, t) BY <2>1
    <3>2. /\ x.rows[t][n + 1] = e /\ Len(x.rows[t]) = n + 1
          /\ \A k \in 1..n : x.rows[t][k] = s.rows[t][k]
          /\ \A u \in Row \ {t} : x.rows[u] = s.rows[u]
      BY <2>2, <3>1 DEF Placed, Grows
    <3>3. ASSUME NEW u \in Row, NEW k \in Nat, k \in 1..Len(x.rows[u])
          PROVE  \/ u = t /\ k = n + 1
                 \/ k \in 1..Len(s.rows[u]) /\ x.rows[u][k] = s.rows[u][k] /\ (u = t => k <= n)
      <4>1. CASE u = t
        <5>1. k = n + 1 \/ k \in 1..n BY <2>2, <3>2, <3>3, <4>1
        <5> QED BY <2>2, <3>2, <4>1, <5>1
      <4>2. CASE u # t BY <3>2, <3>3, <4>2
      <4> QED BY <4>1, <4>2
    <3> QED BY <3>2, <3>3
  <2>4. \A w \in Row : Full(s, w) => Full(x, w)
    BY <1>1, <2>1, <2>2 DEF Placed, Grows, Full
  <2>5. ASSUME NEW u \in Row, NEW k \in 1..Len(s.rows[u]), Leads(s.rows[u][k], e)
        PROVE  u <= t
    <3>1. Offset(s.rows[u][k]) <= Offset(e) /\ Offset(s.rows[u][k]) \in Nat
      BY <1>1, <1>2, <1>3, <2>5
    <3>2. Offset(s.rows[u][k]) <= t BY <1>1, <2>1, <3>1
    <3>3. ~ (t < u) BY <2>1, <3>2 DEF Snug
    <3> QED BY <1>1, <3>3
  <2>6. ASSUME NEW u \in Row, NEW v \in Row, NEW k \in 1..Len(x.rows[u]),
               NEW l \in 1..Len(x.rows[v]), Leads(x.rows[u][k], x.rows[v][l])
        PROVE  Sooner(u, k, v, l)
    <3>1. CASE u = t /\ k = n + 1
      <4>1. x.rows[u][k] = e BY <2>3, <3>1
      <4>2. \/ x.rows[v][l] = e
            \/ l \in 1..Len(s.rows[v]) /\ x.rows[v][l] = s.rows[v][l]
        BY <2>3
      <4> QED BY <1>2, <1>4, <1>5, <2>6, <4>1, <4>2
    <3>2. CASE /\ k \in 1..Len(s.rows[u]) /\ x.rows[u][k] = s.rows[u][k] /\ (u = t => k <= n)
               /\ v = t /\ l = n + 1
      <4>1. x.rows[v][l] = e BY <2>3, <3>2
      <4>2. u <= t BY <2>5, <2>6, <3>2, <4>1
      <4> QED BY <1>1, <2>2, <3>2, <4>2 DEF Sooner
    <3>3. CASE /\ k \in 1..Len(s.rows[u]) /\ x.rows[u][k] = s.rows[u][k]
               /\ l \in 1..Len(s.rows[v]) /\ x.rows[v][l] = s.rows[v][l]
      BY <2>6, <3>3 DEF Ordered
    <3> QED BY <2>3, <3>1, <3>2, <3>3
  <2>7. x.pending = s.pending BY <2>1 DEF Placed
  <2>8. ASSUME NEW k \in 1..Len(x.pending), NEW u \in Row, NEW l \in 1..Len(x.rows[u]),
               Leads(x.pending[k], x.rows[u][l])
        PROVE  FALSE
    <3>1. CASE u = t /\ l = n + 1
      <4>1. Leads(s.pending[k], e) /\ k \in 1..Len(s.pending) BY <2>3, <2>7, <2>8, <3>1
      <4>2. Offset(s.pending[k]) <= Offset(e) /\ Offset(s.pending[k]) \in Nat
        BY <1>1, <1>2, <1>3, <4>1
      <4>3. Offset(s.pending[k]) <= t BY <1>1, <2>1, <4>2
      <4> QED BY <2>1, <4>1, <4>3 DEF Snug
    <3>2. CASE l \in 1..Len(s.rows[u]) /\ x.rows[u][l] = s.rows[u][l]
      BY <2>7, <2>8, <3>2 DEF Ordered
    <3> QED BY <2>3, <3>1, <3>2
  <2>9. Ordered(x) BY <2>6, <2>7, <2>8 DEF Ordered
  <2>10. ASSUME NEW u \in Row, NEW k \in 1..Len(x.rows[u]), NEW w \in Row,
                Offset(x.rows[u][k]) <= w, w < u
         PROVE  Full(x, w)
    <3>1. CASE u = t /\ k = n + 1
      <4>1. Offset(e) <= w /\ w < t BY <2>3, <2>10, <3>1
      <4>2. ~ (t <= w) /\ w >= Offset(e) BY <1>1, <4>1
      <4> QED BY <2>1, <2>4, <4>2
    <3>2. CASE k \in 1..Len(s.rows[u]) /\ x.rows[u][k] = s.rows[u][k]
      BY <2>4, <2>10, <3>2 DEF Snug
    <3> QED BY <2>3, <3>1, <3>2
  <2>11. Snug(x) BY <2>4, <2>7, <2>10 DEF Snug
  <2> QED BY <2>9, <2>11
<1>7. CASE /\ \A u \in Row : u >= Offset(e) => Full(s, u)
           /\ x.rows = s.rows /\ Grows(x.pending, s.pending, e)
  <2>1. PICK n \in Nat : n = Len(s.pending) BY <1>7 DEF Grows
  <2>2. \A k \in 1..Len(x.pending) :
          \/ k = n + 1 /\ x.pending[k] = e
          \/ k \in 1..Len(s.pending) /\ x.pending[k] = s.pending[k]
    BY <1>7, <2>1 DEF Grows
  <2>3. ASSUME NEW k \in 1..Len(x.pending), NEW u \in Row, NEW l \in 1..Len(x.rows[u])
        PROVE  ~ Leads(x.pending[k], x.rows[u][l])
    BY <1>2, <1>4, <1>7, <2>2 DEF Ordered
  <2>4. ASSUME NEW k \in 1..Len(x.pending), NEW l \in 1..Len(x.pending),
               x.pending[k].port = x.pending[l].port, k < l
        PROVE  x.pending[k].id < x.pending[l].id
    <3>1. CASE l \in 1..Len(s.pending) /\ x.pending[l] = s.pending[l]
      <4>1. k # n + 1 BY <2>1, <2>4, <3>1
      <4> QED BY <2>2, <2>4, <3>1, <4>1 DEF Ordered
    <3>2. CASE l = n + 1 /\ x.pending[l] = e
      <4>1. k \in 1..Len(s.pending) /\ x.pending[k] = s.pending[k] BY <2>1, <2>2, <2>4, <3>2
      <4> QED BY <1>2, <2>4, <3>2, <4>1 DEF Latest
    <3> QED BY <2>2, <3>1, <3>2
  <2>5. Ordered(x) BY <1>7, <2>3, <2>4 DEF Ordered
  <2>6. \A w \in Row : Full(x, w) <=> Full(s, w) BY <1>7 DEF Full
  <2>7. \A w \in Row : Offset(e) <= w => Full(s, w) BY <1>1, <1>7
  <2>8. Snug(x) BY <1>7, <2>2, <2>6, <2>7 DEF Snug
  <2> QED BY <2>5, <2>8
<1>8. CASE x.rows = s.rows /\ x.pending = s.pending
  BY <1>8 DEF Ordered, Snug, Full
<1>9. \/ \E t \in Row : /\ t >= Offset(e) /\ ~ Full(s, t) /\ Placed(x, s, e, t)
                        /\ \A u \in Row : u >= Offset(e) /\ ~ Full(s, u) => t <= u
      \/ /\ \A u \in Row : u >= Offset(e) => Full(s, u)
         /\ x.rows = s.rows
         /\ \/ Grows(x.pending, s.pending, e) /\ x.dropped = s.dropped
            \/ x.pending = s.pending /\ x.dropped = s.dropped \cup {e.id}
  <2>1. PICK o \in Int : o = Offset(e) BY <1>1
  <2> QED BY <2>1, WritePlaces
<1> QED BY <1>6, <1>7, <1>8, <1>9

\* What is in x is what was in s and ev[1..n], less what was counted as dropped.
Gathers(x, s, ev, n) ==
  /\ \A y : Located(x, y) => Located(s, y) \/ \E k \in 1..n : y = ev[k]
  /\ \A y : Located(s, y) => Located(x, y)
  /\ \A k \in 1..n : Located(x, ev[k]) \/ ev[k].id \in x.dropped
  /\ s.dropped \subseteq x.dropped

\* Messages written in the order of their ports' numbers stay in order.
Rising(ev, n) == \A i, j \in 1..n : ev[i].port = ev[j].port /\ i < j => ev[i].id < ev[j].id

LEMMA WritesOrder ==
  ASSUME sample_counter \in Nat, NEW N \in Nat, NEW h \in [0..N -> Scratches],
         NEW ev \in [1..N -> Event], Ordered(h[0]), Snug(h[0]),
         \A n \in 1..N : h[n] = Write(h[n - 1], Offset(ev[n]), ev[n]),
         \A n \in 1..N : Latest(h[0], ev[n]), Rising(ev, N)
  PROVE  Ordered(h[N]) /\ Snug(h[N]) /\ Gathers(h[N], h[0], ev, N)
<1> DEFINE Good(n) == Ordered(h[n]) /\ Snug(h[n]) /\ Gathers(h[n], h[0], ev, n)
           G == {n \in 0..N : Good(n)}
<1>1. 0 \in G
  <2>1. Gathers(h[0], h[0], ev, 0)
    <3>1. \A k \in 1..0 : FALSE OBVIOUS
    <3> QED BY <3>1 DEF Gathers
  <2>2. Good(0) BY <2>1
  <2> HIDE DEF Good
  <2> QED BY <2>2
<1>2. ASSUME NEW n \in 1..N, n - 1 \in G PROVE n \in G
  <2>1. Good(n - 1) BY <1>2
  <2>2. PICK i \in 0..N : i = n - 1 OBVIOUS
  <2>3. PICK e : e = ev[n] OBVIOUS
  <2>4. PICK o : o = Offset(e) OBVIOUS
  <2>5. PICK s : s = h[i] OBVIOUS
  <2>6. PICK x : x = h[n] OBVIOUS
  <2>7. /\ e \in Event /\ o \in Int /\ s \in Scratches /\ x = Write(s, o, e)
        /\ x = Write(s, Offset(e), e)
    <3>1. e \in Event BY <2>3
    <3>2. o \in Int BY <2>4, <3>1, OffsetFacts
    <3> QED BY <2>2, <2>3, <2>4, <2>5, <2>6, <3>1, <3>2
  <2>8. Ordered(s) /\ Snug(s) /\ Gathers(s, h[0], ev, i) BY <2>1, <2>2, <2>5
  <2>9. /\ i \in Nat /\ \A k : k \in 1..n <=> k \in 1..i \/ k = n
        /\ \A k \in 1..i : k \in 1..N /\ k < n
    BY <2>2
  <2>10. Latest(s, e)
    <3>1. \A k \in 1..i : ev[k].port = e.port => ev[k].id < e.id BY <2>3, <2>9 DEF Rising
    <3>2. Latest(h[0], e) BY <2>3
    <3> QED BY <2>8, <3>1, <3>2 DEF Gathers, Latest
  <2>11. Ordered(x) /\ Snug(x) BY <2>7, <2>8, <2>10, WriteOrders
  <2>12. /\ \A y : Located(x, y) => Located(s, y) \/ y = e
         /\ \A y : Located(s, y) => Located(x, y)
         /\ Located(x, e) \/ e.id \in x.dropped
         /\ s.dropped \subseteq x.dropped
    BY <2>7, WriteLocates
  <2>13. \A k \in 1..n : Located(x, ev[k]) \/ ev[k].id \in x.dropped
    BY <2>3, <2>8, <2>9, <2>12 DEF Gathers
  <2>14. Gathers(x, h[0], ev, n) BY <2>3, <2>8, <2>9, <2>12, <2>13 DEF Gathers
  <2>15. Good(n) BY <2>6, <2>11, <2>14
  <2> HIDE DEF Good
  <2> QED BY <2>15
<1> HIDE DEF G, Good
<1>3. \A n \in 0..N : n \in G BY <1>1, <1>2, CountUp
<1>4. N \in G BY <1>3
<1> QED BY <1>4 DEF G, Good

LEMMA PreparedOrder ==
  ASSUME pending \in Seq(Event), dropped \in SUBSET Message, sample_counter \in Nat,
         \A k \in 1..Len(pending) : pending[k].target < sample_counter,
         Rising(pending, Len(pending))
  PROVE  /\ Ordered(Prepared) /\ Snug(Prepared)
         /\ Gathers(Prepared, Cleared, pending, Len(pending)) /\ \A y : ~ Located(Cleared, y)
<1> DEFINE N == Len(pending)
<1>1. PICK h \in [0..N -> Scratches] :
        /\ h[0] = Cleared /\ h[N] = Prepared
        /\ \A n \in 1..N : h[n] = Write(h[n - 1], 0, pending[n])
  BY PreparedSteps
<1>2. N \in Nat /\ pending \in [1..N -> Event] BY LenProperties
<1>3. \A n \in 1..N : Offset(pending[n]) = 0 BY DEF Offset
<1>4. \A y : ~ Located(Cleared, y)
  <2>1. Cleared.rows = [t \in Row |-> <<>>] /\ Cleared.pending = <<>> BY DEF Cleared
  <2> HIDE DEF Cleared
  <2>2. \A t \in Row : Len(Cleared.rows[t]) = 0 BY <2>1
  <2>3. \A k \in 1..0 : FALSE OBVIOUS
  <2>4. Len(Cleared.pending) = 0 BY <2>1
  <2> QED BY <2>2, <2>3, <2>4 DEF Located
<1>5. Ordered(Cleared) /\ Snug(Cleared)
  <2>1. \A t \in Row : \A k \in 1..Len(Cleared.rows[t]) : FALSE BY <1>4 DEF Located
  <2>2. \A k \in 1..Len(Cleared.pending) : FALSE BY <1>4 DEF Located
  <2> QED BY <2>1, <2>2 DEF Ordered, Snug
<1>6. \A n \in 1..N : Latest(Cleared, pending[n]) BY <1>4 DEF Latest
<1>7. Rising(pending, N) OBVIOUS
<1> HIDE DEF N
<1>8. Ordered(h[0]) /\ Snug(h[0]) /\ \A n \in 1..N : Latest(h[0], pending[n])
  BY <1>1, <1>5, <1>6
<1>9. \A n \in 1..N : h[n] = Write(h[n - 1], Offset(pending[n]), pending[n]) BY <1>1, <1>3
<1>10. Ordered(h[N]) /\ Snug(h[N]) /\ Gathers(h[N], h[0], pending, N)
  BY <1>2, <1>7, <1>8, <1>9, WritesOrder
<1> QED BY <1>1, <1>4, <1>10 DEF N

LEMMA DrainedOrder ==
  ASSUME Prepared \in Scratches, sample_counter \in Nat, Ordered(Prepared), Snug(Prepared),
         NEW w \in Seq(Queued), w = SubSeq(Waiting, 1, DrainCount),
         NEW ev \in [1..Len(w) -> Event], \A k \in 1..Len(w) : ev[k] = w[k].event,
         Rising(ev, Len(w)), \A k \in 1..Len(w) : Latest(Prepared, ev[k])
  PROVE  Ordered(Drained) /\ Gathers(Drained, Prepared, ev, Len(w))
<1> DEFINE N == Len(w)
<1>1. PICK h \in [0..N -> Scratches] :
        /\ h[0] = Prepared /\ h[N] = Drained
        /\ \A n \in 1..N : h[n] = Write(h[n - 1], Offset(w[n].event), w[n].event)
  BY DrainedSteps
<1>2. /\ N \in Nat /\ ev \in [1..N -> Event] /\ \A n \in 1..N : ev[n] = w[n].event
      /\ Rising(ev, N) /\ \A n \in 1..N : Latest(Prepared, ev[n])
  BY LenProperties
<1> HIDE DEF N
<1>3. Ordered(h[0]) /\ Snug(h[0]) /\ \A n \in 1..N : Latest(h[0], ev[n]) BY <1>1, <1>2
<1>4. \A n \in 1..N : h[n] = Write(h[n - 1], Offset(ev[n]), ev[n]) BY <1>1, <1>2
<1>5. Ordered(h[N]) /\ Snug(h[N]) /\ Gathers(h[N], h[0], ev, N)
  BY <1>2, <1>3, <1>4, WritesOrder
<1> QED BY <1>1, <1>5 DEF N

\* The messages in a queue w are in the order of their port, and behind those in s.
InLine(w) ==
  \A i, j \in 1..Len(w) :
    w[i].event.port = w[j].event.port /\ i < j => w[i].event.id < w[j].event.id
Behind(s, w) == \A j \in 1..Len(w) : Latest(s, w[j].event)

\* The message a port handles is the last it received.
Newest(s, w, p, m) ==
  /\ \A j \in 1..Len(w) : w[j].event.port = p => w[j].event.id < m
  /\ \A x : Located(s, x) /\ x.port = p => x.id < m

OrderInv ==
  /\ Ordered(Scr) /\ InLine(Waiting) /\ Behind(Scr, Waiting)
  /\ \A p \in Port : \A m \in Nat : Handling(p, m) => Newest(Scr, Waiting, p, m)
  /\ \A p \in Port : port[p].pc = "push" => port[p].event.port = p

\* A turn of the loop keeps the order, and every message in the scratch or in the queue.
Follows(s, w) ==
  /\ Ordered(s) /\ InLine(w) /\ Behind(s, w)
  /\ \A x : Located(s, x) =>
       Located(Scr, x) \/ \E k \in 1..Len(Waiting) : x = Waiting[k].event
  /\ \A x : Located(Scr, x) => Located(s, x) \/ x.id \in s.dropped
  /\ \A i \in 1..Len(w) : \E k \in 1..Len(Waiting) : w[i] = Waiting[k]
  /\ \A k \in 1..Len(Waiting) :
       \/ Located(s, Waiting[k].event) \/ Waiting[k].event.id \in s.dropped
       \/ \E i \in 1..Len(w) : w[i] = Waiting[k]

LEMMA DrainFollows ==
  ASSUME FiledInv, OrderInv, sample_counter \in Nat, until_next = SubBlock
  PROVE  Follows(Drained, Left)
<1>1. TypeInv /\ Alone(Scr) /\ Punctual(Scr, Horizon) BY DEF FiledInv, RowsInv, PlaceInv
<1>2. pending \in Seq(Event) /\ dropped \in SUBSET Message BY <1>1 DEF TypeInv, TypeOK
<1>3. Prepared \in Scratches BY <1>1, <1>2, PreparedFacts
<1>4. Scr.rows = rows /\ Scr.pending = pending /\ Scr.dropped = dropped BY DEF Scr
<1>5. Rising(pending, Len(pending)) BY <1>4 DEF OrderInv, Ordered, Rising
<1>6. \A k \in 1..Len(pending) : pending[k].target < sample_counter
  <2>1. Horizon = sample_counter BY DEF Horizon
  <2> QED BY <1>1, <1>4, <2>1 DEF Punctual
<1>7. /\ Ordered(Prepared) /\ Snug(Prepared)
      /\ Gathers(Prepared, Cleared, pending, Len(pending)) /\ \A y : ~ Located(Cleared, y)
  BY <1>2, <1>5, <1>6, PreparedOrder
<1>8. \A x : Located(Scr, x) <=> \E k \in 1..Len(pending) : pending[k] = x
  <2>1. \A t \in Row : rows[t] = <<>> BY DEF FiledInv, RowsInv
  <2>2. \A t \in Row : Len(Scr.rows[t]) = 0 BY <1>4, <2>1
  <2>3. \A k \in 1..0 : FALSE OBVIOUS
  <2> QED BY <1>4, <2>2, <2>3 DEF Located
<1>9. /\ \A x : Located(Prepared, x) => Located(Scr, x)
      /\ \A x : Located(Scr, x) => Located(Prepared, x) \/ x.id \in Prepared.dropped
  BY <1>7, <1>8 DEF Gathers
<1> DEFINE n == DrainCount
           W == Waiting
<1>10. W \in Seq(Queued) /\ Len(W) \in Nat /\ n \in 0..Len(W)
  BY <1>1, WaitingTyped, DrainTakes
<1>11. /\ InLine(W) /\ Behind(Scr, W)
  BY DEF OrderInv
<1>12. PICK w : w = SubSeq(Waiting, 1, DrainCount) OBVIOUS
<1>13. PICK v : v = SubSeq(Waiting, DrainCount + 1, Len(Waiting)) OBVIOUS
<1>14. /\ w \in Seq(Queued) /\ Len(w) = n
       /\ \A i \in 1..n : i \in 1..Len(W) /\ w[i] = W[i]
  BY <1>10, <1>12, HeadEntries
<1>15. /\ Len(v) = Len(W) - n
       /\ \A i \in 1..Len(v) : n + i \in 1..Len(W) /\ v[i] = W[n + i]
  BY <1>10, <1>13, TailEntries
<1>16. Left = v BY <1>13 DEF Left
<1> HIDE DEF W, n
<1>17. n \in Nat /\ \A i \in 1..n : w[i].event \in Event
  <2>1. \A i \in 1..Len(w) : w[i] \in Queued BY <1>14, ElementOfSeq
  <2> QED BY <1>10, <1>14, <2>1 DEF Queued
<1>18. PICK ev : ev = [i \in 1..n |-> w[i].event] OBVIOUS
<1>19. /\ ev \in [1..Len(w) -> Event]
       /\ \A k \in 1..Len(w) : ev[k] = w[k].event /\ ev[k] = W[k].event
  BY <1>14, <1>17, <1>18
<1>20. Rising(ev, Len(w)) BY <1>11, <1>14, <1>19 DEF InLine, Rising
<1>21. \A k \in 1..Len(w) : Latest(Prepared, ev[k])
  BY <1>9, <1>11, <1>14, <1>19 DEF Behind, Latest
<1>22. Ordered(Drained) /\ Gathers(Drained, Prepared, ev, Len(w))
  BY <1>3, <1>7, <1>12, <1>14, <1>19, <1>20, <1>21, DrainedOrder
<1>23. InLine(v)
  <2> SUFFICES ASSUME NEW i \in 1..Len(v), NEW j \in 1..Len(v),
                      v[i].event.port = v[j].event.port, i < j
               PROVE  v[i].event.id < v[j].event.id
    BY DEF InLine
  <2>1. n + i < n + j BY <1>10, <1>15, <1>17
  <2> QED BY <1>11, <1>15, <2>1 DEF InLine
<1>24. Behind(Drained, v)
  <2> SUFFICES ASSUME NEW i \in 1..Len(v), NEW x, Located(Drained, x), x.port = v[i].event.port
               PROVE  x.id < v[i].event.id
    BY DEF Behind, Latest
  <2>1. v[i] = W[n + i] /\ n + i \in 1..Len(W) BY <1>15
  <2>2. CASE Located(Scr, x) BY <1>11, <2>1, <2>2 DEF Behind, Latest
  <2>3. CASE \E k \in 1..Len(w) : x = ev[k]
    <3>1. PICK k \in 1..Len(w) : x = ev[k] BY <2>3
    <3>2. k \in 1..Len(W) /\ x = W[k].event BY <1>14, <1>19, <3>1
    <3>3. k < n + i BY <1>14, <1>15, <1>17
    <3> QED BY <1>11, <2>1, <3>2, <3>3 DEF InLine
  <2> QED BY <1>9, <1>22, <2>2, <2>3 DEF Gathers
<1>25. \A k \in 1..Len(W) : \/ Located(Drained, W[k].event) \/ W[k].event.id \in Drained.dropped
                            \/ \E i \in 1..Len(v) : v[i] = W[k]
  <2> SUFFICES ASSUME NEW k \in 1..Len(W)
               PROVE  \/ Located(Drained, W[k].event) \/ W[k].event.id \in Drained.dropped
                      \/ \E i \in 1..Len(v) : v[i] = W[k]
    OBVIOUS
  <2>1. CASE k <= n
    <3>1. k \in 1..Len(w) BY <1>14, <1>17, <2>1
    <3> QED BY <1>19, <1>22, <3>1 DEF Gathers
  <2>2. CASE ~ (k <= n)
    <3>1. k - n \in 1..Len(v) /\ n + (k - n) = k BY <1>10, <1>15, <1>17, <2>2
    <3> QED BY <1>15, <3>1
  <2> QED BY <2>1, <2>2
<1>26. \A x : Located(Drained, x) => Located(Scr, x) \/ \E k \in 1..Len(W) : x = W[k].event
  BY <1>9, <1>14, <1>19, <1>22 DEF Gathers
<1>27. \A x : Located(Scr, x) => Located(Drained, x) \/ x.id \in Drained.dropped
  BY <1>9, <1>22 DEF Gathers
<1>28. \A i \in 1..Len(v) : \E k \in 1..Len(W) : v[i] = W[k] BY <1>15
<1> QED BY <1>16, <1>22, <1>23, <1>24, <1>25, <1>26, <1>27, <1>28 DEF Follows, W

LEMMA ScratchFollows ==
  ASSUME FiledInv, TimeInv, OrderInv
  PROVE  Follows(Scratch, Left)
<1>1. sample_counter \in Nat BY DEF TimeInv
<1>2. CASE until_next = SubBlock
  <2>1. Scratch = Drained BY <1>2 DEF Scratch
  <2> QED BY <1>1, <1>2, <2>1, DrainFollows
<1>3. CASE until_next # SubBlock
  <2>1. Scratch = Scr /\ Left = Waiting BY <1>3 DEF Scratch, Scr, Left
  <2>2. Follows(Scr, Waiting) BY DEF OrderInv, Follows
  <2> QED BY <2>1, <2>2
<1> QED BY <1>2, <1>3

\* The scratch and the queue hold messages that were in either, in order.
LEMMA OrderMoves ==
  ASSUME OrderInv, NEW s, NEW w, s = Scr', w = Waiting', UNCHANGED port,
         Ordered(s), InLine(w), Behind(s, w),
         \A x : Located(s, x) =>
           Located(Scr, x) \/ \E k \in 1..Len(Waiting) : x = Waiting[k].event,
         \A i \in 1..Len(w) : \E k \in 1..Len(Waiting) : w[i] = Waiting[k]
  PROVE  OrderInv'
<1>1. Ordered(Scr') /\ InLine(Waiting') /\ Behind(Scr', Waiting') OBVIOUS
<1>2. ASSUME NEW p \in Port, NEW m \in Nat, Handling(p, m)'
      PROVE  Newest(Scr', Waiting', p, m)
  <2>1. Handling(p, m) BY <1>2 DEF Handling
  <2>2. Newest(Scr, Waiting, p, m) BY <2>1 DEF OrderInv
  <2>3. Newest(s, w, p, m) BY <2>2 DEF Newest
  <2> QED BY <2>3
<1>3. \A p \in Port : port'[p].pc = "push" => port'[p].event.port = p BY DEF OrderInv
<1> QED BY <1>1, <1>2, <1>3 DEF OrderInv

LEMMA CutOrder ==
  ASSUME NEW s \in Scratches, Ordered(s), NEW z, z = Cut(s)
  PROVE  Ordered(z) /\ \A x : Located(z, x) => Located(s, x)
<1>1. /\ z.rows \in [Row -> Seq(Event)] /\ z.pending = s.pending /\ z.dropped = s.dropped
      /\ \A t \in Row : \A k \in 1..Len(z.rows[t]) :
           z.rows[t] = s.rows[t] /\ k \in 1..Len(s.rows[t])
  BY CutRows
<1>2. Ordered(z) BY <1>1 DEF Ordered
<1>3. \A x : Located(z, x) => Located(s, x) BY <1>1 DEF Located
<1> QED BY <1>2, <1>3

LEMMA ChunkOrder ==
  ASSUME FiledInv, TimeInv, OrderInv, Chunk
  PROVE  OrderInv'
<1>1. PICK s, w : s = Scratch /\ w = Left OBVIOUS
<1>2. s \in Scratches BY <1>1, ScratchFacts
<1>3. Follows(s, w) BY <1>1, ScratchFollows
<1>4. PICK z : z = Cut(s) OBVIOUS
<1>5. Ordered(z) /\ \A x : Located(z, x) => Located(s, x)
  BY <1>2, <1>3, <1>4, CutOrder DEF Follows
<1>6. z = Scr' /\ w = Waiting' BY <1>1, <1>4, ChunkMoves
<1>7. InLine(w) /\ Behind(z, w) BY <1>3, <1>5 DEF Follows, Behind, Latest
<1>8. UNCHANGED port BY DEF Chunk
<1>9. \A x : Located(z, x) =>
        Located(Scr, x) \/ \E k \in 1..Len(Waiting) : x = Waiting[k].event
  BY <1>3, <1>5 DEF Follows
<1>10. \A i \in 1..Len(w) : \E k \in 1..Len(Waiting) : w[i] = Waiting[k] BY <1>3 DEF Follows
<1> QED BY <1>5, <1>6, <1>7, <1>8, <1>9, <1>10, OrderMoves

LEMMA AsideOrder ==
  ASSUME OrderInv, UNCHANGED <<port, queue, peeked, rows, pending, dropped>>
  PROVE  OrderInv'
<1>1. PICK s, w : s = Scr /\ w = Waiting OBVIOUS
<1>2. s = Scr' /\ w = Waiting' BY <1>1 DEF Scr, Waiting
<1>3. Ordered(s) /\ InLine(w) /\ Behind(s, w) BY <1>1 DEF OrderInv
<1> QED BY <1>1, <1>2, <1>3, OrderMoves

LEMMA ReceiveOrder ==
  ASSUME FiledInv, OrderInv, NEW p \in Port, Receive(p)
  PROVE  OrderInv'
<1>1. Scr' = Scr /\ Waiting' = Waiting
  BY DEF Receive, queueVars, scratchVars, Scr, Waiting
<1>2. /\ received' = received + 1 /\ received \in Nat
      /\ port[p] = Idle /\ port \in [Port -> PortStates]
  BY DEF Receive, FiledInv, TypeInv, TypeOK
<1>3. PICK r \in Nat : r = received + 1 BY <1>2
<1>4. port' = [port EXCEPT ![p] = [pc |-> "clock", id |-> r, at |-> now]]
  BY <1>2, <1>3 DEF Receive
<1>5. port'[p] = [pc |-> "clock", id |-> r, at |-> now] /\ \A q \in Port : q # p => port'[q] = port[q]
  BY <1>2, <1>4
<1>6. ASSUME NEW m \in Nat, Waits(m) \/ Has(Scr, m) PROVE m < r
  <2>1. m \in 1..received BY <1>6 DEF FiledInv, PlaceInv
  <2> QED BY <1>2, <1>3, <2>1
<1>7. \A j \in 1..Len(Waiting) : Waiting[j].event.id < r
  BY <1>6, WaitingTyped DEF FiledInv, Waits
<1>8. \A x : Located(Scr, x) => x.id < r
  <2> SUFFICES ASSUME NEW x, Located(Scr, x) PROVE x.id < r OBVIOUS
  <2>1. Scr \in [rows : [Row -> Seq(Event)], pending : Seq(Event), dropped : SUBSET Message]
    BY ScrTyped DEF FiledInv, Scratches
  <2>2. x \in Event BY <2>1, ElementOfSeq DEF Located
  <2>3. x.id \in Nat BY <2>2 DEF Event, Message
  <2>4. Has(Scr, x.id) BY DEF Located, Has, InRow, Carried
  <2> QED BY <1>6, <2>3, <2>4
<1>9. ASSUME NEW q \in Port, NEW m \in Nat, Handling(q, m)'
      PROVE  Newest(Scr', Waiting', q, m)
  <2>1. CASE q = p
    <3>1. m = r BY <1>5, <1>9, <2>1 DEF Handling
    <3>2. Newest(Scr, Waiting, q, m) BY <1>7, <1>8, <3>1 DEF Newest
    <3> QED BY <1>1, <3>2
  <2>2. CASE q # p
    <3>1. Handling(q, m) BY <1>5, <1>9, <2>2 DEF Handling
    <3>2. Newest(Scr, Waiting, q, m) BY <3>1 DEF OrderInv
    <3> QED BY <1>1, <3>2
  <2> QED BY <2>1, <2>2
<1>10. ASSUME NEW q \in Port, port'[q].pc = "push" PROVE port'[q].event.port = q
  <2>1. q # p BY <1>5, <1>10
  <2> QED BY <1>5, <1>10, <2>1 DEF OrderInv
<1>11. Ordered(Scr') /\ InLine(Waiting') /\ Behind(Scr', Waiting') BY <1>1 DEF OrderInv
<1> QED BY <1>9, <1>10, <1>11 DEF OrderInv

LEMMA ReadOrder ==
  ASSUME FiledInv, OrderInv, NEW p \in Port, ReadClock(p)
  PROVE  OrderInv'
<1>1. Scr' = Scr /\ Waiting' = Waiting
  BY DEF ReadClock, queueVars, scratchVars, Scr, Waiting
<1>2. /\ port[p].pc = "clock" /\ port \in [Port -> PortStates]
      /\ port' = [port EXCEPT ![p] = [pc |-> "push", event |->
                    [id |-> port[p].id, port |-> p, target |-> Stamp(clock, port[p].at)]]]
  BY DEF ReadClock, FiledInv, TypeInv
<1>3. PICK g : g = Stamp(clock, port[p].at) OBVIOUS
<1>4. /\ port'[p] = [pc |-> "push", event |-> [id |-> port[p].id, port |-> p, target |-> g]]
      /\ \A q \in Port : q # p => port'[q] = port[q]
  BY <1>2, <1>3
<1>5. ASSUME NEW q \in Port, NEW m \in Nat, Handling(q, m)'
      PROVE  Newest(Scr', Waiting', q, m)
  <2>1. Handling(q, m)
    <3>1. CASE q = p BY <1>2, <1>4, <1>5, <3>1 DEF Handling
    <3>2. CASE q # p BY <1>4, <1>5, <3>2 DEF Handling
    <3> QED BY <3>1, <3>2
  <2>2. Newest(Scr, Waiting, q, m) BY <2>1 DEF OrderInv
  <2> QED BY <1>1, <2>2
<1>6. ASSUME NEW q \in Port, port'[q].pc = "push" PROVE port'[q].event.port = q
  <2>1. CASE q = p BY <1>4, <2>1
  <2>2. CASE q # p BY <1>4, <1>6, <2>2 DEF OrderInv
  <2> QED BY <2>1, <2>2
<1>7. Ordered(Scr') /\ InLine(Waiting') /\ Behind(Scr', Waiting') BY <1>1 DEF OrderInv
<1> QED BY <1>5, <1>6, <1>7 DEF OrderInv

LEMMA PushOrder ==
  ASSUME FiledInv, OrderInv, NEW p \in Port, Push(p)
  PROVE  OrderInv'
<1>1. PICK s, w : s = Scr /\ w = Waiting OBVIOUS
<1>2. Scr' = s /\ peeked' = peeked BY <1>1 DEF Push, scratchVars, Scr
<1>3. PICK e : e = port[p].event OBVIOUS
<1>4. PICK n : n = port[p].event.id OBVIOUS
<1>5. /\ n \in Nat /\ e \in Event /\ e.id = n
      /\ \A q \in Port : \A m : Handling(q, m)' <=> q # p /\ Handling(q, m)
  BY <1>3, <1>4, PushHandles
<1>6. port[p].pc = "push" /\ port \in [Port -> PortStates] /\ port' = [port EXCEPT ![p] = Idle]
  BY DEF Push, FiledInv, TypeInv
<1>7. e.port = p /\ Newest(s, w, p, n)
  <2>1. Handling(p, n) BY <1>4, <1>6 DEF Handling
  <2> QED BY <1>1, <1>3, <1>5, <1>6, <2>1 DEF OrderInv
<1>8. Ordered(s) /\ InLine(w) /\ Behind(s, w) BY <1>1 DEF OrderInv
<1>9. ASSUME NEW q \in Port, NEW m \in Nat, Handling(q, m)' PROVE q # p /\ Newest(s, w, q, m)
  BY <1>1, <1>5, <1>9 DEF OrderInv
<1>10. ASSUME NEW q \in Port, port'[q].pc = "push" PROVE port'[q].event.port = q
  <2>1. q # p BY <1>6, <1>10 DEF Idle
  <2> QED BY <1>6, <1>10, <2>1 DEF OrderInv
<1>11. CASE queue' = queue
  <2>1. Waiting' = w BY <1>1, <1>2, <1>11 DEF Waiting
  <2>2. Ordered(Scr') /\ InLine(Waiting') /\ Behind(Scr', Waiting') BY <1>2, <1>8, <2>1
  <2>3. \A q \in Port : \A m \in Nat : Handling(q, m)' => Newest(Scr', Waiting', q, m)
    BY <1>2, <1>9, <2>1
  <2> QED BY <1>10, <2>2, <2>3 DEF OrderInv
<1>12. CASE queue' = Append(queue, [event |-> port[p].event, pushed |-> now])
  <2>1. PICK x : x = [event |-> e, pushed |-> now] OBVIOUS
  <2>2. x \in Queued /\ x.event = e BY <1>5, <2>1 DEF FiledInv, TypeInv, TypeOK, Queued
  <2>3. w \in Seq(Queued) BY <1>1, WaitingTyped DEF FiledInv
  <2>4. peeked \in Seq(Queued) /\ queue \in Seq(Queued) BY DEF FiledInv, TypeInv, TypeOK
  <2>5. Waiting' = Append(w, x) BY <1>1, <1>2, <1>3, <1>12, <2>1, <2>2, <2>4, PushAppends
  <2>6. PICK v : v = Append(w, x) OBVIOUS
  <2>7. PICK k \in Nat : k = Len(w) BY <2>3, LenProperties
  <2>8. Len(v) = k + 1 /\ v[k + 1] = x /\ \A i \in 1..k : v[i] = w[i]
    BY <2>2, <2>3, <2>6, <2>7, AppendProperties
  <2>9. \A i \in 1..(k + 1) : i \in 1..k \/ i = k + 1 BY <2>7
  <2>10. InLine(v)
    <3> SUFFICES ASSUME NEW i \in 1..(k + 1), NEW j \in 1..(k + 1),
                        v[i].event.port = v[j].event.port, i < j
                 PROVE  v[i].event.id < v[j].event.id
      BY <2>8 DEF InLine
    <3>1. i \in 1..k BY <2>7
    <3>2. CASE j \in 1..k BY <1>8, <2>7, <2>8, <3>1, <3>2 DEF InLine
    <3>3. CASE j = k + 1
      <4>1. v[i] = w[i] /\ v[j].event = e BY <2>2, <2>8, <3>1, <3>3
      <4> QED BY <1>5, <1>7, <2>7, <3>1, <4>1 DEF Newest
    <3> QED BY <2>9, <3>2, <3>3
  <2>11. Behind(s, v)
    <3> SUFFICES ASSUME NEW j \in 1..(k + 1) PROVE Latest(s, v[j].event) BY <2>8 DEF Behind
    <3>1. CASE j \in 1..k BY <1>8, <2>7, <2>8, <3>1 DEF Behind
    <3>2. CASE j = k + 1
      <4>1. v[j].event = e BY <2>2, <2>8, <3>2
      <4>2. Latest(s, e) BY <1>5, <1>7 DEF Newest, Latest
      <4> QED BY <4>1, <4>2
    <3> QED BY <2>9, <3>1, <3>2
  <2>12. ASSUME NEW q \in Port, NEW m \in Nat, Handling(q, m)' PROVE Newest(s, v, q, m)
    <3>1. q # p /\ Newest(s, w, q, m) BY <1>9, <2>12
    <3>2. ASSUME NEW j \in 1..(k + 1), v[j].event.port = q PROVE v[j].event.id < m
      <4>1. j # k + 1 BY <1>7, <2>2, <2>8, <3>1, <3>2
      <4>2. j \in 1..k BY <2>9, <4>1
      <4> QED BY <2>7, <2>8, <3>1, <3>2, <4>2 DEF Newest
    <3> QED BY <2>8, <3>1, <3>2 DEF Newest
  <2>13. Ordered(Scr') /\ InLine(Waiting') /\ Behind(Scr', Waiting')
    BY <1>2, <1>8, <2>5, <2>6, <2>10, <2>11
  <2>14. \A q \in Port : \A m \in Nat : Handling(q, m)' => Newest(Scr', Waiting', q, m)
    BY <1>2, <2>5, <2>6, <2>12
  <2> QED BY <1>10, <2>13, <2>14 DEF OrderInv
<1> QED BY <1>11, <1>12 DEF Push

LEMMA OrderInit == Init => OrderInv
<1> SUFFICES ASSUME Init PROVE OrderInv OBVIOUS
<1>1. Len(<<>>) = 0 /\ <<>> \o <<>> = <<>> /\ \A i \in 1..0 : FALSE BY ConcatEmptySeq
<1>2. (\A t \in Row : Len(Scr.rows[t]) = 0) /\ Len(Scr.pending) = 0 BY <1>1 DEF Init, Scr
<1>3. \A x : ~ Located(Scr, x) BY <1>1, <1>2 DEF Located
<1>4. Ordered(Scr) BY <1>1, <1>2 DEF Ordered
<1>5. Len(Waiting) = 0 BY <1>1 DEF Waiting, Init
<1>6. InLine(Waiting) /\ Behind(Scr, Waiting) BY <1>1, <1>5 DEF InLine, Behind
<1>7. \A p \in Port : /\ port[p].pc # "push"
                      /\ \A m : ~ Handling(p, m)
  BY DEF Init, Idle, Handling
<1> QED BY <1>4, <1>6, <1>7 DEF OrderInv

LEMMA OrderStep == MidiInv /\ FiledInv /\ OrderInv /\ [Next]_vars => OrderInv'
<1> SUFFICES ASSUME MidiInv, FiledInv, OrderInv, [Next]_vars PROVE OrderInv' OBVIOUS
<1>1. TimeInv BY DEF MidiInv
<1>2. ASSUME NEW p \in Port, Receive(p) PROVE OrderInv' BY <1>2, ReceiveOrder
<1>3. ASSUME NEW p \in Port, ReadClock(p) PROVE OrderInv' BY <1>3, ReadOrder
<1>4. ASSUME NEW p \in Port, Push(p) PROVE OrderInv' BY <1>4, PushOrder
<1>5. CASE Time \/ BeginCallback \/ EndCallback \/ UNCHANGED vars
  <2>1. UNCHANGED <<port, queue, peeked, rows, pending, dropped>>
    BY <1>5 DEF Time, BeginCallback, EndCallback, vars, queueVars, scratchVars
  <2> QED BY <2>1, AsideOrder
<1>6. CASE Chunk BY <1>1, <1>6, ChunkOrder
<1> QED BY <1>2, <1>3, <1>4, <1>5, <1>6 DEF Next, Handle, Callback

\* A message that is to come and is not counted as dropped is still in the scratch
\* when the ticks take its rows, or in the queue.
LEMMA StaysInSight ==
  ASSUME FiledInv, OrderInv, NEW s, Follows(s, Left), NEW e \in ToCome, e.id \notin s.dropped
  PROVE  Located(s, e) \/ \E i \in 1..Len(Left) : e = Left[i].event
<1>1. Waiting \in Seq(Queued) /\ DOMAIN Waiting = 1..Len(Waiting)
  BY WaitingTyped, LenProperties DEF FiledInv
<1>2. Scr \in Scratches /\ Scr.rows = rows /\ Scr.pending = pending
  BY ScrTyped DEF FiledInv
<1>3. rows \in [Row -> Seq(Event)] /\ pending \in Seq(Event) BY DEF FiledInv, TypeInv, TypeOK
<1>4. DOMAIN pending = 1..Len(pending) /\ \A t \in Row : DOMAIN rows[t] = 1..Len(rows[t])
  <2>1. ASSUME NEW q \in Seq(Event) PROVE DOMAIN q = 1..Len(q) BY LenProperties
  <2> QED BY <1>3, <2>1
<1>5. Located(Scr, e) \/ \E k \in 1..Len(Waiting) : e = Waiting[k].event
  BY <1>1, <1>2, <1>4 DEF ToCome, Located
<1> QED BY <1>5 DEF Follows

LEMMA NoneOvertakes ==
  ASSUME FiledInv, TimeInv, OrderInv, [Next]_vars, seen' # seen
  PROVE  LET out == Output
         IN  \A i \in DOMAIN out : \A e \in ToCome \ {out[k].event : k \in 1..i} :
               /\ e.port = out[i].event.port /\ e.id < out[i].event.id
               /\ e.id \notin dropped'
               => out[i].event.target < e.target
<1>1. Chunk
  <2>1. UNCHANGED seen \/ Chunk
    BY DEF Next, Time, Handle, Callback, Receive, ReadClock, Push, BeginCallback, EndCallback,
           scratchVars, vars
  <2> QED BY <2>1
<1>2. remaining > 0 /\ dropped' = Scratch.dropped BY <1>1 DEF Chunk
<1>3. PICK s : s = Scratch OBVIOUS
<1>4. /\ s \in Scratches /\ Follows(s, Left)
      /\ \A t \in Row : t < NextRow => s.rows[t] = <<>>
  BY <1>3, ScratchFacts, ScratchFollows
<1>5. PICK table : table = s.rows OBVIOUS
<1>6. table \in [Row -> Seq(Event)] BY <1>4, <1>5 DEF Scratches
<1>7. PICK out : out = Taken(table) OBVIOUS
<1>8. out \in Seq([event : Event, sample : Nat]) /\ TakesRows(out, table)
  BY <1>2, <1>6, <1>7, TakenFacts
<1>9. Output = out BY <1>3, <1>5, <1>7 DEF Output
<1>10. DOMAIN out = 1..Len(out) BY <1>8, LenProperties
<1>11. /\ Ticks \in Nat \ {0} /\ NextRow \in Nat /\ TakenRows \subseteq Row /\ Row \subseteq Nat
  BY <1>2, TicksFacts DEF Row
<1>12. ASSUME NEW i \in 1..Len(out), NEW e \in ToCome, e \notin {out[k].event : k \in 1..i},
              e.port = out[i].event.port, e.id < out[i].event.id, e.id \notin s.dropped
       PROVE  out[i].event.target < e.target
  <2>1. PICK t \in TakenRows : \E j \in 1..Len(table[t]) :
          /\ out[i] = [event |-> table[t][j], sample |-> sample_counter + t]
          /\ \A u \in TakenRows : \A l \in 1..Len(table[u]) :
               Sooner(u, l, t, j) => \E k \in 1..i : out[k].event = table[u][l]
    BY <1>8 DEF TakesRows
  <2>2. PICK j \in 1..Len(table[t]) :
          /\ out[i] = [event |-> table[t][j], sample |-> sample_counter + t]
          /\ \A u \in TakenRows : \A l \in 1..Len(table[u]) :
               Sooner(u, l, t, j) => \E k \in 1..i : out[k].event = table[u][l]
    BY <2>1
  <2>3. PICK a : a = table[t][j] OBVIOUS
  <2>4. out[i].event = a /\ t \in Row /\ Located(s, a) /\ a \in Event
    BY <1>5, <1>6, <1>11, <2>2, <2>3, ElementOfSeq DEF Located
  <2>5. Located(s, e) \/ \E k \in 1..Len(Left) : e = Left[k].event
    BY <1>4, <1>12, StaysInSight
  <2>6. ~ \E k \in 1..Len(Left) : e = Left[k].event
    <3> SUFFICES ASSUME NEW k \in 1..Len(Left), e = Left[k].event PROVE FALSE OBVIOUS
    <3>1. Latest(s, e) BY <1>4 DEF Follows, Behind
    <3>2. a.id < e.id BY <1>12, <2>4, <3>1 DEF Latest
    <3>3. e.id < a.id /\ a.id \in Nat BY <1>12, <2>4 DEF Event, Message
    <3>4. e \in Event
      <4>1. PICK m \in 1..Len(Waiting) : Left[k] = Waiting[m] BY <1>4 DEF Follows
      <4> QED BY <4>1, WaitingTyped DEF FiledInv
    <3> QED BY <3>2, <3>3, <3>4 DEF Event, Message
  <2>7. Located(s, e) BY <2>5, <2>6
  <2>8. e \in Event
    <3>1. s \in [rows : [Row -> Seq(Event)], pending : Seq(Event), dropped : SUBSET Message]
      BY <1>4 DEF Scratches
    <3> QED BY <2>7, <3>1, ElementOfSeq DEF Located
  <2>9. e.target \in Nat /\ a.target \in Nat BY <2>4, <2>8 DEF Event
  <2> SUFFICES ASSUME ~ (a.target < e.target) PROVE FALSE BY <2>4
  <2>10. Leads(e, a) BY <1>12, <2>4, <2>9 DEF Leads
  <2>11. Ordered(s) BY <1>4 DEF Follows
  <2>12. ~ \E k \in 1..Len(s.pending) : s.pending[k] = e
    BY <1>5, <2>2, <2>3, <2>4, <2>10, <2>11 DEF Ordered
  <2>13. PICK u \in Row : \E l \in 1..Len(s.rows[u]) : s.rows[u][l] = e
    BY <2>7, <2>12 DEF Located
  <2>14. PICK l \in 1..Len(table[u]) : table[u][l] = e BY <1>5, <2>13
  <2>15. Sooner(u, l, t, j)
    BY <1>5, <2>3, <2>4, <2>10, <2>11, <2>14 DEF Ordered
  <2>16. u \in TakenRows
    <3>1. ~ (u < NextRow)
      <4>1. \A k \in 1..Len(<<>>) : FALSE OBVIOUS
      <4> QED BY <1>4, <1>5, <2>14, <4>1
    <3>2. u <= t BY <1>11, <2>15 DEF Sooner
    <3> QED BY <1>11, <3>1, <3>2 DEF TakenRows
  <2>17. PICK k \in 1..i : out[k].event = table[u][l] BY <2>2, <2>15, <2>16
  <2> QED BY <1>12, <2>14, <2>17
<1> QED BY <1>2, <1>3, <1>9, <1>10, <1>12

-----------------------------------------------------------------------------
(* The theorems.                                                            *)

\* Wherever the threads, the drain, full rows and the carry-over take a message,
\* it is in one place, the places hold every message received, rows that were
\* ticked are empty, and nothing in the scratch is ahead of its time.
THEOREM FilingInvariant == Spec => [](MidiInv /\ FiledInv)
<1>1. Init => MidiInv /\ FiledInv BY MidiInit, FiledInit
<1>2. (MidiInv /\ FiledInv) /\ [Next]_vars => (MidiInv /\ FiledInv)'
  BY MidiStep, FiledStep
<1> QED BY <1>1, <1>2, PTL DEF Spec

\* Every queue and row keeps to its capacity and nothing goes uncounted, for any
\* number of ports and messages and any capacities.
THEOREM NothingIsLost == Spec => []NothingLost
<1>1. MidiInv /\ FiledInv => NothingLost
  BY FiledAccounts DEF NothingLost, FiledInv, TypeInv
<1> QED BY <1>1, FilingInvariant, PTL

\* No message is handed to the modules before the sample it is stamped for, however
\* late it was written, spilled or carried over.
THEOREM NoneIsEarly == Spec => NeverEarly
<1>1. (MidiInv /\ FiledInv) /\ [Next]_vars
        => [seen' # seen =>
              LET out == Output
              IN  \A i \in DOMAIN out : out[i].sample >= out[i].event.target]_vars
  BY NoneSeenEarly DEF MidiInv
<1> QED BY <1>1, FilingInvariant, PTL DEF NeverEarly, Spec

\* Whatever the threads, spills and the carry-over do, the messages of a port are in
\* order in each row and from row to row, in the carry-over, in the queue behind them,
\* and with its thread behind that, as far as their stamps do not step back.
THEOREM OrderInvariant == Spec => [](MidiInv /\ FiledInv /\ OrderInv)
<1>1. Init => MidiInv /\ FiledInv /\ OrderInv BY MidiInit, FiledInit, OrderInit
<1>2. (MidiInv /\ FiledInv /\ OrderInv) /\ [Next]_vars => (MidiInv /\ FiledInv /\ OrderInv)'
  BY MidiStep, FiledStep, OrderStep
<1> QED BY <1>1, <1>2, PTL DEF Spec

\* A module never sees a message while an earlier one of the same port, stamped no
\* later, is still to come, for any number of ports and any capacities of rows,
\* carry-over and queue.
THEOREM OrderIsKept == Spec => OrderKept
<1>1. (MidiInv /\ FiledInv /\ OrderInv) /\ [Next]_vars
        => [seen' # seen =>
              LET out == Output
              IN  \A i \in DOMAIN out : \A e \in ToCome \ {out[k].event : k \in 1..i} :
                    /\ e.port = out[i].event.port /\ e.id < out[i].event.id
                    /\ e.id \notin dropped'
                    => out[i].event.target < e.target]_vars
  BY NoneOvertakes DEF MidiInv
<1> QED BY <1>1, OrderInvariant, PTL DEF OrderKept, Spec
===============================================================================
