--------------------------- MODULE TapObserverProofs ---------------------------
(***************************************************************************)
(* What the meters show is their own tap's, no cell is stale and no fire   *)
(* is lost: TapObserver for any tap lists, rings, blocks and reloads,      *)
(* whether plans and manifests are dropped or not.                         *)
(*                                                                         *)
(* AudioInv dates the blocks: the stamp of each is the generation of its   *)
(* first sample.  SurfaceInv ties the slots to the manifest the observer   *)
(* has applied.  A block may have passed the filter before any manifest    *)
(* came, so `seen' may run ahead of obs_gen; then nothing has been heard   *)
(* yet.                                                                    *)
(***************************************************************************)
EXTENDS TapObserver, TLAPS, FiniteSetTheorems, SequenceTheorems

\* Samples and blocks of the first n generations.
Samples(n) == [gen : 0..n, fire : Tap \cup {NoTap}]
Frames(n) ==
  {f \in [stamp : 0..n, samples : [1..Block -> Samples(n)]] : f.samples[1].gen = f.stamp}

ReloadInv ==
  /\ manifest \in Seq(Manifests) /\ latest \in 0..MaxReloads
  /\ control \in {"idle", "blocking", "offering", "publishing"}
  /\ plan_ring \in {<<>>} \cup {<<g>> : g \in 1..latest}
  /\ replans \in Seq(1..latest) /\ Len(replans) <= ReplanRing
  /\ lost_plans \subseteq 1..latest /\ lost_manifests \subseteq 1..latest
  /\ control # "idle" => latest > 0

AudioInv ==
  /\ plan_gen \in 0..latest /\ stamp \in 0..latest /\ fires \in 0..MaxFires
  /\ block \in Seq(Samples(latest)) /\ Len(block) < Block
  /\ block # <<>> => block[1].gen = stamp
  /\ tap_ring \in Seq(Frames(latest)) /\ Len(tap_ring) <= TapRing

LoopInv ==
  /\ observer \in {"replans", "drain", "blocks"}
  /\ batch \in 0..Len(tap_ring) /\ done \in 0..batch
  /\ obs_gen \in 0..latest /\ seen \in 0..latest
  /\ control # "idle" => obs_gen < latest
  /\ \A i \in 1..Len(replans) : /\ obs_gen < replans[i]
                                /\ control # "idle" => replans[i] < latest

SurfaceTypes ==
  /\ slots \in [Slot -> [tap : Tap \cup {NoTap}, heard : SUBSET Source]]
  /\ meter \in [Slot -> SUBSET Source] /\ led \in [Slot -> SUBSET Tap]
  /\ fired \subseteq Tap /\ shown \subseteq Tap /\ dropped \subseteq Tap

\* The slots are those of the manifest in force.
Wired ==
  \A s \in Slot : /\ slots[s].tap = TapAt(obs_gen, s)
                  /\ slots[s].tap = NoTap => slots[s].heard = {}

\* Before the manifest of the last block seen, nothing has been heard.
Quiet == seen > obs_gen => \A s \in Slot : slots[s].heard = {} /\ meter[s] = {}

SurfaceInv == SurfaceTypes /\ Wired /\ Quiet /\ OwnHistory /\ CellsCurrent /\ FiresKept

TapInv == ReloadInv /\ AudioInv /\ LoopInv /\ SurfaceInv

-----------------------------------------------------------------------------
(* Taps and blocks.                                                         *)

LEMMA ManifestFacts ==
  ASSUME NEW m \in Manifests
  PROVE  /\ m \in Seq(Tap) /\ DOMAIN m = 1..Len(m) /\ \A i \in DOMAIN m : m[i] \in Tap
         /\ \A i, j \in DOMAIN m : m[i] = m[j] => i = j
<1>1. m \in Seq(Tap) /\ Cardinality({m[i] : i \in DOMAIN m}) = Len(m) BY TapAssumption
<1>2. DOMAIN m = 1..Len(m) /\ Len(m) \in Nat /\ \A i \in DOMAIN m : m[i] \in Tap
  BY <1>1, LenProperties, ElementOfSeq
<1> DEFINE T == {m[i] : i \in DOMAIN m}
           f == [i \in DOMAIN m |-> m[i]]
<1>3. f \in Surjection(DOMAIN m, T) BY DEF Surjection
<1>4. IsFiniteSet(DOMAIN m) /\ Cardinality(DOMAIN m) = Len(m) BY <1>2, FS_Interval
<1>5. \A i \in DOMAIN m : f[i] = m[i] OBVIOUS
<1> HIDE DEF f
<1>6. f \in Injection(DOMAIN m, T) BY <1>1, <1>3, <1>4, FS_Surjection
<1> QED BY <1>1, <1>2, <1>5, <1>6 DEF Injection, IsInjective

LEMMA TapFacts ==
  ASSUME manifest \in Seq(Manifests), NEW g \in 0..latest
  PROVE  /\ \A s \in Slot : TapAt(g, s) \in Tap \cup {NoTap}
         /\ \A s, z \in Slot : TapAt(g, s) # NoTap /\ TapAt(g, s) = TapAt(g, z) => s = z
<1>1. CASE g = 0 BY <1>1 DEF TapAt
<1>2. CASE g # 0
  <2>1. latest \in Nat /\ g \in 1..latest /\ DOMAIN manifest = 1..latest
    BY <1>2, LenProperties DEF latest
  <2>2. manifest[g] \in Manifests BY <2>1, ElementOfSeq DEF latest
  <2>3. PICK m : m = manifest[g] OBVIOUS
  <2>4. /\ \A i \in DOMAIN m : m[i] \in Tap
        /\ \A i, j \in DOMAIN m : m[i] = m[j] => i = j
    BY <2>2, <2>3, ManifestFacts
  <2> QED BY <1>2, <2>3, <2>4 DEF TapAt
<1> QED BY <1>1, <1>2

\* The first reloads keep their taps.
LEMMA TapKept ==
  ASSUME manifest \in Seq(Manifests), NEW m \in Manifests, manifest' = Append(manifest, m)
  PROVE  /\ manifest' \in Seq(Manifests) /\ latest \in Nat /\ latest' = latest + 1
         /\ \A g \in 0..latest, s \in Slot : TapAt(g, s)' = TapAt(g, s)
<1>1. /\ manifest' \in Seq(Manifests) /\ latest \in Nat /\ latest' = latest + 1
      /\ \A g \in 1..latest : manifest'[g] = manifest[g]
  BY AppendProperties, LenProperties DEF latest
<1>2. ASSUME NEW g \in 0..latest, NEW s \in Slot PROVE TapAt(g, s)' = TapAt(g, s)
  <2>1. g # 0 => g \in 1..latest BY <1>1
  <2>2. g # 0 => manifest'[g] = manifest[g] BY <1>1, <2>1
  <2> QED BY <2>2 DEF TapAt
<1> QED BY <1>1, <1>2

LEMMA FramesGrow ==
  ASSUME NEW n \in Nat, NEW k \in Nat, n <= k
  PROVE  /\ \A x \in Samples(n) : x \in Samples(k)
         /\ \A f \in Frames(n) : f \in Frames(k)
<1>1. \A i \in 0..n : i \in 0..k OBVIOUS
<1>2. \A x \in Samples(n) : x \in Samples(k) BY <1>1 DEF Samples
<1>3. ASSUME NEW f \in Frames(n) PROVE f \in Frames(k)
  <2>1. f \in [stamp : 0..n, samples : [1..Block -> Samples(n)]]
        /\ f.samples[1].gen = f.stamp
    BY DEF Frames
  <2>2. f.samples \in [1..Block -> Samples(k)] BY <1>2, <2>1
  <2>3. f \in [stamp : 0..k, samples : [1..Block -> Samples(k)]] BY <1>1, <2>1, <2>2
  <2> QED BY <2>1, <2>3 DEF Frames
<1> QED BY <1>2, <1>3

LEMMA SeqGrows ==
  ASSUME NEW S, NEW T, NEW q \in Seq(S), \A x \in S : x \in T
  PROVE  q \in Seq(T)
<1>1. Len(q) \in Nat /\ q \in [1..Len(q) -> S] BY LenProperties
<1>2. q \in [1..Len(q) -> T] BY <1>1
<1> QED BY <1>1, <1>2 DEF Seq

\* What a lane holds: its own tap's sources, but for the samples that straddle.
LEMMA LaneFacts ==
  ASSUME manifest \in Seq(Manifests), latest \in Nat,
         NEW frame \in Frames(latest), NEW s \in Slot
  PROVE  /\ LaneSources(frame, s) \subseteq Source
         /\ LaneFires(frame, s) \subseteq Tap
         /\ \A h \in LaneSources(frame, s) : h.tap = TapAt(frame.stamp, s) \/ h.straddled
<1>1. /\ frame.samples[1].gen = frame.stamp
      /\ \A i \in 1..Block : /\ frame.samples[i].gen \in 0..latest
                             /\ frame.samples[i].fire \in Tap \cup {NoTap}
  BY DEF Frames, Samples
<1>2. ASSUME NEW h \in LaneSources(frame, s)
      PROVE  h \in Source /\ (h.tap = TapAt(frame.stamp, s) \/ h.straddled)
  <2>1. PICK x : /\ \E i \in 1..Block : x = frame.samples[i]
                 /\ TapAt(x.gen, s) # NoTap
                 /\ h = [tap |-> TapAt(x.gen, s),
                         straddled |-> x.gen # frame.samples[1].gen]
    BY <1>2, Zenon DEF LaneSources
  <2>2. x.gen \in 0..latest BY <1>1, <2>1
  <2>3. TapAt(x.gen, s) \in Tap BY <2>1, <2>2, TapFacts
  <2>4. h \in Source BY <2>1, <2>3 DEF Source
  <2>5. h.tap = TapAt(x.gen, s) BY <2>1
  <2>6. h.straddled = (x.gen # frame.samples[1].gen) BY <2>1, Zenon
  <2>7. h.straddled \/ x.gen = frame.samples[1].gen BY <2>6, Zenon
  <2> QED BY <1>1, <2>4, <2>5, <2>7, Zenon
<1>3. ASSUME NEW t \in LaneFires(frame, s) PROVE t \in Tap
  <2>1. PICK x : /\ \E i \in 1..Block : x = frame.samples[i]
                 /\ x.fire # NoTap /\ t = x.fire
    BY <1>3, Zenon DEF LaneFires
  <2> QED BY <1>1, <2>1
<1> QED BY <1>2, <1>3

-----------------------------------------------------------------------------
(* The control thread.                                                      *)

LEMMA SurfaceKept ==
  ASSUME SurfaceInv, UNCHANGED <<surfaceVars, historyVars, obs_gen>>,
         \A s \in Slot : TapAt(obs_gen, s)' = TapAt(obs_gen, s)
  PROVE  SurfaceInv'
<1>1. UNCHANGED <<slots, meter, led, seen, fired, shown, dropped, obs_gen>>
  BY DEF surfaceVars, historyVars
<1>2. SurfaceTypes' BY <1>1 DEF SurfaceInv, SurfaceTypes
<1>3. Wired' BY <1>1 DEF SurfaceInv, Wired
<1>4. Quiet' /\ OwnHistory' /\ CellsCurrent' /\ FiresKept'
  BY <1>1 DEF SurfaceInv, Quiet, OwnHistory, CellsCurrent, FiresKept
<1> QED BY <1>2, <1>3, <1>4 DEF SurfaceInv

\* A manifest that stays as it is.
LEMMA SameTaps ==
  ASSUME UNCHANGED manifest
  PROVE  latest' = latest /\ \A g, s : TapAt(g, s)' = TapAt(g, s)
<1>1. latest' = latest BY DEF latest
<1>2. ASSUME NEW g, NEW s PROVE TapAt(g, s)' = TapAt(g, s) BY DEF TapAt
<1> QED BY <1>1, <1>2

LEMMA ReloadStep == ASSUME TapInv, Reload PROVE TapInv'
<1>1. PICK m \in Manifests : manifest' = Append(manifest, m) BY DEF Reload
<1>2. UNCHANGED <<plan_ring, replans, lost_plans, lost_manifests, audioVars, tap_ring, loopVars,
                  surfaceVars, historyVars>>
      /\ control' \in {"blocking", "offering"} /\ latest < MaxReloads
  BY DEF Reload
<1>3. /\ manifest' \in Seq(Manifests) /\ latest \in Nat /\ latest' = latest + 1
      /\ \A g \in 0..latest, s \in Slot : TapAt(g, s)' = TapAt(g, s)
  BY <1>1, TapKept DEF TapInv, ReloadInv
<1>4. \A i \in 1..latest : i \in 1..latest' BY <1>3
<1>5. replans' \in Seq(1..latest') BY <1>2, <1>4, SeqGrows DEF TapInv, ReloadInv
<1>6. plan_ring' \in {<<>>} \cup {<<g>> : g \in 1..latest'}
  BY <1>2, <1>4 DEF TapInv, ReloadInv
<1>7. ReloadInv'
  BY <1>2, <1>3, <1>4, <1>5, <1>6, TapAssumption DEF TapInv, ReloadInv
<1>8. block' \in Seq(Samples(latest')) /\ tap_ring' \in Seq(Frames(latest'))
  <2>1. /\ \A x \in Samples(latest) : x \in Samples(latest')
        /\ \A f \in Frames(latest) : f \in Frames(latest')
    BY <1>3, FramesGrow
  <2>2. block' = block /\ tap_ring' = tap_ring BY <1>2 DEF audioVars
  <2> QED BY <2>1, <2>2, SeqGrows DEF TapInv, AudioInv
<1>9. AudioInv'
  BY <1>2, <1>3, <1>8 DEF TapInv, AudioInv, audioVars
<1>10. LoopInv'
  <2>1. UNCHANGED <<observer, batch, done, obs_gen, seen, tap_ring, replans>>
    BY <1>2 DEF loopVars, historyVars
  <2>2. \A i \in 1..Len(replans) : replans[i] \in 1..latest
    BY ElementOfSeq DEF TapInv, ReloadInv
  <2> QED BY <1>3, <2>1, <2>2 DEF TapInv, LoopInv
<1>11. SurfaceInv'
  BY <1>2, <1>3, SurfaceKept DEF TapInv, LoopInv, loopVars
<1> QED BY <1>7, <1>9, <1>10, <1>11 DEF TapInv

\* Steps of the control thread, the audio thread and the ring that leave the surface alone.
LEMMA SurfaceAside ==
  ASSUME TapInv, UNCHANGED <<manifest, surfaceVars, historyVars, obs_gen>>,
         ReloadInv', AudioInv', LoopInv'
  PROVE  TapInv'
<1>1. \A s \in Slot : TapAt(obs_gen, s)' = TapAt(obs_gen, s)
  BY SameTaps DEF TapAt
<1> QED BY <1>1, SurfaceKept DEF TapInv

LEMMA PlanStep == ASSUME TapInv, PlanAccepted \/ PlanDropped PROVE TapInv'
<1>1. UNCHANGED <<manifest, replans, lost_manifests, audioVars, tap_ring, loopVars,
                  surfaceVars, historyVars>> /\ control # "idle" /\ control' = "publishing"
  BY DEF PlanAccepted, PlanDropped
<1>2. latest' = latest BY <1>1, SameTaps
<1>3. latest \in 1..latest BY <1>1 DEF TapInv, ReloadInv
<1>4. plan_ring' \in {plan_ring, <<latest>>}
      /\ lost_plans' \subseteq lost_plans \cup {latest}
  BY DEF PlanAccepted, PlanDropped
<1>5. ReloadInv' BY <1>1, <1>2, <1>3, <1>4 DEF TapInv, ReloadInv
<1>6. AudioInv' BY <1>1, <1>2 DEF TapInv, AudioInv, audioVars
<1>7. LoopInv' BY <1>1, <1>2 DEF TapInv, LoopInv, loopVars, historyVars
<1> QED BY <1>1, <1>5, <1>6, <1>7, SurfaceAside DEF loopVars

LEMMA PublishStep == ASSUME TapInv, Publish PROVE TapInv'
<1>1. UNCHANGED <<manifest, plan_ring, lost_plans, audioVars, tap_ring, loopVars,
                  surfaceVars, historyVars>> /\ control # "idle" /\ control' = "idle"
  BY DEF Publish
<1>2. latest' = latest BY <1>1, SameTaps
<1>3. latest \in 1..latest /\ obs_gen < latest
  BY <1>1 DEF TapInv, ReloadInv, LoopInv
<1>4. replans \in Seq(1..latest) /\ Len(replans) \in Nat /\ Len(replans) <= ReplanRing
  BY LenProperties DEF TapInv, ReloadInv
<1>5. \/ /\ Len(replans) < ReplanRing /\ replans' = Append(replans, latest)
         /\ lost_manifests' = lost_manifests
      \/ replans' = replans /\ lost_manifests' = lost_manifests \cup {latest}
  BY DEF Publish
<1>6. CASE Len(replans) < ReplanRing /\ replans' = Append(replans, latest)
           /\ lost_manifests' = lost_manifests
  <2>1. /\ replans' \in Seq(1..latest) /\ Len(replans') = Len(replans) + 1
        /\ \A i \in 1..Len(replans) : replans'[i] = replans[i]
        /\ replans'[Len(replans) + 1] = latest
    BY <1>3, <1>4, <1>6, AppendProperties
  <2>2. ReloadInv'
    <3>1. Len(replans') <= ReplanRing BY <1>4, <1>6, <2>1, TapAssumption
    <3> QED BY <1>1, <1>2, <1>6, <2>1, <3>1 DEF TapInv, ReloadInv
  <2>3. \A i \in 1..Len(replans') : obs_gen < replans'[i]
    <3> SUFFICES ASSUME NEW i \in 1..Len(replans') PROVE obs_gen < replans'[i]
      OBVIOUS
    <3>1. CASE i = Len(replans) + 1 BY <1>3, <2>1, <3>1
    <3>2. CASE i # Len(replans) + 1
      <4>1. i \in 1..Len(replans) BY <1>4, <2>1, <3>2
      <4> QED BY <2>1, <4>1 DEF TapInv, LoopInv
    <3> QED BY <3>1, <3>2
  <2> QED BY <1>1, <1>2, <2>2, <2>3, SurfaceAside
          DEF TapInv, AudioInv, audioVars, LoopInv, loopVars, historyVars
<1>7. CASE replans' = replans /\ lost_manifests' = lost_manifests \cup {latest}
  <2>1. ReloadInv' BY <1>1, <1>2, <1>3, <1>7 DEF TapInv, ReloadInv
  <2> QED BY <1>1, <1>2, <1>7, <2>1, SurfaceAside
          DEF TapInv, AudioInv, audioVars, LoopInv, loopVars, historyVars
<1> QED BY <1>5, <1>6, <1>7

-----------------------------------------------------------------------------
(* The audio thread.                                                        *)

LEMMA AdoptStep == ASSUME TapInv, Adopt PROVE TapInv'
<1>1. UNCHANGED <<manifest, control, replans, lost_plans, lost_manifests, block, stamp, fires,
                  tap_ring, loopVars, surfaceVars, historyVars>>
      /\ plan_ring' = <<>> /\ plan_ring # <<>> /\ plan_gen' = plan_ring[1]
  BY DEF Adopt
<1>2. latest' = latest BY <1>1, SameTaps
<1>3. plan_gen' \in 0..latest
  <2>1. PICK g \in 1..latest : plan_ring = <<g>> BY <1>1 DEF TapInv, ReloadInv
  <2> QED BY <1>1, <2>1
<1>4. ReloadInv' BY <1>1, <1>2 DEF TapInv, ReloadInv
<1>5. AudioInv' BY <1>1, <1>2, <1>3 DEF TapInv, AudioInv
<1>6. LoopInv' BY <1>1, <1>2 DEF TapInv, LoopInv, loopVars, historyVars
<1> QED BY <1>1, <1>4, <1>5, <1>6, SurfaceAside DEF loopVars

\* A block is stamped with the generation of its first sample.
LEMMA TickStep == ASSUME TapInv, Tick PROVE TapInv'
<1>1. PICK f \in {NoTap} \cup {TapAt(plan_gen, s) : s \in Slot} :
        LET filled == Append(block, [gen |-> plan_gen, fire |-> f])
        IN  /\ fires' = fires + (IF f = NoTap THEN 0 ELSE 1) /\ fires' <= MaxFires
            /\ stamp' = Stamped
            /\ IF Len(filled) = Block
                 THEN /\ tap_ring' = Pushed([stamp |-> stamp', samples |-> filled])
                      /\ block' = <<>>
                 ELSE block' = filled /\ UNCHANGED tap_ring
  BY DEF Tick
<1> DEFINE new == [gen |-> plan_gen, fire |-> f]
           filled == Append(block, new)
           frame == [stamp |-> stamp', samples |-> filled]
<1>2. UNCHANGED <<controlVars, plan_gen, loopVars, surfaceVars, historyVars>> BY DEF Tick
<1>3. UNCHANGED <<manifest, control, plan_ring, replans, lost_plans, lost_manifests>>
  BY <1>2 DEF controlVars
<1>4. latest' = latest BY <1>3, SameTaps
<1>5. plan_gen \in 0..latest /\ block \in Seq(Samples(latest)) /\ Len(block) < Block
      /\ Len(block) \in Nat /\ Block \in Nat \ {0}
  BY LenProperties, TapAssumption DEF TapInv, AudioInv
<1>6. new \in Samples(latest)
  BY <1>5, TapFacts DEF TapInv, ReloadInv, Samples
<1>7. stamp' \in 0..latest BY <1>1, <1>5 DEF Stamped, TapInv, AudioInv
<1> HIDE DEF new
<1>8. /\ filled \in Seq(Samples(latest)) /\ Len(filled) = Len(block) + 1
      /\ \A i \in 1..Len(block) : filled[i] = block[i]
      /\ filled[Len(block) + 1] = new
  BY <1>5, <1>6, AppendProperties
<1>9. filled[1].gen = stamp'
  <2>1. CASE block = <<>>
    <3>1. Len(block) = 0 BY <1>5, <2>1, EmptySeq
    <3> QED BY <1>1, <1>8, <2>1, <3>1 DEF new, Stamped
  <2>2. CASE block # <<>>
    <3>1. Len(block) # 0 BY <1>5, <2>2, EmptySeq
    <3>2. filled[1] = block[1] BY <1>5, <1>8, <3>1
    <3> QED BY <1>1, <2>2, <3>2 DEF Stamped, TapInv, AudioInv
  <2> QED BY <2>1, <2>2
<1>10. fires' \in 0..MaxFires
  BY <1>1, TapAssumption DEF TapInv, AudioInv
<1>11. /\ block' \in Seq(Samples(latest)) /\ Len(block') < Block
       /\ block' # <<>> => block'[1].gen = stamp'
  <2>1. CASE Len(filled) = Block
    <3>1. block' = <<>> BY <1>1, <2>1 DEF new
    <3> QED BY <1>5, <3>1, EmptySeq
  <2>2. CASE Len(filled) # Block
    <3>1. block' = filled BY <1>1, <2>2 DEF new
    <3> QED BY <1>5, <1>8, <1>9, <2>2, <3>1
  <2> QED BY <2>1, <2>2
<1>12. /\ tap_ring' \in Seq(Frames(latest)) /\ Len(tap_ring') <= TapRing
       /\ Len(tap_ring') >= Len(tap_ring)
  <2>1. tap_ring \in Seq(Frames(latest)) /\ Len(tap_ring) \in Nat /\ Len(tap_ring) <= TapRing
    BY LenProperties DEF TapInv, AudioInv
  <2>2. CASE tap_ring' = tap_ring
    BY <2>1, <2>2
  <2>3. CASE Len(filled) = Block /\ Len(tap_ring) < TapRing /\ tap_ring' = Append(tap_ring, frame)
    <3>1. filled \in [1..Block -> Samples(latest)] BY <1>8, <2>3, LenProperties
    <3> HIDE DEF filled
    <3>2. frame \in Frames(latest) BY <1>7, <1>9, <3>1 DEF Frames
    <3> HIDE DEF frame
    <3>3. tap_ring' \in Seq(Frames(latest)) /\ Len(tap_ring') = Len(tap_ring) + 1
      BY <2>1, <2>3, <3>2, AppendProperties
    <3> QED BY <2>1, <2>3, <3>3, TapAssumption
  <2> QED BY <1>1, <2>2, <2>3 DEF Pushed, new
<1>13. ReloadInv' BY <1>3, <1>4 DEF TapInv, ReloadInv
<1>14. AudioInv' BY <1>2, <1>4, <1>5, <1>7, <1>10, <1>11, <1>12 DEF AudioInv
<1>15. LoopInv'
  <2>1. Len(tap_ring) \in Nat /\ Len(tap_ring') \in Nat
    BY <1>12, LenProperties DEF TapInv, AudioInv
  <2>2. UNCHANGED <<observer, batch, done, obs_gen, seen, control, replans>>
    BY <1>2, <1>3 DEF loopVars, historyVars
  <2> QED BY <1>4, <1>12, <2>1, <2>2 DEF TapInv, LoopInv
<1> QED BY <1>2, <1>3, <1>13, <1>14, <1>15, SurfaceAside DEF loopVars

-----------------------------------------------------------------------------
(* The observer thread.                                                     *)

\* A step that leaves what was reloaded, and the audio thread's state, alone.
LEMMA OthersKept ==
  ASSUME TapInv, UNCHANGED <<manifest, control, plan_ring, lost_plans, lost_manifests, audioVars>>,
         replans' \in {<<>>, replans},
         tap_ring' \in Seq(Frames(latest)), Len(tap_ring') <= TapRing
  PROVE  ReloadInv' /\ AudioInv'
<1>1. latest' = latest BY SameTaps
<1>2. replans' \in Seq(1..latest) /\ Len(replans') <= ReplanRing
  <2>1. CASE replans' = <<>>
    <3>1. Len(replans') = 0 /\ replans' \in Seq(1..latest) BY <2>1, EmptySeq
    <3>2. ReplanRing \in Nat BY TapAssumption
    <3> QED BY <3>1, <3>2
  <2>2. CASE replans' = replans BY <2>2 DEF TapInv, ReloadInv
  <2> QED BY <2>1, <2>2
<1>3. ReloadInv' BY <1>1, <1>2 DEF TapInv, ReloadInv
<1>4. AudioInv' BY <1>1 DEF TapInv, AudioInv, audioVars
<1> QED BY <1>3, <1>4

\* What the slots become under the manifest of generation g.
LEMMA RewiredFacts ==
  ASSUME TapInv, NEW g \in 0..latest
  PROVE  /\ Rewired(g) \in [Slot -> [tap : Tap \cup {NoTap}, heard : SUBSET Source]]
         /\ \A s \in Slot :
              /\ Rewired(g)[s].tap = TapAt(g, s)
              /\ TapAt(g, s) = NoTap => Rewired(g)[s].heard = {}
              /\ TapAt(g, s) # NoTap =>
                   \/ \E z \in Slot : slots[z].tap = TapAt(g, s) /\ Rewired(g)[s] = slots[z]
                   \/ /\ \A z \in Slot : slots[z].tap # TapAt(g, s)
                      /\ Rewired(g)[s].heard = {}
<1>1. \A s \in Slot : TapAt(g, s) \in Tap \cup {NoTap} BY TapFacts DEF TapInv, ReloadInv
<1>2. slots \in [Slot -> [tap : Tap \cup {NoTap}, heard : SUBSET Source]]
  BY DEF TapInv, SurfaceInv, SurfaceTypes
<1>3. ASSUME NEW t \in Tap
      PROVE  /\ Processors(t) \in [tap : Tap \cup {NoTap}, heard : SUBSET Source]
             /\ Processors(t).tap = t
             /\ \/ \E z \in Slot : slots[z].tap = t /\ Processors(t) = slots[z]
                \/ (\A z \in Slot : slots[z].tap # t) /\ Processors(t).heard = {}
  <2> DEFINE kept == {s \in Slot : slots[s].tap = t}
  <2>1. CASE kept = {}
    <3>1. Processors(t) = [tap |-> t, heard |-> {}] BY <2>1 DEF Processors
    <3> QED BY <2>1, <3>1
  <2>2. CASE kept # {}
    <3>1. PICK z \in Slot : z \in kept /\ Processors(t) = slots[z]
      BY <2>2 DEF Processors
    <3> QED BY <1>2, <3>1
  <2> QED BY <2>1, <2>2
<1>4. \A s \in Slot :
        /\ TapAt(g, s) = NoTap => Rewired(g)[s] = NoProcessors
        /\ TapAt(g, s) # NoTap => Rewired(g)[s] = Processors(TapAt(g, s))
  BY DEF Rewired
<1>5. NoProcessors \in [tap : Tap \cup {NoTap}, heard : SUBSET Source]
      /\ NoProcessors.tap = NoTap /\ NoProcessors.heard = {}
  BY DEF NoProcessors
<1>6. \A s \in Slot : Rewired(g)[s] \in [tap : Tap \cup {NoTap}, heard : SUBSET Source]
  BY <1>1, <1>3, <1>4, <1>5
<1>7. Rewired(g) \in [Slot -> [tap : Tap \cup {NoTap}, heard : SUBSET Source]]
  BY <1>6 DEF Rewired
<1>8. ASSUME NEW s \in Slot
      PROVE  /\ Rewired(g)[s].tap = TapAt(g, s)
             /\ TapAt(g, s) = NoTap => Rewired(g)[s].heard = {}
             /\ TapAt(g, s) # NoTap =>
                  \/ \E z \in Slot : slots[z].tap = TapAt(g, s) /\ Rewired(g)[s] = slots[z]
                  \/ /\ \A z \in Slot : slots[z].tap # TapAt(g, s)
                     /\ Rewired(g)[s].heard = {}
  <2>1. CASE TapAt(g, s) = NoTap BY <1>4, <1>5, <2>1
  <2>2. CASE TapAt(g, s) # NoTap
    <3>1. TapAt(g, s) \in Tap BY <1>1, <2>2
    <3> QED BY <1>3, <1>4, <2>2, <3>1
  <2> QED BY <2>1, <2>2
<1> QED BY <1>7, <1>8

\* Fires stay accounted for when cells are cleared and counted as dropped.
LEMMA ApplyStep == ASSUME TapInv, ApplyReplans PROVE TapInv'
<1>1. UNCHANGED <<manifest, control, plan_ring, lost_plans, lost_manifests, audioVars, tap_ring,
                  batch, done, seen, fired, shown>>
      /\ replans' = <<>> /\ observer' = "drain"
  BY DEF ApplyReplans
<1>2. latest' = latest /\ \A g, s : TapAt(g, s)' = TapAt(g, s) BY <1>1, SameTaps
<1>3. ReloadInv' /\ AudioInv'
  BY <1>1, OthersKept DEF TapInv, AudioInv
<1>4. CASE replans = <<>>
  <2>1. UNCHANGED <<obs_gen, slots, meter, led, dropped>>
    BY <1>4 DEF ApplyReplans, surfaceVars
  <2>2. LoopInv' BY <1>1, <1>2, <1>4, <2>1 DEF TapInv, LoopInv
  <2> QED BY <1>1, <1>3, <2>1, <2>2, SurfaceAside DEF surfaceVars, historyVars
<1>5. CASE replans # <<>>
  <2> DEFINE n == Len(replans)
             g == replans[n]
  <2>1. n \in 1..Len(replans) /\ g \in 1..latest /\ g \in Nat
    <3>1. replans \in Seq(1..latest) /\ latest \in Nat
      BY TapAssumption DEF TapInv, ReloadInv
    <3>2. n \in Nat /\ n # 0 BY <1>5, <3>1, EmptySeq, LenProperties
    <3>3. n \in 1..Len(replans) BY <3>2
    <3>4. g \in 1..latest BY <3>1, <3>3, ElementOfSeq
    <3> QED BY <3>1, <3>3, <3>4
  <2>2. obs_gen < g /\ (control # "idle" => g < latest) BY <2>1 DEF TapInv, LoopInv
  <2>3. /\ obs_gen' = g /\ slots' = Rewired(g)
        /\ meter' = Cleared(meter, slots') /\ led' = Cleared(led, slots')
        /\ dropped' = dropped \cup UNION {led[s] : s \in {z \in Slot : slots'[z].tap = NoTap}}
    BY <1>5 DEF ApplyReplans
  <2> HIDE DEF g
  <2>4. g \in 0..latest BY <2>1
  <2>5. LoopInv'
    <3>1. Len(replans') = 0 BY <1>1, EmptySeq
    <3> QED BY <1>1, <1>2, <2>2, <2>3, <2>4, <3>1 DEF TapInv, LoopInv
  <2>6. \A s \in Slot :
          /\ meter'[s] = IF slots'[s].tap = NoTap THEN {} ELSE meter[s]
          /\ led'[s] = IF slots'[s].tap = NoTap THEN {} ELSE led[s]
    BY <2>3 DEF Cleared
  <2>7. SurfaceTypes'
    <3>1. slots' \in [Slot -> [tap : Tap \cup {NoTap}, heard : SUBSET Source]]
      BY <2>3, <2>4, RewiredFacts
    <3>2. meter' \in [Slot -> SUBSET Source] /\ led' \in [Slot -> SUBSET Tap]
      BY <2>3 DEF Cleared, TapInv, SurfaceInv, SurfaceTypes
    <3>3. dropped' \subseteq Tap
      BY <2>3 DEF TapInv, SurfaceInv, SurfaceTypes
    <3> QED BY <1>1, <3>1, <3>2, <3>3 DEF TapInv, SurfaceInv, SurfaceTypes
  <2>8. Wired' BY <1>2, <2>3, <2>4, RewiredFacts DEF Wired
  <2>9. OwnHistory'
    <3> SUFFICES ASSUME NEW s \in Slot, NEW h \in slots'[s].heard
                 PROVE  h.tap = slots'[s].tap \/ h.straddled
      BY DEF OwnHistory
    <3>1. PICK z \in Slot : slots[z].tap = slots'[s].tap /\ slots'[s] = slots[z]
      BY <2>3, <2>4, RewiredFacts
    <3> QED BY <3>1 DEF TapInv, SurfaceInv, OwnHistory
  <2>10. seen >= g => \A s \in Slot : slots'[s].heard = {} /\ meter'[s] = {}
    <3> SUFFICES ASSUME seen >= g, NEW s \in Slot
                 PROVE  slots'[s].heard = {} /\ meter'[s] = {}
      OBVIOUS
    <3>1. seen > obs_gen BY <2>2, <2>4 DEF TapInv, ReloadInv, LoopInv
    <3>2. \A z \in Slot : slots[z].heard = {} /\ meter[z] = {}
      BY <3>1 DEF TapInv, SurfaceInv, Quiet
    <3>3. slots'[s].heard = {} BY <2>3, <2>4, <3>2, RewiredFacts
    <3> QED BY <2>6, <3>2, <3>3
  <2>11. Quiet' BY <1>1, <2>1, <2>3, <2>10 DEF Quiet, TapInv, LoopInv, ReloadInv
  <2>12. CellsCurrent'
    <3>1. \A s \in Slot : slots'[s].tap = NoTap => meter'[s] = {} /\ led'[s] = {} BY <2>6
    <3>2. ASSUME seen' = obs_gen', NEW s \in Slot PROVE meter'[s] = slots'[s].heard
      <4>1. seen = g BY <1>1, <2>3, <3>2
      <4>2. seen >= g BY <2>1, <4>1
      <4> QED BY <2>10, <4>2
    <3> QED BY <3>1, <3>2 DEF CellsCurrent
  <2>13. FiresKept'
    <3> SUFFICES ASSUME NEW t \in fired'
                 PROVE  t \in shown' \cup dropped' \cup UNION {led'[s] : s \in Slot}
      BY DEF FiresKept
    <3>1. t \in shown \cup dropped \cup UNION {led[s] : s \in Slot}
      BY <1>1 DEF TapInv, SurfaceInv, FiresKept
    <3>2. ASSUME NEW s \in Slot, t \in led[s]
          PROVE  t \in dropped' \cup UNION {led'[z] : z \in Slot}
      <4>1. CASE slots'[s].tap = NoTap BY <2>3, <3>2, <4>1
      <4>2. CASE slots'[s].tap # NoTap BY <2>6, <3>2, <4>2
      <4> QED BY <4>1, <4>2
    <3> QED BY <1>1, <2>3, <3>1, <3>2
  <2>14. SurfaceInv' BY <2>7, <2>8, <2>9, <2>11, <2>12, <2>13 DEF SurfaceInv
  <2> QED BY <1>3, <2>5, <2>14 DEF TapInv
<1> QED BY <1>4, <1>5

LEMMA BeginStep == ASSUME TapInv, BeginDrain PROVE TapInv'
<1>1. UNCHANGED <<controlVars, audioVars, tap_ring, obs_gen, surfaceVars, historyVars>>
      /\ batch' = Len(tap_ring) /\ done' = 0 /\ observer' \in {"replans", "blocks"}
  BY DEF BeginDrain
<1>2. UNCHANGED <<manifest, control, plan_ring, replans, lost_plans, lost_manifests>>
  BY <1>1 DEF controlVars
<1>3. latest' = latest BY <1>2, SameTaps
<1>4. ReloadInv' /\ AudioInv'
  BY <1>1, <1>2, OthersKept DEF TapInv, AudioInv
<1>5. Len(tap_ring) \in Nat BY LenProperties DEF TapInv, AudioInv
<1>6. LoopInv' BY <1>1, <1>2, <1>3, <1>5 DEF TapInv, LoopInv, historyVars
<1> QED BY <1>1, <1>2, <1>4, <1>6, SurfaceAside

LEMMA EndStep == ASSUME TapInv, EndDrain PROVE TapInv'
<1>1. UNCHANGED <<controlVars, audioVars, obs_gen, surfaceVars, historyVars>>
      /\ batch' = 0 /\ done' = 0 /\ observer' = "replans"
      /\ tap_ring' = SubSeq(tap_ring, batch + 1, Len(tap_ring))
  BY DEF EndDrain
<1>2. UNCHANGED <<manifest, control, plan_ring, replans, lost_plans, lost_manifests>>
  BY <1>1 DEF controlVars
<1>3. latest' = latest BY <1>2, SameTaps
<1>4. /\ tap_ring \in Seq(Frames(latest)) /\ Len(tap_ring) \in Nat /\ Len(tap_ring) <= TapRing
      /\ batch \in 0..Len(tap_ring)
  BY LenProperties DEF TapInv, AudioInv, LoopInv
<1>5. /\ tap_ring' \in Seq(Frames(latest)) /\ Len(tap_ring') <= TapRing
      /\ Len(tap_ring') \in Nat
  <2>1. \A i \in (batch + 1)..Len(tap_ring) : tap_ring[i] \in Frames(latest)
    <3> SUFFICES ASSUME NEW i \in (batch + 1)..Len(tap_ring) PROVE tap_ring[i] \in Frames(latest)
      OBVIOUS
    <3>1. i \in 1..Len(tap_ring) BY <1>4
    <3> QED BY <1>4, <3>1, ElementOfSeq
  <2>2. /\ tap_ring' \in Seq(Frames(latest))
        /\ Len(tap_ring') = IF batch + 1 <= Len(tap_ring) THEN Len(tap_ring) - batch ELSE 0
    BY <1>1, <1>4, <2>1, SubSeqProperties
  <2>3. TapRing \in Nat BY TapAssumption
  <2> QED BY <1>4, <2>2, <2>3
<1>6. ReloadInv' /\ AudioInv' BY <1>1, <1>2, <1>5, OthersKept
<1>7. LoopInv' BY <1>1, <1>2, <1>3, <1>5 DEF TapInv, LoopInv, historyVars
<1> QED BY <1>1, <1>2, <1>6, <1>7, SurfaceAside

\* A block that passes the filter is of the generation in force, or nothing is wired yet,
\* or it began before the first plan.
LEMMA BlockStep == ASSUME TapInv, ProcessBlock PROVE TapInv'
<1> DEFINE frame == tap_ring[done + 1]
<1>1. UNCHANGED <<controlVars, audioVars, tap_ring, observer, batch, obs_gen, shown, dropped>>
      /\ done < batch /\ done' = done + 1
  BY DEF ProcessBlock
<1>2. UNCHANGED <<manifest, control, plan_ring, replans, lost_plans, lost_manifests>>
  BY <1>1 DEF controlVars
<1>3. latest' = latest /\ \A g, s : TapAt(g, s)' = TapAt(g, s) BY <1>2, SameTaps
<1>4. /\ tap_ring \in Seq(Frames(latest)) /\ Len(tap_ring) \in Nat /\ latest \in Nat
      /\ manifest \in Seq(Manifests) /\ batch \in 0..Len(tap_ring) /\ done \in 0..batch
  BY LenProperties, TapAssumption DEF TapInv, AudioInv, LoopInv, ReloadInv
<1>5. done + 1 \in 1..Len(tap_ring) BY <1>1, <1>4
<1>6. frame \in Frames(latest) BY <1>4, <1>5, ElementOfSeq
<1>7. frame.stamp \in 0..latest BY <1>6 DEF Frames
<1>8. ReloadInv' /\ AudioInv'
  BY <1>1, <1>2, OthersKept DEF TapInv, AudioInv
<1>9. CASE ~ Passes(frame.stamp)
  <2>1. UNCHANGED <<slots, meter, led, seen, fired>>
    BY <1>9 DEF ProcessBlock, surfaceVars
  <2>2. LoopInv' BY <1>1, <1>2, <1>3, <1>4, <2>1 DEF TapInv, LoopInv
  <2> QED BY <1>1, <1>2, <1>8, <2>1, <2>2, SurfaceAside DEF surfaceVars, historyVars
<1>10. CASE Passes(frame.stamp)
  <2>1. /\ slots' = [s \in Slot |-> Fed(slots[s], frame, s)]
        /\ meter' = [s \in Slot |-> Published(meter[s], slots'[s])]
        /\ led' = [s \in Slot |-> Latched(led[s], frame, s)]
        /\ seen' = frame.stamp
        /\ fired' = fired \cup
             UNION {LaneFires(frame, s) : s \in {z \in Slot : slots[z].tap # NoTap}}
    BY <1>10 DEF ProcessBlock
  <2>2. obs_gen = 0 \/ frame.stamp = 0 \/ frame.stamp = obs_gen BY <1>10 DEF Passes
  <2>3. LoopInv' BY <1>1, <1>2, <1>3, <1>4, <1>7, <2>1 DEF TapInv, LoopInv
  <2> HIDE DEF frame
  <2>4. \A s \in Slot : /\ LaneSources(frame, s) \subseteq Source
                        /\ LaneFires(frame, s) \subseteq Tap
                        /\ \A h \in LaneSources(frame, s) :
                             h.tap = TapAt(frame.stamp, s) \/ h.straddled
    BY <1>4, <1>6, LaneFacts
  <2>5. \A s \in Slot : slots[s] \in [tap : Tap \cup {NoTap}, heard : SUBSET Source]
    BY DEF TapInv, SurfaceInv, SurfaceTypes
  <2>6. ASSUME NEW s \in Slot
        PROVE  /\ slots'[s] \in [tap : Tap \cup {NoTap}, heard : SUBSET Source]
               /\ slots'[s].tap = slots[s].tap
               /\ slots[s].tap = NoTap => slots'[s] = slots[s]
               /\ slots[s].tap # NoTap =>
                    slots'[s].heard = slots[s].heard \cup LaneSources(frame, s)
    <3>1. CASE slots[s].tap = NoTap BY <2>1, <2>5, <3>1 DEF Fed
    <3>2. CASE slots[s].tap # NoTap
      <4>1. slots'[s] = [slots[s] EXCEPT !.heard = @ \cup LaneSources(frame, s)]
        BY <2>1, <3>2 DEF Fed
      <4> QED BY <2>4, <2>5, <3>2, <4>1
    <3> QED BY <3>1, <3>2
  <2>7. \A s \in Slot :
          /\ meter'[s] = IF slots[s].tap = NoTap THEN meter[s] ELSE slots'[s].heard
          /\ led'[s] = IF slots[s].tap = NoTap THEN led[s] ELSE led[s] \cup LaneFires(frame, s)
    BY <2>1, <2>6 DEF Published, Latched
  <2>8. SurfaceTypes'
    <3>1. slots' \in [Slot -> [tap : Tap \cup {NoTap}, heard : SUBSET Source]]
      BY <2>1, <2>6
    <3>2. \A s \in Slot : meter'[s] \in SUBSET Source /\ led'[s] \in SUBSET Tap
      BY <2>4, <2>6, <2>7 DEF TapInv, SurfaceInv, SurfaceTypes
    <3>3. meter' \in [Slot -> SUBSET Source] /\ led' \in [Slot -> SUBSET Tap]
      BY <2>1, <3>2
    <3>4. fired' \subseteq Tap
      BY <2>1, <2>4 DEF TapInv, SurfaceInv, SurfaceTypes
    <3> QED BY <1>1, <3>1, <3>3, <3>4 DEF TapInv, SurfaceInv, SurfaceTypes
  <2>9. Wired' BY <1>1, <1>3, <2>6 DEF TapInv, SurfaceInv, Wired
  <2>10. \A s \in Slot : TapAt(0, s) = NoTap BY DEF TapAt
  <2>11. OwnHistory'
    <3> SUFFICES ASSUME NEW s \in Slot, NEW h \in slots'[s].heard
                 PROVE  h.tap = slots'[s].tap \/ h.straddled
      BY DEF OwnHistory
    <3>1. CASE h \in slots[s].heard
      BY <2>6, <3>1 DEF TapInv, SurfaceInv, OwnHistory
    <3>2. CASE h \notin slots[s].heard
      <4>1. slots[s].tap # NoTap /\ h \in LaneSources(frame, s) BY <2>6, <3>2
      <4>2. slots[s].tap = TapAt(obs_gen, s) BY DEF TapInv, SurfaceInv, Wired
      <4>3. obs_gen # 0 BY <2>10, <4>1, <4>2
      <4>4. CASE frame.stamp = obs_gen BY <2>4, <2>6, <4>1, <4>2, <4>4
      <4>5. CASE frame.stamp = 0
        <5>1. h.tap = NoTap \/ h.straddled BY <2>4, <2>10, <4>1, <4>5
        <5>2. h.tap \in Tap BY <2>4, <4>1 DEF Source
        <5> QED BY <5>1, <5>2, TapAssumption
      <4> QED BY <2>2, <4>3, <4>4, <4>5
    <3> QED BY <3>1, <3>2
  <2>12. Quiet'
    <3> SUFFICES ASSUME seen' > obs_gen', NEW s \in Slot
                 PROVE  slots'[s].heard = {} /\ meter'[s] = {}
      BY DEF Quiet
    <3>1. obs_gen = 0 BY <1>1, <1>7, <2>1, <2>2 DEF TapInv, LoopInv
    <3>2. slots[s].tap = NoTap /\ slots[s].heard = {}
      BY <2>10, <3>1 DEF TapInv, SurfaceInv, Wired
    <3> QED BY <2>6, <2>7, <3>2 DEF TapInv, SurfaceInv, CellsCurrent
  <2>13. CellsCurrent'
    <3> SUFFICES ASSUME NEW s \in Slot
                 PROVE  /\ slots'[s].tap = NoTap => meter'[s] = {} /\ led'[s] = {}
                        /\ meter'[s] = slots'[s].heard
      BY DEF CellsCurrent
    <3>1. CASE slots[s].tap = NoTap
      <4>1. slots'[s] = slots[s] BY <2>6, <3>1
      <4>2. meter'[s] = meter[s] /\ led'[s] = led[s] BY <2>7, <3>1
      <4>3. slots[s].heard = {} BY <3>1 DEF TapInv, SurfaceInv, Wired
      <4>4. meter[s] = {} /\ led[s] = {} BY <3>1 DEF TapInv, SurfaceInv, CellsCurrent
      <4> QED BY <4>1, <4>2, <4>3, <4>4
    <3>2. CASE slots[s].tap # NoTap
      BY <2>6, <2>7, <3>2
    <3> QED BY <3>1, <3>2
  <2>14. FiresKept'
    <3> SUFFICES ASSUME NEW t \in fired'
                 PROVE  t \in shown' \cup dropped' \cup UNION {led'[s] : s \in Slot}
      BY DEF FiresKept
    <3>1. CASE t \in fired
      <4>1. t \in shown \cup dropped \cup UNION {led[s] : s \in Slot}
        BY <3>1 DEF TapInv, SurfaceInv, FiresKept
      <4>2. \A s \in Slot : t \in led[s] => t \in led'[s] BY <2>7
      <4>3. t \in UNION {led[s] : s \in Slot} => t \in UNION {led'[s] : s \in Slot}
        BY <4>2
      <4> QED BY <1>1, <4>1, <4>3
    <3>2. CASE t \notin fired
      <4>1. PICK s \in Slot : slots[s].tap # NoTap /\ t \in LaneFires(frame, s)
        BY <2>1, <3>2
      <4> QED BY <2>7, <4>1
    <3> QED BY <3>1, <3>2
  <2>15. SurfaceInv' BY <2>8, <2>9, <2>11, <2>12, <2>13, <2>14 DEF SurfaceInv
  <2> QED BY <1>8, <2>3, <2>15 DEF TapInv
<1> QED BY <1>9, <1>10

LEMMA TakeStep == ASSUME TapInv, TakeTrigger PROVE TapInv'
<1>1. PICK s \in Slot : shown' = shown \cup led[s] /\ led' = [led EXCEPT ![s] = {}]
  BY DEF TakeTrigger
<1>2. UNCHANGED <<controlVars, audioVars, tap_ring, loopVars, slots, meter, seen, fired, dropped>>
  BY DEF TakeTrigger
<1>3. UNCHANGED <<manifest, control, plan_ring, replans, lost_plans, lost_manifests, obs_gen>>
  BY <1>2 DEF controlVars, loopVars
<1>4. latest' = latest /\ \A g, z : TapAt(g, z)' = TapAt(g, z) BY <1>3, SameTaps
<1>5. ReloadInv' /\ AudioInv'
  BY <1>2, <1>3, OthersKept DEF TapInv, AudioInv
<1>6. LoopInv' BY <1>2, <1>3, <1>4 DEF TapInv, LoopInv, loopVars
<1>7. led \in [Slot -> SUBSET Tap] BY DEF TapInv, SurfaceInv, SurfaceTypes
<1>8. led' \in [Slot -> SUBSET Tap] /\ \A z \in Slot : led'[z] = IF z = s THEN {} ELSE led[z]
  BY <1>1, <1>7
<1>9. SurfaceTypes' BY <1>1, <1>2, <1>7, <1>8 DEF TapInv, SurfaceInv, SurfaceTypes
<1>10. Wired' BY <1>2, <1>3, <1>4 DEF TapInv, SurfaceInv, Wired
<1>11. Quiet' /\ OwnHistory'
  BY <1>2, <1>3 DEF TapInv, SurfaceInv, Quiet, OwnHistory
<1>12. CellsCurrent'
  BY <1>2, <1>3, <1>8 DEF TapInv, SurfaceInv, CellsCurrent
<1>13. FiresKept'
  <2> SUFFICES ASSUME NEW t \in fired'
               PROVE  t \in shown' \cup dropped' \cup UNION {led'[z] : z \in Slot}
    BY DEF FiresKept
  <2>1. t \in shown \cup dropped \cup UNION {led[z] : z \in Slot}
    BY <1>2 DEF TapInv, SurfaceInv, FiresKept
  <2>2. ASSUME NEW z \in Slot, t \in led[z]
        PROVE  t \in shown' \cup UNION {led'[y] : y \in Slot}
    <3>1. CASE z = s BY <1>1, <2>2, <3>1
    <3>2. CASE z # s BY <1>8, <2>2, <3>2
    <3> QED BY <3>1, <3>2
  <2> QED BY <1>1, <1>2, <2>1, <2>2
<1>14. SurfaceInv' BY <1>9, <1>10, <1>11, <1>12, <1>13 DEF SurfaceInv
<1> QED BY <1>5, <1>6, <1>14 DEF TapInv

-----------------------------------------------------------------------------
(* The invariant, and what it says of the surface.                          *)

LEMMA TapInit == Init => TapInv
<1> SUFFICES ASSUME Init PROVE TapInv
  OBVIOUS
<1>1. /\ manifest \in Seq(Manifests) /\ latest = 0
      /\ replans \in Seq(1..latest) /\ Len(replans) = 0
      /\ block \in Seq(Samples(latest)) /\ Len(block) = 0
      /\ tap_ring \in Seq(Frames(latest)) /\ Len(tap_ring) = 0
  BY EmptySeq DEF Init, latest
<1>2. {Block, TapRing, ReplanRing} \subseteq Nat \ {0} /\ MaxReloads \in Nat /\ MaxFires \in Nat
  BY TapAssumption
<1>3. ReloadInv BY <1>1, <1>2 DEF Init, ReloadInv
<1>4. AudioInv BY <1>1, <1>2 DEF Init, AudioInv
<1>5. LoopInv BY <1>1 DEF Init, LoopInv
<1>6. SurfaceInv
  <2>1. /\ slots = [s \in Slot |-> NoProcessors] /\ meter = [s \in Slot |-> {}]
        /\ led = [s \in Slot |-> {}] /\ seen = 0 /\ obs_gen = 0
        /\ fired = {} /\ shown = {} /\ dropped = {}
    BY DEF Init
  <2>2. \A s \in Slot : slots[s].tap = NoTap /\ slots[s].heard = {} /\ TapAt(0, s) = NoTap
    BY <2>1 DEF NoProcessors, TapAt
  <2>3. SurfaceTypes BY <2>1 DEF SurfaceTypes, NoProcessors
  <2>4. Wired BY <2>1, <2>2 DEF Wired
  <2>5. Quiet BY <2>1 DEF Quiet
  <2>6. OwnHistory BY <2>2 DEF OwnHistory
  <2>7. CellsCurrent BY <2>1, <2>2 DEF CellsCurrent
  <2>8. FiresKept BY <2>1 DEF FiresKept
  <2> QED BY <2>3, <2>4, <2>5, <2>6, <2>7, <2>8 DEF SurfaceInv
<1> QED BY <1>3, <1>4, <1>5, <1>6 DEF TapInv

LEMMA TapStep == TapInv /\ [Next]_vars => TapInv'
<1> SUFFICES ASSUME TapInv, [Next]_vars PROVE TapInv'
  OBVIOUS
<1>1. CASE Control
  BY <1>1, ReloadStep, PlanStep, PublishStep DEF Control
<1>2. CASE Adopt BY <1>2, AdoptStep
<1>3. CASE Tick BY <1>3, TickStep
<1>4. CASE Observe
  BY <1>4, ApplyStep, BeginStep, BlockStep, EndStep DEF Observe
<1>5. CASE TakeTrigger BY <1>5, TakeStep
<1>6. CASE UNCHANGED vars
  <2>1. UNCHANGED <<controlVars, audioVars, tap_ring, loopVars, surfaceVars, historyVars>>
    BY <1>6 DEF vars
  <2>2. UNCHANGED <<manifest, control, plan_ring, replans, lost_plans, lost_manifests, obs_gen>>
    BY <2>1 DEF controlVars, loopVars
  <2>3. latest' = latest BY <2>2, SameTaps
  <2>4. ReloadInv' /\ AudioInv'
    BY <2>1, <2>2, OthersKept DEF TapInv, AudioInv
  <2>5. LoopInv' BY <2>1, <2>2, <2>3 DEF TapInv, LoopInv, loopVars, historyVars
  <2> QED BY <2>1, <2>2, <2>4, <2>5, SurfaceAside
<1> QED BY <1>1, <1>2, <1>3, <1>4, <1>5, <1>6 DEF Next

\* Every block in the ring carries the generation of its first sample, the
\* processors are those of the manifest in force, and the replans on their way
\* are newer than it: what the three rings between the control thread, the
\* audio thread and the observer guarantee together.
THEOREM TapInvariant == Spec => []TapInv
<1>1. Init => TapInv BY TapInit
<1>2. TapInv /\ [Next]_vars => TapInv' BY TapStep
<1> QED BY <1>1, <1>2, PTL DEF Spec

\* No processor is ever fed from another tap's slot, save by the samples of a
\* block that was being filled while its plan was replaced: the generation
\* filter of process_block, for any number of taps, blocks and reloads, and
\* with plans and manifests dropped.
THEOREM HistoriesOwn == Spec => []OwnHistory
<1>1. TapInv => OwnHistory BY DEF TapInv, SurfaceInv
<1> QED BY <1>1, TapInvariant, PTL

LEMMA TapTypes == TapInv => TypeOK
<1> SUFFICES ASSUME TapInv PROVE TypeOK
  OBVIOUS
<1>1. /\ ReloadInv /\ AudioInv /\ LoopInv /\ SurfaceTypes
  BY DEF TapInv, SurfaceInv
<1>2. latest \in Nat /\ latest <= MaxReloads /\ MaxReloads \in Nat
  BY <1>1, TapAssumption DEF ReloadInv
<1>3. \A g \in 0..latest : g \in 0..MaxReloads BY <1>2
<1>4. \A g \in 1..latest : g \in Generation BY <1>2 DEF Generation
<1>5. manifest \in UNION {[1..n -> Manifests] : n \in 0..MaxReloads}
  <2>1. manifest \in [1..latest -> Manifests]
    BY <1>1, LenProperties DEF ReloadInv, latest
  <2>2. latest \in 0..MaxReloads BY <1>2
  <2> QED BY <2>1, <2>2
<1>6. plan_ring \in {<<>>} \cup {<<g>> : g \in Generation}
  BY <1>1, <1>4 DEF ReloadInv
<1>7. Len(replans) <= ReplanRing /\ \A i \in DOMAIN replans : replans[i] \in Generation
  <2>1. DOMAIN replans = 1..Len(replans) BY <1>1, LenProperties DEF ReloadInv
  <2>2. \A i \in 1..Len(replans) : replans[i] \in 1..latest
    BY <1>1, ElementOfSeq DEF ReloadInv
  <2> QED BY <1>1, <1>4, <2>1, <2>2 DEF ReloadInv
<1>8. {plan_gen, stamp, obs_gen, seen} \subseteq 0..MaxReloads /\ fires \in 0..MaxFires
  BY <1>1, <1>3 DEF AudioInv, LoopInv
<1>9. Len(block) < Block /\ \A i \in DOMAIN block : block[i] \in Sample
  <2>1. DOMAIN block = 1..Len(block) BY <1>1, LenProperties DEF AudioInv
  <2>2. \A i \in 1..Len(block) : block[i] \in Samples(latest)
    BY <1>1, ElementOfSeq DEF AudioInv
  <2>3. \A x \in Samples(latest) : x \in Sample BY <1>3 DEF Samples, Sample
  <2> QED BY <1>1, <2>1, <2>2, <2>3 DEF AudioInv
<1>10. /\ Len(tap_ring) <= TapRing
       /\ \A i \in DOMAIN tap_ring : /\ tap_ring[i].stamp \in 0..MaxReloads
                                     /\ Len(tap_ring[i].samples) = Block
  <2>1. DOMAIN tap_ring = 1..Len(tap_ring) BY <1>1, LenProperties DEF AudioInv
  <2>2. \A i \in 1..Len(tap_ring) : tap_ring[i] \in Frames(latest)
    BY <1>1, ElementOfSeq DEF AudioInv
  <2>3. ASSUME NEW f \in Frames(latest)
        PROVE  f.stamp \in 0..MaxReloads /\ Len(f.samples) = Block
    <3>1. f.stamp \in 0..latest /\ f.samples \in [1..Block -> Samples(latest)]
      BY DEF Frames
    <3>2. Block \in Nat BY TapAssumption
    <3>3. f.samples \in Seq(Samples(latest)) BY <3>1, <3>2 DEF Seq
    <3>4. DOMAIN f.samples = 1..Block BY <3>1
    <3>5. Len(f.samples) = Block BY <3>2, <3>3, <3>4, LenProperties
    <3> QED BY <1>3, <3>1, <3>5
  <2> QED BY <1>1, <2>1, <2>2, <2>3 DEF AudioInv
<1>11. /\ observer \in {"replans", "drain", "blocks"}
       /\ batch <= Len(tap_ring) /\ done <= batch
  BY <1>1 DEF LoopInv
<1>12. lost_plans \subseteq Generation /\ lost_manifests \subseteq Generation
  BY <1>1, <1>4 DEF ReloadInv
<1>13. control \in {"idle", "blocking", "offering", "publishing"}
  BY <1>1 DEF ReloadInv
<1> QED BY <1>1, <1>5, <1>6, <1>7, <1>8, <1>9, <1>10, <1>11, <1>12, <1>13
        DEF TypeOK, SurfaceTypes

\* What the UI reads is what the observer has: apply_manifest clears the cells
\* of slots that lose their tap, process_block refreshes the others, and a
\* trigger fire stays in its cell until take_trigger claims it or a reload
\* takes the cell away.
THEOREM CellsAlwaysKept == Spec => []CellsKept
<1>1. TapInv => CellsKept
  BY TapTypes DEF TapInv, SurfaceInv, CellsKept
<1> QED BY <1>1, TapInvariant, PTL

\* A tap sits in one slot.
LEMMA OneSlot ==
  ASSUME TapInv, NEW s \in Slot, NEW z \in Slot,
         slots[s].tap # NoTap, slots[z].tap = slots[s].tap
  PROVE  s = z
<1>1. slots[s].tap = TapAt(obs_gen, s) /\ slots[z].tap = TapAt(obs_gen, z)
  BY DEF TapInv, SurfaceInv, Wired
<1>2. manifest \in Seq(Manifests) /\ obs_gen \in 0..latest
  BY DEF TapInv, ReloadInv, LoopInv
<1> QED BY <1>1, <1>2, TapFacts

LEMMA HistoryStep ==
  ASSUME TapInv, [Next]_vars, NEW s \in Slot, NEW z \in Slot,
         slots[s].tap # NoTap, slots'[z].tap = slots[s].tap
  PROVE  slots[s].heard \subseteq slots'[z].heard
<1>1. CASE slots' = slots BY <1>1, OneSlot
<1>2. CASE ApplyReplans /\ replans # <<>>
  <2> DEFINE n == Len(replans)
             g == replans[n]
  <2>1. g \in 0..latest
    <3>1. replans \in Seq(1..latest) /\ latest \in Nat
      BY TapAssumption DEF TapInv, ReloadInv
    <3>2. n \in Nat /\ n # 0 BY <1>2, <3>1, EmptySeq, LenProperties
    <3>3. g \in 1..latest BY <3>1, <3>2, ElementOfSeq
    <3> QED BY <3>1, <3>3
  <2>2. slots' = Rewired(g) BY <1>2 DEF ApplyReplans
  <2> HIDE DEF g
  <2>3. slots'[z].tap = TapAt(g, z) BY <2>1, <2>2, RewiredFacts
  <2>4. PICK y \in Slot : slots[y].tap = TapAt(g, z) /\ slots'[z] = slots[y]
    BY <2>1, <2>2, <2>3, RewiredFacts
  <2>5. y = s BY <2>3, <2>4, OneSlot
  <2> QED BY <2>4, <2>5
<1>3. CASE ProcessBlock
  <2>1. CASE slots' = slots BY <1>1, <2>1
  <2>2. CASE slots' = [x \in Slot |-> Fed(slots[x], tap_ring[done + 1], x)]
    <3>1. slots[z] \in [tap : Tap \cup {NoTap}, heard : SUBSET Source]
      BY DEF TapInv, SurfaceInv, SurfaceTypes
    <3>2. slots'[z] = Fed(slots[z], tap_ring[done + 1], z) BY <2>2
    <3>3. slots'[z].tap = slots[z].tap /\ slots[z].heard \subseteq slots'[z].heard
      BY <3>1, <3>2 DEF Fed
    <3>4. z = s BY <3>3, OneSlot
    <3> QED BY <3>3, <3>4
  <2> QED BY <1>3, <2>1, <2>2 DEF ProcessBlock, surfaceVars
<1>4. CASE Control \/ Adopt \/ Tick \/ BeginDrain \/ EndDrain \/ TakeTrigger \/ UNCHANGED vars
           \/ (ApplyReplans /\ replans = <<>>)
  <2>1. slots' = slots
    BY <1>4 DEF Control, Reload, PlanAccepted, PlanDropped, Publish, Adopt, Tick, BeginDrain,
                EndDrain, TakeTrigger, ApplyReplans, vars, surfaceVars
  <2> QED BY <1>1, <2>1
<1> QED BY <1>2, <1>3, <1>4 DEF Next, Observe

\* Reuse is by name: apply_manifest keeps the processors of a tap that the
\* next manifest still lists, in whatever slot, and no other step of any
\* thread shortens what they have been fed.
THEOREM HistoriesKept == Spec => HistoryKept
<1>1. TapInv /\ [Next]_vars
      => [\A s, z \in Slot : slots[s].tap # NoTap /\ slots'[z].tap = slots[s].tap
                             => slots[s].heard \subseteq slots'[z].heard]_vars
  BY HistoryStep
<1> QED BY <1>1, TapInvariant, PTL DEF Spec, HistoryKept
================================================================================
