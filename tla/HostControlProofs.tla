--------------------------- MODULE HostControlProofs ---------------------------
(***************************************************************************)
(* A parameter id of HostControls is never rebound, and the table of the   *)
(* audio thread takes every id to its own control, for any number of names *)
(* and kinds, any patches and any size of the tombstone table.             *)
(*                                                                         *)
(* RegistryInv is about the registry alone: ids already handed out are     *)
(* below next_id, so a fresh one is new, and whatever holds an id holds it *)
(* for the name and kind it was minted for.  DiffInv says how far the diff *)
(* of the manifest under application has come; when it is done, the live   *)
(* entries are the manifest's.  RoutedInv carries that into the tables of  *)
(* the plan on its way and of the plan adopted: minted only grows, so a    *)
(* table stays right for its own plan while the registry moves on.         *)
(* RecordingInv says that the names still to be recorded are live, so that *)
(* each value lands under its own id.                                      *)
(*                                                                         *)
(* That the registry stays within its types and its table, and forgets no  *)
(* more than it has to, is the second part.  MemoryInv says where the id   *)
(* of every control ever declared is still held, until there were more     *)
(* controls than the table of tombstones has room for; KeptFits is what    *)
(* eviction does to that table.                                            *)
(***************************************************************************)
EXTENDS HostControls, TLAPS, FiniteSetTheorems

Minted(i, n, k) == [id |-> i, name |-> n, kind |-> k] \in minted

RegistryInv ==
  /\ next_id \in Nat
  /\ \A x \in minted : /\ x.id \in Nat /\ x.id < next_id
                       /\ x = [id |-> x.id, name |-> x.name, kind |-> x.kind]
  /\ \A n \in DOMAIN live :
       live[n] = [id |-> live[n].id, kind |-> live[n].kind,
                  slot |-> live[n].slot, value |-> live[n].value]
  /\ IdsNeverRebound
  /\ RecordedIsOwn

\* Of the manifest under application, the names not in rest are live as it says.
DiffInv ==
  main = "applying" =>
    /\ rest \subseteq DOMAIN work /\ DOMAIN live \subseteq DOMAIN work
    /\ \A n \in DOMAIN work \ rest :
         n \in DOMAIN live /\ live[n].kind = work[n] /\ live[n].slot = SlotIn(work, n)

\* The names still to be recorded are live.
RecordingInv == main \in {"seeding", "restoring"} => rest \subseteq DOMAIN live

\* table is right for the patch m.
RightFor(table, m) ==
  /\ \A i \in DOMAIN table :
       \E x \in minted : /\ x.id = i /\ x.name \in DOMAIN m
                         /\ x.kind = m[x.name] /\ table[i] = SlotIn(m, x.name)
  /\ \A n \in DOMAIN m : \E i \in DOMAIN table : table[i] = SlotIn(m, n)

RoutedInv ==
  /\ RightFor(routing, layout)
  /\ \A plan \in plan_ring : RightFor(Routed(plan), plan.layout)

ControlInv == RegistryInv /\ DiffInv /\ RoutedInv

-----------------------------------------------------------------------------
LEMMA ControlInit == Init => ControlInv
<1> SUFFICES ASSUME Init PROVE ControlInv OBVIOUS
<1>1. RegistryInv
  BY DEF Init, RegistryInv, IdsNeverRebound, RecordedIsOwn, Empty
<1>2. DiffInv BY DEF Init, DiffInv
<1>3. RoutedInv BY DEF Init, RoutedInv, RightFor, Empty
<1> QED BY <1>1, <1>2, <1>3 DEF ControlInv

\* A step that leaves the registry alone.
LEMMA RegistryUnchanged == ASSUME RegistryInv, UNCHANGED registryVars PROVE RegistryInv'
  BY DEF RegistryInv, IdsNeverRebound, RecordedIsOwn, registryVars

\* Tables are not disturbed by ids minted later.
LEMMA TablesKept ==
  ASSUME RoutedInv, minted \subseteq minted', UNCHANGED <<layout, routing, plan_ring>>
  PROVE  RoutedInv'
  BY DEF RoutedInv, RightFor, Routed

LEMMA RemoveKeeps == ASSUME RegistryInv, RemoveNames PROVE RegistryInv' /\ DiffInv'
<1> DEFINE removed == DOMAIN live \ DOMAIN work
           kept == IF removed = {} THEN DOMAIN tombstones
                   ELSE KeptOf(DOMAIN tombstones, Cardinality(removed))
<1>1. kept \subseteq DOMAIN tombstones BY DEF KeptOf
<1>2. tombstones' = [n \in kept \cup removed |->
                       IF n \in removed THEN Buried(live[n], epoch + 1) ELSE tombstones[n]]
  BY DEF RemoveNames
<1>3. live' = [n \in DOMAIN live \cap DOMAIN work |-> live[n]]
  BY DEF RemoveNames
<1>4. \A n \in DOMAIN tombstones' :
        \/ n \in DOMAIN live /\ tombstones'[n].id = live[n].id
           /\ tombstones'[n].kind = live[n].kind /\ tombstones'[n].value = live[n].value
        \/ n \in DOMAIN tombstones /\ tombstones'[n] = tombstones[n]
  <2> HIDE DEF kept
  <2> QED BY <1>1, <1>2 DEF Buried
<1>5. UNCHANGED <<next_id, minted>> BY DEF RemoveNames
<1>6. IdsNeverRebound' /\ RecordedIsOwn'
  BY <1>3, <1>4, <1>5 DEF RegistryInv, IdsNeverRebound, RecordedIsOwn
<1>7. RegistryInv' BY <1>3, <1>5, <1>6 DEF RegistryInv
<1>8. DiffInv' BY <1>3 DEF RemoveNames, DiffInv
<1> QED BY <1>7, <1>8

\* The fresh entry of Mint is under an id nothing else holds.
LEMMA MintKeeps ==
  ASSUME RegistryInv, NEW n, Mint(n),
         \A k \in DOMAIN tombstones' :
           Minted(tombstones'[k].id, k, tombstones'[k].kind) /\ tombstones'[k].value \in {0, k}
  PROVE  RegistryInv' /\ minted \subseteq minted'
<1>1. next_id \in Nat /\ next_id' = next_id + 1 BY DEF RegistryInv, Mint
<1>2. minted' = minted \cup {[id |-> next_id, name |-> n, kind |-> work[n]]} BY DEF Mint
<1>3. live' = [k \in DOMAIN live \cup {n} |-> IF k = n THEN Entry(next_id, n, 0) ELSE live[k]]
  BY DEF Mint, SetLive
<1>4. \A x \in minted' : /\ x.id \in Nat /\ x.id < next_id'
                         /\ x = [id |-> x.id, name |-> x.name, kind |-> x.kind]
  BY <1>1, <1>2 DEF RegistryInv
<1>5. \A x, y \in minted' : x.id = y.id => x = y
  BY <1>1, <1>2 DEF RegistryInv, IdsNeverRebound
<1>6. \A k \in DOMAIN live' :
        /\ live'[k] = [id |-> live'[k].id, kind |-> live'[k].kind,
                       slot |-> live'[k].slot, value |-> live'[k].value]
        /\ [id |-> live'[k].id, name |-> k, kind |-> live'[k].kind] \in minted'
        /\ live'[k].value \in {0, k}
  BY <1>2, <1>3 DEF RegistryInv, IdsNeverRebound, RecordedIsOwn, Entry
<1>7. \A k \in DOMAIN tombstones' :
        /\ [id |-> tombstones'[k].id, name |-> k, kind |-> tombstones'[k].kind] \in minted'
        /\ tombstones'[k].value \in {0, k}
  BY <1>2 DEF Minted
<1>8. next_id' \in Nat BY <1>1
<1> QED BY <1>2, <1>4, <1>5, <1>6, <1>7, <1>8 DEF RegistryInv, IdsNeverRebound, RecordedIsOwn

\* One descriptor, whichever case it falls under.
LEMMA DescriptorKeeps ==
  ASSUME RegistryInv, NEW n \in DOMAIN work,
         StaysLive(n) \/ ChangesKind(n) \/ Reborn(n) \/ Added(n)
  PROVE  RegistryInv' /\ minted \subseteq minted'
<1> USE DEF Minted
<1>1. CASE StaysLive(n)
  BY <1>1 DEF StaysLive, SetLive, Entry, RegistryInv, IdsNeverRebound, RecordedIsOwn
<1>2. CASE Reborn(n)
  BY <1>2 DEF Reborn, IsReborn, SetLive, Entry, RegistryInv, IdsNeverRebound, RecordedIsOwn
<1>3. CASE ChangesKind(n)
  <2> DEFINE kept == KeptOf(DOMAIN tombstones, 1)
  <2>1. kept \subseteq DOMAIN tombstones BY DEF KeptOf
  <2>2. tombstones' = [k \in kept \cup {n} |->
                         IF k = n THEN Buried(live[n], epoch) ELSE tombstones[k]]
    BY <1>3 DEF ChangesKind, Bury
  <2> HIDE DEF kept
  <2>3. \A k \in DOMAIN tombstones' :
          Minted(tombstones'[k].id, k, tombstones'[k].kind) /\ tombstones'[k].value \in {0, k}
    BY <1>3, <2>1, <2>2
    DEF ChangesKind, Buried, RegistryInv, IdsNeverRebound, RecordedIsOwn
  <2> QED BY <1>3, <2>3, MintKeeps DEF ChangesKind
<1>4. CASE Added(n)
  <2> DEFINE kept == KeptOf(DOMAIN tombstones \ {n}, 1)
  <2>1. kept \subseteq DOMAIN tombstones BY DEF KeptOf
  <2>2. \/ UNCHANGED tombstones
        \/ /\ n \in DOMAIN tombstones
           /\ tombstones' = [k \in kept \cup {n} |->
                               IF k = n THEN tombstones[n] ELSE tombstones[k]]
    BY <1>4 DEF Added, Bury
  <2> HIDE DEF kept
  <2>3. \A k \in DOMAIN tombstones' :
          Minted(tombstones'[k].id, k, tombstones'[k].kind) /\ tombstones'[k].value \in {0, k}
    BY <2>1, <2>2 DEF RegistryInv, IdsNeverRebound, RecordedIsOwn
  <2> QED BY <1>4, <2>3, MintKeeps DEF Added
<1> QED BY <1>1, <1>2, <1>3, <1>4

\* The diff advances by the least name of rest.
LEMMA DescriptorAdvances ==
  ASSUME DiffInv, ApplyDescriptor
  PROVE  DiffInv'
<1>1. PICK n \in rest : /\ StaysLive(n) \/ ChangesKind(n) \/ Reborn(n) \/ Added(n)
                        /\ rest' = rest \ {n}
  BY DEF ApplyDescriptor
<1>2. UNCHANGED <<main, work>> /\ main = "applying" BY DEF ApplyDescriptor
<1>3. \E i, v : live' = [k \in DOMAIN live \cup {n} |->
                           IF k = n THEN Entry(i, n, v) ELSE live[k]]
  BY <1>1 DEF StaysLive, ChangesKind, Reborn, Added, Mint, SetLive
<1>4. SlotIn(work, n)' = SlotIn(work, n) /\ \A k : SlotIn(work', k) = SlotIn(work, k)
  BY <1>2
<1>5. PICK i, v : live' = [k \in DOMAIN live \cup {n} |->
                             IF k = n THEN Entry(i, n, v) ELSE live[k]]
  BY <1>3
<1>6. /\ rest \subseteq DOMAIN work /\ DOMAIN live \subseteq DOMAIN work
      /\ \A k \in DOMAIN work \ rest :
           k \in DOMAIN live /\ live[k].kind = work[k] /\ live[k].slot = SlotIn(work, k)
  BY <1>2 DEF DiffInv
<1>7. \A k \in DOMAIN work \ rest' :
        k \in DOMAIN live' /\ live'[k].kind = work[k] /\ live'[k].slot = SlotIn(work, k)
  BY <1>1, <1>5, <1>6 DEF Entry
<1> QED BY <1>1, <1>2, <1>4, <1>5, <1>6, <1>7 DEF DiffInv

\* What build_routing makes of the registry when the diff is done.
LEMMA RoutingIsRight ==
  ASSUME RegistryInv, DiffInv, main = "applying", rest = {}
  PROVE  RightFor(Routing, work)
<1>1. /\ DOMAIN live = DOMAIN work
      /\ \A n \in DOMAIN work : live[n].kind = work[n] /\ live[n].slot = SlotIn(work, n)
  BY DEF DiffInv
<1>2. \A n, k \in DOMAIN live : live[n].id = live[k].id => n = k
  <2> SUFFICES ASSUME NEW n \in DOMAIN live, NEW k \in DOMAIN live, live[n].id = live[k].id
               PROVE  n = k
    OBVIOUS
  <2>1. /\ [id |-> live[n].id, name |-> n, kind |-> live[n].kind] \in minted
        /\ [id |-> live[k].id, name |-> k, kind |-> live[k].kind] \in minted
    BY DEF RegistryInv, IdsNeverRebound
  <2>2. [id |-> live[n].id, name |-> n, kind |-> live[n].kind]
          = [id |-> live[k].id, name |-> k, kind |-> live[k].kind]
    BY <2>1 DEF RegistryInv, IdsNeverRebound
  <2> QED BY <2>2
<1>3. DOMAIN Routing = {live[n].id : n \in DOMAIN live} BY DEF Routing
<1>4. \A n \in DOMAIN live : Routing[live[n].id] = live[n].slot
  BY <1>2 DEF Routing
<1>5. \A i \in DOMAIN Routing :
        \E x \in minted : /\ x.id = i /\ x.name \in DOMAIN work
                          /\ x.kind = work[x.name] /\ Routing[i] = SlotIn(work, x.name)
  <2> TAKE i \in DOMAIN Routing
  <2>1. PICK n \in DOMAIN live : live[n].id = i BY <1>3
  <2>2. [id |-> i, name |-> n, kind |-> live[n].kind] \in minted
    BY <2>1 DEF RegistryInv, IdsNeverRebound
  <2>3. WITNESS [id |-> i, name |-> n, kind |-> live[n].kind] \in minted
  <2> QED BY <1>1, <1>4, <2>1
<1>6. \A n \in DOMAIN work : \E i \in DOMAIN Routing : Routing[i] = SlotIn(work, n)
  BY <1>1, <1>3, <1>4
<1> QED BY <1>5, <1>6 DEF RightFor

\* A pushed table waits in the ring; activation adopts it at once.
LEMMA PushKeeps == ASSUME ControlInv, Push PROVE ControlInv'
<1> DEFINE plan == [layout |-> work, routing |-> Routing]
<1>1. RightFor(Routing, work) BY RoutingIsRight DEF ControlInv, Push
<1>2. RightFor(Routed(plan), work)
  BY <1>1 DEF Routed, RightFor, Empty
<1>3. UNCHANGED registryVars /\ main' # "applying" BY DEF Push
<1>4. \/ layout' = work /\ routing' = Routed(plan) /\ plan_ring' = plan_ring
      \/ layout' = layout /\ routing' = routing /\ plan_ring' = {plan}
  BY DEF Push, Adopts
<1>5. plan.layout = work OBVIOUS
<1> HIDE DEF plan
<1>6. RightFor(routing, layout) /\ \A p \in plan_ring : RightFor(Routed(p), p.layout)
  BY DEF ControlInv, RoutedInv
<1>7. minted' = minted BY <1>3 DEF registryVars
<1>8. RightFor(routing, layout)'
  BY <1>2, <1>4, <1>6, <1>7 DEF RightFor
<1>9. \A p \in plan_ring' : RightFor(Routed(p), p.layout)
  BY <1>2, <1>4, <1>5, <1>6
<1>10. RoutedInv'
  BY <1>7, <1>8, <1>9 DEF RoutedInv, RightFor, Routed
<1> QED BY <1>3, <1>10, RegistryUnchanged DEF ControlInv, DiffInv

\* Adoption moves a right table from the ring to the audio thread.
LEMMA ProcessKeeps == ASSUME ControlInv, Process PROVE ControlInv'
<1>1. UNCHANGED <<live, tombstones, next_id, minted, main, rest, work>> /\ plan_ring' = {}
  BY DEF Process, registryVars, mainVars
<1>2. \/ layout' = layout /\ routing' = routing
      \/ \E plan \in plan_ring : layout' = plan.layout /\ routing' = Routed(plan)
  BY DEF Process, AdoptPending, Adopts
<1>3. RoutedInv' BY <1>1, <1>2 DEF ControlInv, RoutedInv, RightFor
<1>4. RegistryInv'
  BY <1>1 DEF ControlInv, RegistryInv, IdsNeverRebound, RecordedIsOwn
<1>5. DiffInv' BY <1>1 DEF ControlInv, DiffInv, SlotIn
<1> QED BY <1>3, <1>4, <1>5 DEF ControlInv

\* record_value with a value meant for the control the id stands for.
LEMMA RecordedKeeps ==
  ASSUME RegistryInv, NEW e, Meant(e), live' = Recorded(e),
         UNCHANGED <<tombstones, next_id, minted>>
  PROVE  /\ RegistryInv' /\ DOMAIN live' = DOMAIN live
         /\ \A n \in DOMAIN live : /\ live'[n].id = live[n].id /\ live'[n].kind = live[n].kind
                                  /\ live'[n].slot = live[n].slot
<1>1. live' = [n \in DOMAIN live |->
                 IF live[n].id = e.id THEN [live[n] EXCEPT !.value = e.value] ELSE live[n]]
  BY DEF Recorded
<1>2. ASSUME NEW n \in DOMAIN live, live[n].id = e.id PROVE e.value \in {0, n}
  <2>1. PICK x \in minted : x.id = e.id /\ e.value \in {0, x.name} BY DEF Meant
  <2>2. [id |-> live[n].id, name |-> n, kind |-> live[n].kind] \in minted
    BY DEF RegistryInv, IdsNeverRebound
  <2>3. x = [id |-> live[n].id, name |-> n, kind |-> live[n].kind]
    BY <1>2, <2>1, <2>2 DEF RegistryInv, IdsNeverRebound
  <2> QED BY <2>1, <2>3
<1>3. \A n \in DOMAIN live' :
        /\ n \in DOMAIN live /\ live'[n].id = live[n].id /\ live'[n].kind = live[n].kind
        /\ live'[n].slot = live[n].slot /\ live'[n].value \in {0, n}
        /\ live'[n] = [id |-> live'[n].id, kind |-> live'[n].kind,
                       slot |-> live'[n].slot, value |-> live'[n].value]
  BY <1>1, <1>2 DEF RegistryInv, RecordedIsOwn
<1>4. DOMAIN live' = DOMAIN live BY <1>1
<1>5. RegistryInv'
  BY <1>3 DEF RegistryInv, IdsNeverRebound, RecordedIsOwn
<1> QED BY <1>3, <1>4, <1>5

\* A flushed value is recorded under the id it came with, which is its control's.
LEMMA FlushKeeps == ASSUME ControlInv, Flush PROVE ControlInv'
<1>1. PICK e \in HostEvent : Meant(e) /\ live' = Recorded(e) BY DEF Flush
<1>2. UNCHANGED <<tombstones, next_id, minted, main, rest, work, layout, routing, plan_ring>>
  BY DEF Flush, mainVars
<1>3. /\ RegistryInv' /\ DOMAIN live' = DOMAIN live
      /\ \A n \in DOMAIN live : /\ live'[n].id = live[n].id /\ live'[n].kind = live[n].kind
                               /\ live'[n].slot = live[n].slot
  BY <1>1, <1>2, RecordedKeeps DEF ControlInv
<1>4. DiffInv' BY <1>2, <1>3 DEF ControlInv, DiffInv, SlotIn
<1>5. RoutedInv' BY <1>2, TablesKept DEF ControlInv
<1> QED BY <1>3, <1>4, <1>5 DEF ControlInv

\* Recording values changes no entry, or records a live control's own value under its id.
LEMMA RecordCases ==
  ASSUME RecordingInv, Record
  PROVE  \/ UNCHANGED live
         \/ \E n \in DOMAIN live : live' = Recorded(ValueFor(n))
<1>1. CASE StartSeeding \/ StartRestoring \/ EndRecording
  BY <1>1 DEF StartSeeding, StartRestoring, EndRecording
<1>2. CASE SeedDefault
  BY <1>2 DEF SeedDefault, RecordingInv
<1>3. CASE RestoreValue
  BY <1>3 DEF RestoreValue, RecordingInv
<1> QED BY <1>1, <1>2, <1>3 DEF Record

\* Defaults and saved values are each control's own.
LEMMA RecordKeeps == ASSUME ControlInv, RecordingInv, Record PROVE ControlInv'
<1>1. UNCHANGED <<tombstones, next_id, minted, layout, routing, plan_ring>>
  BY DEF Record, audioVars
<1>2. main' # "applying"
  BY DEF Record, StartSeeding, SeedDefault, StartRestoring, RestoreValue, EndRecording
<1>3. RegistryInv'
  <2>1. CASE UNCHANGED live
    BY <1>1, <2>1, RegistryUnchanged DEF ControlInv, RegistryInv, IdsNeverRebound, RecordedIsOwn
  <2>2. ASSUME NEW n \in DOMAIN live, live' = Recorded(ValueFor(n)) PROVE RegistryInv'
    <3>1. PICK e : e = ValueFor(n) OBVIOUS
    <3>2. [id |-> live[n].id, name |-> n, kind |-> live[n].kind] \in minted
      BY DEF ControlInv, RegistryInv, IdsNeverRebound
    <3>3. Meant(e) BY <3>1, <3>2 DEF Meant, ValueFor
    <3> QED BY <1>1, <2>2, <3>1, <3>3, RecordedKeeps DEF ControlInv
  <2> QED BY <2>1, <2>2, RecordCases
<1>4. DiffInv' BY <1>2 DEF DiffInv
<1>5. RoutedInv' BY <1>1, TablesKept DEF ControlInv
<1> QED BY <1>3, <1>4, <1>5 DEF ControlInv

LEMMA DeactivateKeeps == ASSUME ControlInv, Deactivate PROVE ControlInv'
<1>1. UNCHANGED registryVars /\ main' = "idle" BY DEF Deactivate, mainVars
<1>2. routing' = Empty /\ layout' = Empty /\ plan_ring' = {} BY DEF Deactivate
<1>3. RoutedInv' BY <1>2 DEF RoutedInv, RightFor, Empty
<1> QED BY <1>1, <1>3, RegistryUnchanged DEF ControlInv, DiffInv

\* The actions that only begin something.
Beginning ==
  \/ Activate
  \/ \E m \in Manifests \cup {Broken} : LoadPath(m)
  \/ \E m \in Manifests \cup {Broken}, values \in SavedSets : StateLoad(m, values)

LEMMA BeginningKeeps == ASSUME ControlInv, Beginning PROVE ControlInv'
<1>1. /\ UNCHANGED <<registryVars, layout, routing, plan_ring>> /\ main' # "applying"
  BY DEF Beginning, Activate, LoadPath, StateLoad, Compile, audioVars, mainVars
<1>2. minted' = minted BY <1>1 DEF registryVars
<1> QED BY <1>1, <1>2, RegistryUnchanged, TablesKept DEF ControlInv, DiffInv

LEMMA ControlStep == ASSUME ControlInv, RecordingInv, [Next]_vars PROVE ControlInv'
<1>1. CASE RemoveNames
  <2>1. UNCHANGED <<minted, layout, routing, plan_ring>> BY <1>1 DEF RemoveNames, audioVars
  <2> QED BY <1>1, <2>1, RemoveKeeps, TablesKept DEF ControlInv
<1>2. CASE ApplyDescriptor
  <2>1. PICK n \in rest : StaysLive(n) \/ ChangesKind(n) \/ Reborn(n) \/ Added(n)
    BY <1>2 DEF ApplyDescriptor
  <2>2. n \in DOMAIN work BY <1>2 DEF ApplyDescriptor, ControlInv, DiffInv
  <2>3. RegistryInv' /\ minted \subseteq minted'
    BY <2>1, <2>2, DescriptorKeeps DEF ControlInv
  <2>4. UNCHANGED <<layout, routing, plan_ring>> BY <1>2 DEF ApplyDescriptor, audioVars
  <2> QED BY <1>2, <2>3, <2>4, DescriptorAdvances, TablesKept DEF ControlInv
<1>3. CASE Push BY <1>3, PushKeeps
<1>4. CASE Record BY <1>4, RecordKeeps
<1>5. CASE Deactivate BY <1>5, DeactivateKeeps
<1>6. CASE Process BY <1>6, ProcessKeeps
<1>7. CASE Flush BY <1>7, FlushKeeps
<1>8. CASE Beginning BY <1>8, BeginningKeeps
<1>9. CASE UNCHANGED vars
  <2>1. UNCHANGED <<registryVars, main, rest, work, layout, routing, plan_ring>>
    BY <1>9 DEF vars, mainVars, audioVars
  <2>2. minted' = minted /\ live' = live BY <2>1 DEF registryVars
  <2>3. DiffInv' BY <2>1, <2>2 DEF ControlInv, DiffInv, SlotIn
  <2> QED BY <2>1, <2>2, <2>3, RegistryUnchanged, TablesKept DEF ControlInv
<1> QED BY <1>1, <1>2, <1>3, <1>4, <1>5, <1>6, <1>7, <1>8, <1>9 DEF Next, Beginning

-----------------------------------------------------------------------------
\* Between two values recorded nothing takes a name off the registry
\* (record_manifest_defaults and restore_pending_state hold the main thread).
LEMMA RecordingStep == ASSUME RecordingInv, [Next]_vars PROVE RecordingInv'
<1>1. CASE Record
  <2>1. DOMAIN live' = DOMAIN live BY <1>1, RecordCases DEF Recorded
  <2> QED BY <1>1, <2>1
    DEF RecordingInv, Record, StartSeeding, SeedDefault, StartRestoring, RestoreValue, EndRecording
<1>2. CASE RemoveNames \/ ApplyDescriptor \/ Push \/ Deactivate
  BY <1>2 DEF RecordingInv, RemoveNames, ApplyDescriptor, Push, Deactivate, mainVars
<1>3. CASE Beginning
  BY <1>3 DEF RecordingInv, Beginning, Activate, LoadPath, StateLoad, Compile, mainVars, registryVars
<1>4. CASE Process \/ UNCHANGED vars
  BY <1>4 DEF RecordingInv, Process, vars, mainVars, registryVars
<1>5. CASE Flush
  <2>1. DOMAIN live' = DOMAIN live BY <1>5 DEF Flush, Recorded
  <2> QED BY <1>5, <2>1 DEF RecordingInv, Flush, mainVars
<1> QED BY <1>1, <1>2, <1>3, <1>4, <1>5 DEF Next, Beginning

\* Recording only ever meets names the registry holds.
LEMMA RecordingInvariant == Spec => []RecordingInv
<1>1. Init => RecordingInv BY DEF Init, RecordingInv
<1> QED BY <1>1, RecordingStep, PTL DEF Spec

THEOREM ControlInvariant == Spec => []ControlInv
<1>1. Init => ControlInv BY ControlInit
<1>2. ControlInv /\ RecordingInv /\ [Next]_vars => ControlInv' BY ControlStep
<1> QED BY <1>1, <1>2, RecordingInvariant, PTL DEF Spec

\* An id handed out stands for one control of one kind for the whole session,
\* however the registry evicts, buries and revives (StandardHostControlRegistry).
THEOREM ControlIdsNeverRebound == Spec => []IdsNeverRebound
<1>1. ControlInv => IdsNeverRebound BY DEF ControlInv, RegistryInv
<1> QED BY <1>1, ControlInvariant, PTL

\* What the host reads back for a control was meant for it (record_value, and the
\* values tombstones carry).
THEOREM ControlRecordsOwn == Spec => []RecordedIsOwn
<1>1. ControlInv => RecordedIsOwn BY DEF ControlInv, RegistryInv
<1> QED BY <1>1, ControlInvariant, PTL

\* The audio thread's table is right for the plan it adopted, whatever the registry has
\* gone on to (build_routing, adopt_plan_with_meta).
THEOREM ControlRouted == Spec => []RoutedToItsName
<1>1. ControlInv => RoutedToItsName
  BY DEF ControlInv, RoutedInv, RightFor, RoutedToItsName
<1> QED BY <1>1, ControlInvariant, PTL

-----------------------------------------------------------------------------
(* The types, and the bound on what the registry forgets.                   *)

\* A name has been minted under two kinds.
TwoKinds(n) == \E y, z \in minted : y.name = n /\ z.name = n /\ y.kind # z.kind

Pairs == {<<z.name, z.kind>> : z \in minted}
Forgetful == Cardinality(Pairs) > MaxTombstones

Holds(table, x) == x.name \in DOMAIN table /\ table[x.name].id = x.id

RegistryTyped ==
  /\ DOMAIN live \subseteq Name /\ Cardinality(DOMAIN live) <= MaxTombstones
  /\ \A n \in DOMAIN live : live[n].kind \in Kind /\ live[n].slot \in Slot
  /\ DOMAIN tombstones \subseteq Name /\ Cardinality(DOMAIN tombstones) <= MaxTombstones
  /\ \A n \in DOMAIN tombstones :
       /\ tombstones[n].kind \in Kind /\ tombstones[n].epoch \in 1..epoch
       /\ tombstones[n] = [id |-> tombstones[n].id, kind |-> tombstones[n].kind,
                           value |-> tombstones[n].value, epoch |-> tombstones[n].epoch]
  /\ epoch \in 0..MaxLoads
  /\ IsFiniteSet(minted)

MainTyped ==
  /\ source \in Manifests \cup {Broken} /\ saved \subseteq Name /\ known \subseteq Name
  /\ main \in {"idle", "removing", "applying", "queued", "seeding", "restoring"}
  /\ origin \in {"queue", "state", "activate"}
  /\ work \in Manifests \cup {Empty} /\ rest \subseteq Name
  /\ main = "removing" => work \in Manifests /\ epoch < MaxLoads
  /\ main = "applying" => work \in Manifests /\ epoch >= 1

AudioTyped ==
  /\ active \in BOOLEAN
  /\ Cardinality(plan_ring) <= 1
  /\ \A plan \in plan_ring : plan.layout \in Manifests
  /\ layout \in Manifests \cup {Empty}
  /\ lane_kind \in [Slot -> Kind] /\ target \in [Slot -> 0..NameCount]

\* Until more controls were declared than the table of tombstones has room for, every
\* id ever given out is still held by its name, unless the name changed its kind.
MemoryInv ==
  /\ \A n \in DOMAIN live \cap DOMAIN tombstones : live[n].kind # tombstones[n].kind
  /\ \/ Forgetful
     \/ \A x \in minted : TwoKinds(x.name) \/ Holds(live, x) \/ Holds(tombstones, x)
  /\ OneIdPerControl

SoundInv == ControlInv /\ RegistryTyped /\ MainTyped /\ AudioTyped /\ MemoryInv

-----------------------------------------------------------------------------
(* Counting.                                                                *)

LEMMA NamesFinite ==
  ASSUME NEW S \in SUBSET Name
  PROVE  IsFiniteSet(S) /\ Cardinality(S) \in 0..NameCount
<1>1. IsFiniteSet(Name) /\ Cardinality(Name) = NameCount /\ NameCount \in Nat
  BY FS_Interval, ControlAssumption DEF Name
<1> QED BY <1>1, FS_Subset, FS_CardinalityType

LEMMA SlotTyped ==
  ASSUME NEW m \in Manifests, NEW n \in DOMAIN m
  PROVE  SlotIn(m, n) \in Slot
<1> DEFINE S == {k \in DOMAIN m : k <= n}
<1>1. DOMAIN m \in SUBSET Name /\ n \in Nat BY ControlAssumption DEF Name
<1>2. S \in SUBSET Name /\ n \in S BY <1>1
<1> HIDE DEF S
<1>3. Cardinality(S) # 0 BY <1>2, NamesFinite, FS_EmptySet
<1>4. Cardinality(S) \in 0..NameCount BY <1>2, NamesFinite
<1>5. Cardinality(S) \in Slot BY <1>3, <1>4, ControlAssumption DEF Slot
<1> QED BY <1>5 DEF SlotIn, S

\* Eviction leaves room for what is needed, and evicts nothing while there is room.
LEMMA KeptFits ==
  ASSUME RegistryTyped, NEW S \in SUBSET DOMAIN tombstones,
         NEW needed \in Nat, needed <= MaxTombstones
  PROVE  /\ KeptOf(S, needed) \subseteq S
         /\ Cardinality(KeptOf(S, needed)) + needed <= MaxTombstones
         /\ Cardinality(S) + needed <= MaxTombstones => KeptOf(S, needed) = S
<1> DEFINE before(k) == {j \in S : Older(j, k)}
           rank(k) == Cardinality(before(k))
           K == KeptOf(S, needed)
           room == MaxTombstones - needed
<1>1. S \in SUBSET Name /\ IsFiniteSet(S) /\ Cardinality(S) \in Nat
  BY NamesFinite DEF RegistryTyped
<1>2. K = {k \in S : rank(k) + MaxTombstones >= Cardinality(S) + needed}
  BY DEF KeptOf
<1>3. \A i, j, k \in S : /\ ~ Older(i, i)
                         /\ Older(i, j) /\ Older(j, k) => Older(i, k)
                         /\ i # j => Older(i, j) \/ Older(j, i)
  <2>1. \A k \in S : k \in Nat /\ tombstones[k].epoch \in Nat
    BY <1>1, ControlAssumption DEF RegistryTyped, Name
  <2> QED BY <2>1 DEF Older
<1>4. ASSUME NEW k \in S PROVE rank(k) \in Nat /\ rank(k) < Cardinality(S)
  <2>1. before(k) \in SUBSET S /\ before(k) # S BY <1>3
  <2> HIDE DEF before
  <2>2. IsFiniteSet(before(k)) /\ Cardinality(before(k)) <= Cardinality(S)
        /\ Cardinality(before(k)) # Cardinality(S)
    BY <1>1, <2>1, FS_Subset
  <2> QED BY <1>1, <2>2, FS_CardinalityType
<1>5. ASSUME NEW j \in S, NEW k \in S, Older(j, k) PROVE rank(j) < rank(k)
  <2>1. before(j) \in SUBSET before(k) /\ before(j) # before(k) BY <1>3, <1>5
  <2>2. before(k) \in SUBSET S OBVIOUS
  <2> HIDE DEF before
  <2>3. IsFiniteSet(before(k)) BY <1>1, <2>2, FS_Subset
  <2>4. Cardinality(before(j)) <= Cardinality(before(k))
        /\ Cardinality(before(j)) # Cardinality(before(k))
    BY <2>1, <2>3, FS_Subset
  <2> QED BY <1>4, <2>4
<1>6. \A j, k \in S : rank(j) = rank(k) => j = k
  <2> SUFFICES ASSUME NEW j \in S, NEW k \in S, rank(j) = rank(k), j # k PROVE FALSE
    OBVIOUS
  <2>1. rank(j) < rank(k) \/ rank(k) < rank(j) BY <1>3, <1>5
  <2>2. rank(j) \in Nat BY <1>4
  <2> HIDE DEF rank
  <2> QED BY <2>1, <2>2
<1>7. MaxTombstones \in Nat /\ room \in Nat BY ControlAssumption
<1> HIDE DEF rank, K
<1>8. K \in SUBSET S BY <1>2
<1>9. CASE Cardinality(S) + needed <= MaxTombstones
  <2>1. K = S BY <1>1, <1>2, <1>4, <1>7, <1>9
  <2> QED BY <1>1, <1>9, <2>1 DEF K
<1>10. CASE Cardinality(S) + needed > MaxTombstones
  <2> DEFINE least == Cardinality(S) - room
             R == least..(Cardinality(S) - 1)
             f == [k \in K |-> rank(k)]
  <2>1. least \in Nat BY <1>1, <1>7, <1>10
  <2>2. \A k \in K : rank(k) \in R BY <1>1, <1>2, <1>4, <1>7
  <2>3. IsFiniteSet(R) /\ Cardinality(R) = room
    <3> DEFINE top == Cardinality(S) - 1
    <3>1. least \in Int /\ top \in Int /\ top - least + 1 = room BY <1>1, <1>7, <2>1
    <3> HIDE DEF least, top, room
    <3>2. IsFiniteSet(least..top)
          /\ Cardinality(least..top) = IF least > top THEN 0 ELSE top - least + 1
      BY <3>1, FS_Interval
    <3> QED BY <1>7, <3>1, <3>2 DEF R, top
  <2> HIDE DEF R
  <2>4. f \in [K -> R] BY <2>2
  <2>5. \A j, k \in K : f[j] = f[k] => j = k BY <1>6, <1>8
  <2>6. f \in Injection(K, R)
    <3> HIDE DEF f
    <3> QED BY <2>4, <2>5 DEF Injection, IsInjective
  <2> HIDE DEF f
  <2>7. Cardinality(K) <= room BY <2>3, <2>6, FS_Injection
  <2>8. Cardinality(K) \in Nat BY <1>1, <1>8, FS_Subset, FS_CardinalityType
  <2> QED BY <1>1, <1>7, <1>8, <1>10, <2>7, <2>8 DEF K
<1> QED BY <1>1, <1>7, <1>9, <1>10

\* Names with a kind each, counted as pairs.
LEMMA PairsOf ==
  ASSUME NEW S, NEW f, IsFiniteSet(S)
  PROVE  /\ IsFiniteSet({<<n, f[n]>> : n \in S})
         /\ Cardinality({<<n, f[n]>> : n \in S}) = Cardinality(S)
<1> DEFINE T == {<<n, f[n]>> : n \in S}
           g == [n \in S |-> <<n, f[n]>>]
<1>1. g \in Bijection(S, T)
  BY DEF Bijection, Injection, IsInjective, Surjection
<1> HIDE DEF T, g
<1>2. ExistsBijection(S, T) BY <1>1 DEF ExistsBijection
<1>3. IsFiniteSet(T) /\ Cardinality(T) = Cardinality(S) BY <1>2, FS_Bijection
<1> QED BY <1>3 DEF T

LEMMA PairsCounted ==
  ASSUME NEW S, NEW T, NEW f, NEW g, NEW P,
         IsFiniteSet(S), IsFiniteSet(T), IsFiniteSet(P),
         \A n \in S : <<n, f[n]>> \in P,
         \A n \in T : <<n, g[n]>> \in P,
         \A n \in S \cap T : f[n] # g[n]
  PROVE  Cardinality(S) + Cardinality(T) <= Cardinality(P)
<1> DEFINE A == {<<n, f[n]>> : n \in S}
           B == {<<n, g[n]>> : n \in T}
<1>1. A \cap B = {} /\ A \cup B \in SUBSET P OBVIOUS
<1>2. IsFiniteSet(A) /\ Cardinality(A) = Cardinality(S) BY PairsOf
<1>3. IsFiniteSet(B) /\ Cardinality(B) = Cardinality(T) BY PairsOf
<1> HIDE DEF A, B
<1>4. Cardinality(A \cup B) = Cardinality(A) + Cardinality(B) - Cardinality(A \cap B)
  BY <1>2, <1>3, FS_Union
<1>5. Cardinality(A \cap B) = 0 BY <1>1, FS_EmptySet
<1>6. Cardinality(A \cup B) <= Cardinality(P) BY <1>1, FS_Subset
<1>7. Cardinality(S) \in Nat /\ Cardinality(T) \in Nat BY FS_CardinalityType
<1> QED BY <1>2, <1>3, <1>4, <1>5, <1>6, <1>7

LEMMA PairsFinite == ASSUME IsFiniteSet(minted) PROVE IsFiniteSet(Pairs)
<1> DEFINE f == [z \in minted |-> <<z.name, z.kind>>]
<1>1. f \in Surjection(minted, Pairs) BY DEF Surjection, Pairs
<1> QED BY <1>1, FS_Surjection

\* Tombstones and live entries of one kind have names of their own, so together they
\* are no more than the controls declared.
LEMMA Overflows ==
  ASSUME RegistryInv, RegistryTyped,
         \A n \in DOMAIN live \cap DOMAIN tombstones : live[n].kind # tombstones[n].kind,
         NEW S \in SUBSET DOMAIN tombstones, NEW T \in SUBSET DOMAIN live,
         Cardinality(S) + Cardinality(T) > MaxTombstones
  PROVE  Forgetful
<1> DEFINE f == [n \in S |-> tombstones[n].kind]
           g == [n \in T |-> live[n].kind]
<1>1. IsFiniteSet(S) /\ IsFiniteSet(T) /\ Cardinality(S) \in Nat /\ Cardinality(T) \in Nat
  BY NamesFinite DEF RegistryTyped
<1>2. IsFiniteSet(Pairs) BY PairsFinite DEF RegistryTyped
<1>3. \A n \in S : <<n, f[n]>> \in Pairs
  <2> SUFFICES ASSUME NEW n \in S PROVE <<n, f[n]>> \in Pairs OBVIOUS
  <2>1. [id |-> tombstones[n].id, name |-> n, kind |-> tombstones[n].kind] \in minted
    BY DEF RegistryInv, IdsNeverRebound
  <2> QED BY <2>1 DEF Pairs
<1>4. \A n \in T : <<n, g[n]>> \in Pairs
  <2> SUFFICES ASSUME NEW n \in T PROVE <<n, g[n]>> \in Pairs OBVIOUS
  <2>1. [id |-> live[n].id, name |-> n, kind |-> live[n].kind] \in minted
    BY DEF RegistryInv, IdsNeverRebound
  <2> QED BY <2>1 DEF Pairs
<1>5. \A n \in S \cap T : f[n] # g[n] OBVIOUS
<1> HIDE DEF f, g
<1>6. Cardinality(S) + Cardinality(T) <= Cardinality(Pairs)
  BY <1>1, <1>2, <1>3, <1>4, <1>5, PairsCounted
<1>7. Cardinality(Pairs) \in Nat BY <1>2, FS_CardinalityType
<1> QED BY <1>1, <1>6, <1>7, ControlAssumption DEF Forgetful

\* Room for one more tombstone, or more controls declared than the table remembers.
LEMMA OneMore ==
  ASSUME RegistryInv, RegistryTyped,
         \A n \in DOMAIN live \cap DOMAIN tombstones : live[n].kind # tombstones[n].kind,
         NEW n \in DOMAIN live, 1 <= MaxTombstones
  PROVE  Forgetful \/ KeptOf(DOMAIN tombstones, 1) = DOMAIN tombstones
<1>1. Cardinality(DOMAIN tombstones) \in Nat BY NamesFinite DEF RegistryTyped
<1>2. CASE Cardinality(DOMAIN tombstones) + 1 <= MaxTombstones
  BY <1>2, KeptFits
<1>3. CASE Cardinality(DOMAIN tombstones) + 1 > MaxTombstones
  <2>1. Cardinality({n}) = 1 BY FS_Singleton
  <2> QED BY <1>3, <2>1, Overflows
<1> QED BY <1>1, <1>2, <1>3, ControlAssumption

\* What has been minted stays minted.
LEMMA MintedGrows ==
  ASSUME minted \subseteq minted', IsFiniteSet(minted')
  PROVE  /\ Forgetful => Forgetful'
         /\ \A n : TwoKinds(n) => TwoKinds(n)'
<1>1. IsFiniteSet(Pairs')
  <2> DEFINE f == [z \in minted' |-> <<z.name, z.kind>>]
  <2>1. f \in Surjection(minted', Pairs') BY DEF Surjection, Pairs
  <2> QED BY <2>1, FS_Surjection
<1>2. Pairs \in SUBSET Pairs' BY DEF Pairs
<1>3. Cardinality(Pairs) <= Cardinality(Pairs') BY <1>1, <1>2, FS_Subset
<1>4. Cardinality(Pairs) \in Nat /\ Cardinality(Pairs') \in Nat
  BY <1>1, <1>2, FS_Subset, FS_CardinalityType
<1>5. Forgetful => Forgetful' BY <1>3, <1>4, ControlAssumption DEF Forgetful
<1>6. \A n : TwoKinds(n) => TwoKinds(n)' BY DEF TwoKinds
<1> QED BY <1>5, <1>6

\* Whatever holds an id holds it for the kind it was minted under.
LEMMA HeldKinds ==
  ASSUME RegistryInv, NEW x \in minted
  PROVE  /\ Holds(live, x) => live[x.name].kind = x.kind
         /\ Holds(tombstones, x) => tombstones[x.name].kind = x.kind
<1>1. ASSUME Holds(live, x) PROVE live[x.name].kind = x.kind
  <2> DEFINE y == [id |-> live[x.name].id, name |-> x.name, kind |-> live[x.name].kind]
  <2>1. y \in minted /\ y.id = x.id BY <1>1 DEF RegistryInv, IdsNeverRebound, Holds
  <2>2. y = x BY <2>1 DEF RegistryInv, IdsNeverRebound
  <2> QED BY <2>2
<1>2. ASSUME Holds(tombstones, x) PROVE tombstones[x.name].kind = x.kind
  <2> DEFINE y == [id |-> tombstones[x.name].id, name |-> x.name,
                   kind |-> tombstones[x.name].kind]
  <2>1. y \in minted /\ y.id = x.id BY <1>2 DEF RegistryInv, IdsNeverRebound, Holds
  <2>2. y = x BY <2>1 DEF RegistryInv, IdsNeverRebound
  <2> QED BY <2>2
<1> QED BY <1>1, <1>2

\* A name live under one kind and buried or reborn under another has two.
LEMMA TwoKindsOf ==
  ASSUME RegistryInv, NEW n \in DOMAIN live, NEW x \in minted, x.name = n,
         x.kind # live[n].kind
  PROVE  TwoKinds(n)
<1>1. [id |-> live[n].id, name |-> n, kind |-> live[n].kind] \in minted
  BY DEF RegistryInv, IdsNeverRebound
<1> QED BY <1>1 DEF TwoKinds

\* A name is given an id under a kind it has had only if that id is forgotten.
LEMMA MintRemembers ==
  ASSUME RegistryInv, RegistryTyped, MemoryInv, NEW n \in DOMAIN work, Mint(n),
         IsFiniteSet(minted'),
         n \in DOMAIN live => live[n].kind # work[n],
         n \in DOMAIN tombstones \ DOMAIN live => tombstones[n].kind # work[n]
  PROVE  OneIdPerControl'
<1> DEFINE new == [id |-> next_id, name |-> n, kind |-> work[n]]
<1>1. minted' = minted \cup {new} BY DEF Mint
<1>2. \A k : Forgetful \/ TwoKinds(k) => Forgetful' \/ TwoKinds(k)'
  BY <1>1, MintedGrows
<1>3. ASSUME NEW x \in minted, x.name = n, x.kind = work[n]
      PROVE  Forgetful \/ TwoKinds(n)
  <2>1. CASE Holds(live, x)
    BY <1>3, <2>1, HeldKinds DEF Holds
  <2>2. CASE Holds(tombstones, x) /\ n \in DOMAIN live
    BY <1>3, <2>2, TwoKindsOf
  <2>3. CASE Holds(tombstones, x) /\ n \notin DOMAIN live
    BY <1>3, <2>3, HeldKinds DEF Holds
  <2> QED BY <1>3, <2>1, <2>2, <2>3 DEF MemoryInv
<1>4. ASSUME NEW x \in minted', NEW y \in minted',
             x # y, x.name = y.name, x.kind = y.kind
      PROVE  Forgetful' \/ TwoKinds(x.name)'
  <2>1. CASE x \in minted /\ y \in minted
    <3>1. Forgetful \/ TwoKinds(x.name)
      BY <1>4, <2>1 DEF MemoryInv, OneIdPerControl, Forgetful, Pairs, TwoKinds
    <3> QED BY <1>2, <3>1
  <2>2. CASE x = new /\ y \in minted
    BY <1>2, <1>3, <1>4, <2>2
  <2>3. CASE y = new /\ x \in minted
    BY <1>2, <1>3, <1>4, <2>3
  <2> QED BY <1>1, <1>4, <2>1, <2>2, <2>3
<1>5. \A x \in minted' : TwoKinds(x.name)' =>
        \E z \in minted' : z.name = x.name /\ z.kind # x.kind
  BY DEF TwoKinds
<1> QED BY <1>4, <1>5 DEF OneIdPerControl, Forgetful, Pairs

\* Names that leave the patch are buried under the ids they had.
LEMMA RemoveRemembers ==
  ASSUME RegistryInv, RegistryTyped, MemoryInv, RemoveNames
  PROVE  MemoryInv'
<1> DEFINE removed == DOMAIN live \ DOMAIN work
           kept == IF removed = {} THEN DOMAIN tombstones
                   ELSE KeptOf(DOMAIN tombstones, Cardinality(removed))
<1>1. minted' = minted BY DEF RemoveNames
<1>2. tombstones' = [n \in kept \cup removed |->
                       IF n \in removed THEN Buried(live[n], epoch + 1) ELSE tombstones[n]]
  BY DEF RemoveNames
<1>3. live' = [n \in DOMAIN live \cap DOMAIN work |-> live[n]]
  BY DEF RemoveNames
<1>4. kept \subseteq DOMAIN tombstones BY DEF KeptOf
<1>5. Forgetful \/ kept = DOMAIN tombstones
  <2>1. removed \in SUBSET Name /\ removed \in SUBSET DOMAIN live BY DEF RegistryTyped
  <2> HIDE DEF removed
  <2>2. Cardinality(removed) \in Nat BY <2>1, NamesFinite
  <2>3. Cardinality(removed) <= MaxTombstones
    <3>1. IsFiniteSet(DOMAIN live) /\ Cardinality(DOMAIN live) \in Nat
      BY NamesFinite DEF RegistryTyped
    <3>2. Cardinality(removed) <= Cardinality(DOMAIN live) BY <2>1, <3>1, FS_Subset
    <3> QED BY <2>2, <3>1, <3>2, ControlAssumption DEF RegistryTyped
  <2>4. Cardinality(DOMAIN tombstones) \in Nat BY NamesFinite DEF RegistryTyped
  <2>5. CASE Cardinality(DOMAIN tombstones) + Cardinality(removed) <= MaxTombstones
    BY <2>2, <2>3, <2>5, KeptFits
  <2>6. CASE Cardinality(DOMAIN tombstones) + Cardinality(removed) > MaxTombstones
    BY <2>1, <2>6, Overflows DEF MemoryInv
  <2> QED BY <2>2, <2>4, <2>5, <2>6, ControlAssumption
<1> HIDE DEF kept
<1>6. Forgetful' <=> Forgetful BY <1>1 DEF Forgetful, Pairs
<1>7. \A n : TwoKinds(n)' <=> TwoKinds(n) BY <1>1 DEF TwoKinds
<1>8. \A n \in DOMAIN live' \cap DOMAIN tombstones' : live'[n].kind # tombstones'[n].kind
  BY <1>2, <1>3, <1>4 DEF MemoryInv
<1>9. ASSUME NEW x \in minted, kept = DOMAIN tombstones,
             TwoKinds(x.name) \/ Holds(live, x) \/ Holds(tombstones, x)
      PROVE  TwoKinds(x.name) \/ Holds(live', x) \/ Holds(tombstones', x)
  <2>1. CASE Holds(live, x)
    BY <1>2, <1>3, <2>1 DEF Holds, Buried
  <2>2. CASE Holds(tombstones, x) /\ x.name \in DOMAIN live
    <3>1. live[x.name].kind # x.kind BY <2>2, HeldKinds DEF MemoryInv, Holds
    <3> QED BY <2>2, <3>1, TwoKindsOf
  <2>3. CASE Holds(tombstones, x) /\ x.name \notin DOMAIN live
    BY <1>2, <1>9, <2>3 DEF Holds
  <2> QED BY <1>9, <2>1, <2>2, <2>3
<1>10. Forgetful \/ \A x \in minted : TwoKinds(x.name) \/ Holds(live', x) \/ Holds(tombstones', x)
  BY <1>5, <1>9 DEF MemoryInv
<1>11. Forgetful' \/ \A x \in minted' : TwoKinds(x.name)' \/ Holds(live, x)' \/ Holds(tombstones, x)'
  BY <1>1, <1>6, <1>7, <1>10 DEF Holds
<1>12. OneIdPerControl' BY <1>1 DEF MemoryInv, OneIdPerControl
<1> QED BY <1>8, <1>11, <1>12 DEF MemoryInv

\* Another kind: the old id is buried under the name, whose older tombstone, of yet
\* another kind, is lost.
LEMMA ChangeRemembers ==
  ASSUME RegistryInv, RegistryTyped, MemoryInv, NEW n \in DOMAIN work, ChangesKind(n),
         1 <= MaxTombstones, IsFiniteSet(minted')
  PROVE  MemoryInv'
<1> DEFINE kept == KeptOf(DOMAIN tombstones, 1)
           new == [id |-> next_id, name |-> n, kind |-> work[n]]
<1>1. n \in DOMAIN live /\ live[n].kind # work[n] /\ Mint(n) BY DEF ChangesKind
<1>2. tombstones' = [k \in kept \cup {n} |->
                       IF k = n THEN Buried(live[n], epoch) ELSE tombstones[k]]
  BY DEF ChangesKind, Bury
<1>3. live' = [k \in DOMAIN live \cup {n} |-> IF k = n THEN Entry(next_id, n, 0) ELSE live[k]]
  BY <1>1 DEF Mint, SetLive
<1>4. minted' = minted \cup {new} BY <1>1 DEF Mint
<1>5. kept \subseteq DOMAIN tombstones BY DEF KeptOf
<1>6. Forgetful \/ kept = DOMAIN tombstones BY <1>1, OneMore DEF MemoryInv
<1> HIDE DEF kept
<1>7. \A k : (Forgetful => Forgetful') /\ (TwoKinds(k) => TwoKinds(k)')
  BY <1>4, MintedGrows
<1>8. \A k \in DOMAIN live' \cap DOMAIN tombstones' : live'[k].kind # tombstones'[k].kind
  BY <1>1, <1>2, <1>3, <1>5 DEF MemoryInv, Buried, Entry
<1>9. ASSUME NEW x \in minted, kept = DOMAIN tombstones,
             TwoKinds(x.name) \/ Holds(live, x) \/ Holds(tombstones, x)
      PROVE  TwoKinds(x.name) \/ Holds(live', x) \/ Holds(tombstones', x)
  <2>1. CASE Holds(live, x)
    BY <1>2, <1>3, <2>1 DEF Holds, Buried
  <2>2. CASE Holds(tombstones, x) /\ x.name = n
    <3>1. live[n].kind # x.kind BY <1>1, <2>2, HeldKinds DEF MemoryInv, Holds
    <3> QED BY <1>1, <2>2, <3>1, TwoKindsOf
  <2>3. CASE Holds(tombstones, x) /\ x.name # n
    BY <1>2, <1>9, <2>3 DEF Holds
  <2> QED BY <1>9, <2>1, <2>2, <2>3
<1>10. Holds(live', new) BY <1>3 DEF Holds, Entry
<1>11. Forgetful' \/ \A x \in minted' : TwoKinds(x.name)' \/ Holds(live, x)' \/ Holds(tombstones, x)'
  <2>1. CASE Forgetful BY <1>7, <2>1
  <2>2. CASE ~ Forgetful
    <3>1. \A x \in minted : TwoKinds(x.name) \/ Holds(live', x) \/ Holds(tombstones', x)
      BY <1>6, <1>9, <2>2 DEF MemoryInv
    <3> QED BY <1>4, <1>7, <1>10, <3>1 DEF Holds
  <2> QED BY <2>1, <2>2
<1>12. OneIdPerControl' BY <1>1, MintRemembers
<1> QED BY <1>8, <1>11, <1>12 DEF MemoryInv

\* A new name, or one that keeps its tombstone of another kind.
LEMMA AddRemembers ==
  ASSUME RegistryInv, RegistryTyped, MemoryInv, NEW n \in DOMAIN work, Added(n),
         1 <= MaxTombstones, IsFiniteSet(minted')
  PROVE  /\ MemoryInv'
         /\ DOMAIN tombstones' = DOMAIN tombstones
         /\ \A k \in DOMAIN tombstones : tombstones'[k] = tombstones[k]
<1> DEFINE others == DOMAIN tombstones \ {n}
           new == [id |-> next_id, name |-> n, kind |-> work[n]]
<1>1. n \notin DOMAIN live /\ Mint(n) /\ (n \in DOMAIN tombstones => tombstones[n].kind # work[n])
  BY DEF Added, IsReborn
<1>2. n \in DOMAIN tombstones => KeptOf(others, 1) = others
  <2> SUFFICES ASSUME n \in DOMAIN tombstones PROVE KeptOf(others, 1) = others OBVIOUS
  <2>1. IsFiniteSet(DOMAIN tombstones) /\ Cardinality(DOMAIN tombstones) \in Nat
    BY NamesFinite DEF RegistryTyped
  <2>2. Cardinality(others) = Cardinality(DOMAIN tombstones) - 1 BY <2>1, FS_RemoveElement
  <2>3. Cardinality(others) + 1 <= MaxTombstones BY <2>1, <2>2 DEF RegistryTyped
  <2> QED BY <2>3, KeptFits
<1>3. /\ DOMAIN tombstones' = DOMAIN tombstones
      /\ \A k \in DOMAIN tombstones : tombstones'[k] = tombstones[k]
  <2>1. CASE n \notin DOMAIN tombstones BY <2>1 DEF Added
  <2>2. CASE n \in DOMAIN tombstones
    <3>1. tombstones' = [k \in others \cup {n} |-> IF k = n THEN tombstones[n] ELSE tombstones[k]]
      BY <1>2, <2>2 DEF Added, Bury
    <3> QED BY <2>2, <3>1
  <2> QED BY <2>1, <2>2
<1>4. live' = [k \in DOMAIN live \cup {n} |-> IF k = n THEN Entry(next_id, n, 0) ELSE live[k]]
  BY <1>1 DEF Mint, SetLive
<1>5. minted' = minted \cup {new} BY <1>1 DEF Mint
<1>6. \A k : (Forgetful => Forgetful') /\ (TwoKinds(k) => TwoKinds(k)')
  BY <1>5, MintedGrows
<1>7. \A k \in DOMAIN live' \cap DOMAIN tombstones' : live'[k].kind # tombstones'[k].kind
  BY <1>1, <1>3, <1>4 DEF MemoryInv, Entry
<1>8. \A x \in minted : /\ Holds(live, x) => Holds(live', x)
                        /\ Holds(tombstones, x) => Holds(tombstones', x)
  BY <1>1, <1>3, <1>4 DEF Holds
<1>9. Holds(live', new) BY <1>4 DEF Holds, Entry
<1>10. Forgetful' \/ \A x \in minted' : TwoKinds(x.name)' \/ Holds(live, x)' \/ Holds(tombstones, x)'
  <2>1. CASE Forgetful BY <1>6, <2>1
  <2>2. CASE ~ Forgetful
    <3>1. \A x \in minted : TwoKinds(x.name) \/ Holds(live', x) \/ Holds(tombstones', x)
      BY <1>8, <2>2 DEF MemoryInv
    <3> QED BY <1>5, <1>6, <1>9, <3>1 DEF Holds
  <2> QED BY <2>1, <2>2
<1>11. OneIdPerControl' BY <1>1, MintRemembers
<1> QED BY <1>3, <1>7, <1>10, <1>11 DEF MemoryInv

\* Steps that mint nothing and lose no id of a name.
LEMMA NothingForgotten ==
  ASSUME MemoryInv, UNCHANGED minted,
         \A x \in minted : Holds(live, x) \/ Holds(tombstones, x) =>
                             Holds(live', x) \/ Holds(tombstones', x),
         \A n \in DOMAIN live' \cap DOMAIN tombstones' : live'[n].kind # tombstones'[n].kind
  PROVE  MemoryInv'
<1>1. (Forgetful' <=> Forgetful) /\ \A n : TwoKinds(n)' <=> TwoKinds(n)
  BY DEF Forgetful, Pairs, TwoKinds
<1>2. Forgetful' \/ \A x \in minted' : TwoKinds(x.name)' \/ Holds(live, x)' \/ Holds(tombstones, x)'
  BY <1>1 DEF MemoryInv, Holds
<1>3. OneIdPerControl' BY DEF MemoryInv, OneIdPerControl
<1> QED BY <1>2, <1>3 DEF MemoryInv

LEMMA ApplyRemembers ==
  ASSUME RegistryInv, RegistryTyped, MemoryInv, NEW n \in DOMAIN work,
         StaysLive(n) \/ ChangesKind(n) \/ Reborn(n) \/ Added(n),
         1 <= MaxTombstones, IsFiniteSet(minted')
  PROVE  MemoryInv'
<1>1. CASE StaysLive(n)
  <2>1. /\ live' = [k \in DOMAIN live \cup {n} |->
                      IF k = n THEN Entry(live[n].id, n, live[n].value) ELSE live[k]]
        /\ UNCHANGED <<tombstones, minted>> /\ n \in DOMAIN live /\ live[n].kind = work[n]
    BY <1>1 DEF StaysLive, SetLive
  <2>2. \A x \in minted : Holds(live, x) => Holds(live', x) BY <2>1 DEF Holds, Entry
  <2>3. \A k \in DOMAIN live' \cap DOMAIN tombstones' : live'[k].kind # tombstones'[k].kind
    BY <2>1 DEF MemoryInv, Entry
  <2> QED BY <2>1, <2>2, <2>3, NothingForgotten
<1>2. CASE Reborn(n)
  <2>1. /\ live' = [k \in DOMAIN live \cup {n} |->
                      IF k = n THEN Entry(tombstones[n].id, n, tombstones[n].value) ELSE live[k]]
        /\ tombstones' = [k \in DOMAIN tombstones \ {n} |-> tombstones[k]]
        /\ UNCHANGED minted /\ n \in DOMAIN tombstones /\ n \notin DOMAIN live
    BY <1>2 DEF Reborn, IsReborn, SetLive
  <2>2. \A x \in minted : Holds(live, x) \/ Holds(tombstones, x) =>
                            Holds(live', x) \/ Holds(tombstones', x)
    BY <2>1 DEF Holds, Entry
  <2>3. \A k \in DOMAIN live' \cap DOMAIN tombstones' : live'[k].kind # tombstones'[k].kind
    BY <2>1 DEF MemoryInv, Entry
  <2> QED BY <2>1, <2>2, <2>3, NothingForgotten
<1>3. CASE ChangesKind(n) BY <1>3, ChangeRemembers
<1>4. CASE Added(n) BY <1>4, AddRemembers
<1> QED BY <1>1, <1>2, <1>3, <1>4

-----------------------------------------------------------------------------
(* The registry's types.                                                    *)

LEMMA RemoveTyped ==
  ASSUME RegistryTyped, MainTyped, RemoveNames
  PROVE  RegistryTyped'
<1> DEFINE removed == DOMAIN live \ DOMAIN work
           kept == IF removed = {} THEN DOMAIN tombstones
                   ELSE KeptOf(DOMAIN tombstones, Cardinality(removed))
<1>1. minted' = minted /\ epoch' = epoch + 1 /\ epoch < MaxLoads BY DEF RemoveNames, MainTyped
<1>2. tombstones' = [n \in kept \cup removed |->
                       IF n \in removed THEN Buried(live[n], epoch + 1) ELSE tombstones[n]]
  BY DEF RemoveNames
<1>3. live' = [n \in DOMAIN live \cap DOMAIN work |-> live[n]]
  BY DEF RemoveNames
<1>4. kept \subseteq DOMAIN tombstones BY DEF KeptOf
<1>5. IsFiniteSet(DOMAIN live) /\ Cardinality(DOMAIN live) \in Nat
  BY NamesFinite DEF RegistryTyped
<1>6. Cardinality(removed) \in Nat /\ Cardinality(removed) <= MaxTombstones
  <2>1. removed \in SUBSET DOMAIN live OBVIOUS
  <2> HIDE DEF removed
  <2>2. IsFiniteSet(removed) /\ Cardinality(removed) <= Cardinality(DOMAIN live)
    BY <1>5, <2>1, FS_Subset
  <2> QED BY <1>5, <2>2, FS_CardinalityType, ControlAssumption DEF RegistryTyped
<1>7. Cardinality(kept \cup removed) <= MaxTombstones
  <2>1. removed \in SUBSET Name /\ kept \in SUBSET Name BY <1>4 DEF RegistryTyped
  <2>2. CASE removed = {}
    <3>1. kept \cup removed = DOMAIN tombstones BY <2>2
    <3> QED BY <3>1 DEF RegistryTyped
  <2>3. CASE removed # {}
    <3>1. Cardinality(kept) + Cardinality(removed) <= MaxTombstones
      BY <1>6, <2>3, KeptFits
    <3> HIDE DEF kept, removed
    <3>2. /\ Cardinality(kept \cup removed)
               = Cardinality(kept) + Cardinality(removed) - Cardinality(kept \cap removed)
          /\ Cardinality(kept) \in Nat /\ Cardinality(removed) \in Nat
          /\ Cardinality(kept \cap removed) \in Nat
      <4>1. IsFiniteSet(kept) /\ IsFiniteSet(removed) BY <2>1, NamesFinite
      <4>2. kept \cap removed \in SUBSET Name BY <2>1
      <4>3. Cardinality(kept \cap removed) \in Nat BY <4>2, NamesFinite
      <4>4. Cardinality(kept \cup removed)
              = Cardinality(kept) + Cardinality(removed) - Cardinality(kept \cap removed)
        BY <4>1, FS_Union
      <4> QED BY <4>1, <4>3, <4>4, FS_CardinalityType
    <3> QED BY <3>1, <3>2, ControlAssumption
  <2> QED BY <2>2, <2>3
<1>8. Cardinality(DOMAIN live') <= MaxTombstones
  <2>1. DOMAIN live' \in SUBSET DOMAIN live BY <1>3
  <2>2. IsFiniteSet(DOMAIN live') /\ Cardinality(DOMAIN live') <= Cardinality(DOMAIN live)
    BY <1>5, <2>1, FS_Subset
  <2> QED BY <1>5, <2>2, FS_CardinalityType, ControlAssumption DEF RegistryTyped
<1>9. DOMAIN tombstones' = kept \cup removed BY <1>2
<1> HIDE DEF kept
<1>10. \A n \in DOMAIN tombstones' :
         /\ tombstones'[n].kind \in Kind /\ tombstones'[n].epoch \in 1..epoch'
         /\ tombstones'[n] = [id |-> tombstones'[n].id, kind |-> tombstones'[n].kind,
                              value |-> tombstones'[n].value, epoch |-> tombstones'[n].epoch]
  <2>1. \A n \in removed : tombstones'[n] = Buried(live[n], epoch + 1) BY <1>2
  <2>2. \A n \in kept \ removed : tombstones'[n] = tombstones[n] BY <1>2
  <2>3. epoch \in Nat BY ControlAssumption DEF RegistryTyped
  <2>4. ASSUME NEW n \in removed
        PROVE  /\ tombstones'[n].kind \in Kind /\ tombstones'[n].epoch \in 1..epoch'
               /\ tombstones'[n] = [id |-> tombstones'[n].id, kind |-> tombstones'[n].kind,
                                    value |-> tombstones'[n].value, epoch |-> tombstones'[n].epoch]
    <3>1. live[n].kind \in Kind BY DEF RegistryTyped
    <3>2. tombstones'[n] = [id |-> live[n].id, kind |-> live[n].kind,
                            value |-> live[n].value, epoch |-> epoch + 1]
      BY <2>1 DEF Buried
    <3>3. epoch + 1 \in 1..epoch' BY <1>1, <2>3
    <3> QED BY <3>1, <3>2, <3>3
  <2>5. ASSUME NEW n \in kept \ removed
        PROVE  /\ tombstones'[n].kind \in Kind /\ tombstones'[n].epoch \in 1..epoch'
               /\ tombstones'[n] = [id |-> tombstones'[n].id, kind |-> tombstones'[n].kind,
                                    value |-> tombstones'[n].value, epoch |-> tombstones'[n].epoch]
    <3>1. n \in DOMAIN tombstones /\ tombstones'[n] = tombstones[n] BY <1>4, <2>2
    <3>2. tombstones[n].kind \in Kind /\ tombstones[n].epoch \in 1..epoch
      BY <3>1 DEF RegistryTyped
    <3>3. tombstones[n].epoch \in 1..epoch' BY <1>1, <2>3, <3>2
    <3>4. tombstones[n] = [id |-> tombstones[n].id, kind |-> tombstones[n].kind,
                           value |-> tombstones[n].value, epoch |-> tombstones[n].epoch]
      BY <3>1 DEF RegistryTyped
    <3> QED BY <3>1, <3>2, <3>3, <3>4
  <2> QED BY <1>9, <2>4, <2>5
<1>11. epoch' \in 0..MaxLoads BY <1>1, ControlAssumption DEF RegistryTyped
<1> QED BY <1>1, <1>3, <1>4, <1>7, <1>8, <1>9, <1>10, <1>11 DEF RegistryTyped

\* The entry that SetLive makes, for a name of the patch.
LEMMA SetLiveTyped ==
  ASSUME RegistryTyped, work \in Manifests, NEW n \in DOMAIN work, NEW i, NEW v,
         SetLive(n, Entry(i, n, v)), DOMAIN live' \subseteq DOMAIN work
  PROVE  /\ DOMAIN live' \subseteq Name /\ Cardinality(DOMAIN live') <= MaxTombstones
         /\ \A k \in DOMAIN live' : live'[k].kind \in Kind /\ live'[k].slot \in Slot
<1>1. DOMAIN work \in SUBSET Name /\ work[n] \in Kind
      /\ Cardinality(DOMAIN work) <= MaxTombstones
  BY ControlAssumption
<1>2. DOMAIN live' \in SUBSET DOMAIN work OBVIOUS
<1>3. IsFiniteSet(DOMAIN work) /\ Cardinality(DOMAIN work) \in Nat BY <1>1, NamesFinite
<1>4. Cardinality(DOMAIN live') <= Cardinality(DOMAIN work)
      /\ Cardinality(DOMAIN live') \in Nat
  BY <1>2, <1>3, FS_Subset, FS_CardinalityType
<1>5. SlotIn(work, n) \in Slot BY SlotTyped
<1>6. \A k \in DOMAIN live' : live'[k].kind \in Kind /\ live'[k].slot \in Slot
  BY <1>1, <1>5 DEF SetLive, Entry, RegistryTyped
<1> QED BY <1>1, <1>2, <1>3, <1>4, <1>6, ControlAssumption

LEMMA ApplyTyped ==
  ASSUME ControlInv, RegistryTyped, MainTyped, MemoryInv, ApplyDescriptor,
         DOMAIN live' \subseteq DOMAIN work
  PROVE  RegistryTyped' /\ MemoryInv'
<1>1. PICK n \in rest : StaysLive(n) \/ ChangesKind(n) \/ Reborn(n) \/ Added(n)
  BY DEF ApplyDescriptor
<1>2. /\ work \in Manifests /\ n \in DOMAIN work /\ epoch \in 1..MaxLoads /\ epoch' = epoch
  BY ControlAssumption DEF ApplyDescriptor, MainTyped, ControlInv, DiffInv, RegistryTyped
<1>3. 1 <= MaxTombstones
  <2>1. DOMAIN work \in SUBSET Name /\ Cardinality(DOMAIN work) <= MaxTombstones
    BY <1>2, ControlAssumption
  <2>2. IsFiniteSet(DOMAIN work) /\ Cardinality(DOMAIN work) \in Nat BY <2>1, NamesFinite
  <2>3. Cardinality(DOMAIN work) # 0 BY <1>2, <2>2, FS_EmptySet
  <2> QED BY <2>1, <2>2, <2>3, ControlAssumption
<1>4. IsFiniteSet(minted')
  <2>1. UNCHANGED minted \/ \E x : minted' = minted \cup {x}
    BY <1>1 DEF StaysLive, ChangesKind, Reborn, Added, Mint
  <2> QED BY <2>1, FS_AddElement DEF RegistryTyped
<1>5. MemoryInv'
  BY <1>1, <1>2, <1>3, <1>4, ApplyRemembers DEF ControlInv
<1>6. \E i, v : SetLive(n, Entry(i, n, v))
  BY <1>1 DEF StaysLive, ChangesKind, Reborn, Added, Mint
<1>7. /\ DOMAIN live' \subseteq Name /\ Cardinality(DOMAIN live') <= MaxTombstones
      /\ \A k \in DOMAIN live' : live'[k].kind \in Kind /\ live'[k].slot \in Slot
  BY <1>2, <1>6, SetLiveTyped
<1> DEFINE Fits ==
             /\ DOMAIN tombstones' \subseteq Name
             /\ Cardinality(DOMAIN tombstones') <= MaxTombstones
           Typed(t) ==
             /\ t.kind \in Kind /\ t.epoch \in 1..epoch
             /\ t = [id |-> t.id, kind |-> t.kind, value |-> t.value, epoch |-> t.epoch]
<1>8. \A k \in DOMAIN tombstones : Typed(tombstones[k]) BY DEF RegistryTyped
<1>9. Fits /\ \A k \in DOMAIN tombstones' : Typed(tombstones'[k])
  <2>1. CASE StaysLive(n)
    BY <1>8, <2>1 DEF StaysLive, RegistryTyped
  <2>2. CASE Added(n)
    <3>1. /\ DOMAIN tombstones' = DOMAIN tombstones
          /\ \A k \in DOMAIN tombstones : tombstones'[k] = tombstones[k]
      BY <1>2, <1>3, <1>4, <2>2, AddRemembers DEF ControlInv
    <3> HIDE DEF Typed
    <3> QED BY <1>8, <3>1 DEF RegistryTyped
  <2>3. CASE Reborn(n)
    <3>1. tombstones' = [k \in DOMAIN tombstones \ {n} |-> tombstones[k]]
      BY <2>3 DEF Reborn
    <3>2. DOMAIN tombstones' \in SUBSET DOMAIN tombstones BY <3>1
    <3>3. IsFiniteSet(DOMAIN tombstones) /\ Cardinality(DOMAIN tombstones) \in Nat
      BY NamesFinite DEF RegistryTyped
    <3>4. Cardinality(DOMAIN tombstones') <= Cardinality(DOMAIN tombstones)
          /\ Cardinality(DOMAIN tombstones') \in Nat
      BY <3>2, <3>3, FS_Subset, FS_CardinalityType
    <3> HIDE DEF Typed
    <3> QED BY <1>8, <3>1, <3>2, <3>3, <3>4, ControlAssumption DEF RegistryTyped
  <2>4. CASE ChangesKind(n)
    <3> DEFINE kept == KeptOf(DOMAIN tombstones, 1)
    <3>1. tombstones' = [k \in kept \cup {n} |->
                           IF k = n THEN Buried(live[n], epoch) ELSE tombstones[k]]
      BY <2>4 DEF ChangesKind, Bury
    <3>2. n \in DOMAIN live BY <2>4 DEF ChangesKind
    <3>3. kept \subseteq DOMAIN tombstones /\ Cardinality(kept) + 1 <= MaxTombstones
      BY <1>3, KeptFits
    <3>4. kept \in SUBSET Name BY <3>3 DEF RegistryTyped
    <3> HIDE DEF kept
    <3>5. IsFiniteSet(kept) /\ Cardinality(kept) \in Nat BY <3>4, NamesFinite
    <3>6. Cardinality(kept \cup {n})
            = IF n \in kept THEN Cardinality(kept) ELSE Cardinality(kept) + 1
      BY <3>5, FS_AddElement
    <3>7. MaxTombstones \in Nat BY ControlAssumption
    <3>8. Cardinality(kept \cup {n}) <= MaxTombstones
      BY <3>3, <3>5, <3>6, <3>7
    <3>9. DOMAIN tombstones' = kept \cup {n} BY <3>1
    <3>10. Fits BY <3>2, <3>4, <3>8, <3>9 DEF RegistryTyped
    <3>11. Typed(Buried(live[n], epoch))
      BY <1>2, <3>2 DEF Buried, RegistryTyped
    <3> HIDE DEF Typed
    <3> QED BY <1>8, <3>1, <3>3, <3>9, <3>10, <3>11
  <2> QED BY <1>1, <2>1, <2>2, <2>3, <2>4
<1>10. epoch' \in 0..MaxLoads BY <1>2, ControlAssumption
<1> QED BY <1>2, <1>4, <1>5, <1>7, <1>9, <1>10 DEF RegistryTyped

\* Steps that change values only.
LEMMA ValuesTyped ==
  ASSUME RegistryTyped, MemoryInv, UNCHANGED <<tombstones, epoch, minted>>,
         DOMAIN live' = DOMAIN live,
         \A n \in DOMAIN live : /\ live'[n].id = live[n].id
                                /\ live'[n].kind = live[n].kind /\ live'[n].slot = live[n].slot
  PROVE  RegistryTyped' /\ MemoryInv'
<1>1. RegistryTyped' BY DEF RegistryTyped
<1>2. \A x \in minted : Holds(live, x) \/ Holds(tombstones, x) =>
                          Holds(live', x) \/ Holds(tombstones', x)
  BY DEF Holds
<1>3. \A n \in DOMAIN live' \cap DOMAIN tombstones' : live'[n].kind # tombstones'[n].kind
  BY DEF MemoryInv
<1> QED BY <1>1, <1>2, <1>3, NothingForgotten

LEMMA RegistryStep ==
  ASSUME ControlInv, RecordingInv, DiffInv', RegistryTyped, MainTyped, MemoryInv, [Next]_vars
  PROVE  RegistryTyped' /\ MemoryInv'
<1>1. CASE RemoveNames BY <1>1, RemoveTyped, RemoveRemembers DEF ControlInv
<1>2. CASE ApplyDescriptor
  <2>1. DOMAIN live' \subseteq DOMAIN work BY <1>2 DEF ApplyDescriptor, DiffInv
  <2> QED BY <1>2, <2>1, ApplyTyped
<1>3. CASE Record
  <2>1. UNCHANGED <<tombstones, epoch, minted>> BY <1>3 DEF Record
  <2>2. CASE UNCHANGED live BY <2>1, <2>2, ValuesTyped
  <2>3. ASSUME NEW n \in DOMAIN live, live' = Recorded(ValueFor(n))
        PROVE  RegistryTyped' /\ MemoryInv'
    <3>1. PICK e : e = ValueFor(n) OBVIOUS
    <3>2. /\ DOMAIN live' = DOMAIN live
          /\ \A k \in DOMAIN live : /\ live'[k].id = live[k].id /\ live'[k].kind = live[k].kind
                                   /\ live'[k].slot = live[k].slot
      BY <2>3, <3>1 DEF Recorded, ControlInv, RegistryInv
    <3> QED BY <2>1, <3>2, ValuesTyped
  <2> QED BY <1>3, <2>2, <2>3, RecordCases
<1>4. CASE Flush
  <2>1. PICK e \in HostEvent : live' = Recorded(e) BY <1>4 DEF Flush
  <2>2. \A n \in DOMAIN live : /\ live'[n].id = live[n].id /\ live'[n].kind = live[n].kind
                               /\ live'[n].slot = live[n].slot
    BY <2>1 DEF Recorded, ControlInv, RegistryInv
  <2>3. UNCHANGED <<tombstones, epoch, minted>> BY <1>4 DEF Flush
  <2>4. DOMAIN live' = DOMAIN live BY <2>1 DEF Recorded
  <2> QED BY <2>2, <2>3, <2>4, ValuesTyped
<1>5. CASE UNCHANGED registryVars
  BY <1>5, ValuesTyped DEF registryVars
<1>6. Push \/ Deactivate \/ Process \/ Beginning \/ UNCHANGED vars => UNCHANGED registryVars
  BY DEF Push, Deactivate, Process, Beginning, Activate, LoadPath, StateLoad, vars
<1> QED BY <1>1, <1>2, <1>3, <1>4, <1>5, <1>6 DEF Next, Beginning

-----------------------------------------------------------------------------
(* The types of the main and of the audio thread.                           *)

LEMMA MainStep == ASSUME ControlInv, RegistryTyped, MainTyped, [Next]_vars PROVE MainTyped'
<1>1. \A values \in SavedSets : Reconciled(values, known) \subseteq Name
  BY ControlAssumption DEF Reconciled
<1>2. \A m \in Manifests : DOMAIN m \subseteq Name BY ControlAssumption
<1>3. CASE RemoveNames
  BY <1>2, <1>3, ControlAssumption DEF RemoveNames, MainTyped, RegistryTyped, controlVars
<1>4. CASE ApplyDescriptor
  BY <1>4 DEF ApplyDescriptor, MainTyped, controlVars
<1>5. CASE Push
  BY <1>2, <1>5 DEF Push, MainTyped, Reconciled, registryVars
<1>6. CASE Record
  <2>1. saved \cap DOMAIN live \subseteq Name /\ DOMAIN live \subseteq Name
    BY DEF RegistryTyped
  <2>2. UNCHANGED <<origin, work, epoch, source, saved, known>> BY <1>6 DEF Record, controlVars
  <2>3. main' \in {"idle", "seeding", "restoring"} /\ rest' \subseteq Name
    BY <1>6, <2>1 DEF Record, MainTyped, StartSeeding, SeedDefault, StartRestoring,
                      RestoreValue, EndRecording
  <2> QED BY <2>2, <2>3 DEF MainTyped
<1>7. CASE Activate
  BY <1>7 DEF Activate, Compile, MainTyped, registryVars, controlVars, mainVars
<1>8. ASSUME NEW m \in Manifests \cup {Broken}, LoadPath(m) PROVE MainTyped'
  BY <1>8 DEF LoadPath, Compile, MainTyped, registryVars, mainVars
<1>9. ASSUME NEW m \in Manifests \cup {Broken}, NEW values \in SavedSets, StateLoad(m, values)
      PROVE  MainTyped'
  BY <1>1, <1>9 DEF StateLoad, Compile, MainTyped, registryVars, mainVars
<1>10. CASE Deactivate
  BY <1>10 DEF Deactivate, MainTyped, registryVars, mainVars
<1>11. CASE Process \/ Flush \/ UNCHANGED vars
  BY <1>11 DEF Process, Flush, MainTyped, vars, registryVars, controlVars, mainVars
<1> QED BY <1>3, <1>4, <1>5, <1>6, <1>7, <1>8, <1>9, <1>10, <1>11 DEF Next

LEMMA FreshLanes ==
  /\ [s \in Slot |-> Smoothed] \in [Slot -> Kind]
  /\ [s \in Slot |-> 0] \in [Slot -> 0..NameCount]
<1>1. Smoothed \in Kind /\ 0 \in 0..NameCount BY ControlAssumption
<1> QED BY <1>1

LEMMA LanesTyped ==
  ASSUME AudioTyped, NEW m \in Manifests
  PROVE  LaneKinds(m) \in [Slot -> Kind]
<1>1. ASSUME NEW s \in Slot, \E n \in DOMAIN m : SlotIn(m, n) = s
      PROVE  m[CHOOSE n \in DOMAIN m : SlotIn(m, n) = s] \in Kind
  <2>1. (CHOOSE n \in DOMAIN m : SlotIn(m, n) = s) \in DOMAIN m BY <1>1
  <2> QED BY <2>1, ControlAssumption
<1> DEFINE lane(s) == IF \E n \in DOMAIN m : SlotIn(m, n) = s
                        THEN m[CHOOSE n \in DOMAIN m : SlotIn(m, n) = s]
                        ELSE Smoothed
<1>2. \A s \in Slot : lane(s) \in Kind BY <1>1, ControlAssumption
<1> HIDE DEF lane
<1>3. [s \in Slot |-> lane(s)] \in [Slot -> Kind] BY <1>2
<1> QED BY <1>3 DEF LaneKinds, AudioTyped, lane

LEMMA TargetsTyped ==
  ASSUME AudioTyped, NEW table, NEW kinds, NEW e \in HostEvent
  PROVE  Targets(table, kinds, e) \in [Slot -> 0..NameCount]
<1>1. e.value \in 0..NameCount BY DEF HostEvent
<1> QED BY <1>1 DEF Targets, AudioTyped

LEMMA AudioStep == ASSUME ControlInv, MainTyped, AudioTyped, [Next]_vars PROVE AudioTyped'
<1>1. CASE Process
  <2>1. active' = active /\ plan_ring' = {} BY <1>1 DEF Process
  <2>2. Cardinality(plan_ring') <= 1 BY <2>1, FS_EmptySet
  <2>3. layout' \in Manifests \cup {Empty} /\ lane_kind' \in [Slot -> Kind]
    BY <1>1, LanesTyped DEF Process, AdoptPending, Adopts, AudioTyped
  <2>4. target' \in [Slot -> 0..NameCount]
    <3>1. CASE UNCHANGED target BY <3>1 DEF AudioTyped
    <3>2. ASSUME NEW e \in HostEvent, target' = Targets(routing', lane_kind', e)
          PROVE  target' \in [Slot -> 0..NameCount]
      BY <3>2, TargetsTyped
    <3> QED BY <1>1, <3>1, <3>2 DEF Process
  <2> QED BY <2>1, <2>2, <2>3, <2>4 DEF AudioTyped
<1>2. CASE Flush
  <2>1. PICK e \in HostEvent : target' = Targets(routing, lane_kind, e) BY <1>2 DEF Flush
  <2>2. target' \in [Slot -> 0..NameCount] BY <2>1, TargetsTyped
  <2>3. UNCHANGED <<active, plan_ring, layout, lane_kind>> BY <1>2 DEF Flush
  <2> QED BY <2>2, <2>3 DEF AudioTyped
<1>3. CASE Push
  <2> DEFINE plan == [layout |-> work, routing |-> Routing]
  <2>1. work \in Manifests BY <1>3 DEF Push, MainTyped
  <2>2. UNCHANGED <<active, target>> BY <1>3 DEF Push
  <2>3. plan.layout = work OBVIOUS
  <2>4. \/ UNCHANGED plan_ring /\ layout' = work /\ lane_kind' = LaneKinds(work)
        \/ plan_ring' = {plan} /\ UNCHANGED <<layout, lane_kind>>
    BY <1>3 DEF Push, Adopts
  <2> HIDE DEF plan
  <2>5. CASE UNCHANGED plan_ring /\ layout' = work /\ lane_kind' = LaneKinds(work)
    BY <2>1, <2>2, <2>5, LanesTyped DEF AudioTyped
  <2>6. CASE plan_ring' = {plan} /\ UNCHANGED <<layout, lane_kind>>
    <3>1. Cardinality(plan_ring') = 1 BY <2>6, FS_Singleton
    <3> QED BY <2>1, <2>2, <2>3, <2>6, <3>1 DEF AudioTyped
  <2> QED BY <2>4, <2>5, <2>6
<1>4. CASE Deactivate
  <2>1. plan_ring' = {} BY <1>4 DEF Deactivate
  <2>2. Cardinality(plan_ring') <= 1 BY <2>1, FS_EmptySet
  <2>3. layout' = Empty /\ active' \in BOOLEAN BY <1>4 DEF Deactivate
  <2>4. lane_kind' \in [Slot -> Kind] /\ target' \in [Slot -> 0..NameCount]
    BY <1>4, FreshLanes DEF Deactivate
  <2> QED BY <2>1, <2>2, <2>3, <2>4 DEF AudioTyped
<1>5. CASE RemoveNames \/ ApplyDescriptor \/ Record \/ UNCHANGED vars
  BY <1>5 DEF RemoveNames, ApplyDescriptor, Record, AudioTyped, audioVars, vars
<1>6. CASE Beginning
  BY <1>6 DEF Beginning, Activate, LoadPath, StateLoad, AudioTyped, audioVars
<1> QED BY <1>1, <1>2, <1>3, <1>4, <1>5, <1>6 DEF Next, Beginning

-----------------------------------------------------------------------------
LEMMA SoundInit == Init => RegistryTyped /\ MainTyped /\ AudioTyped /\ MemoryInv
<1> SUFFICES ASSUME Init PROVE RegistryTyped /\ MainTyped /\ AudioTyped /\ MemoryInv OBVIOUS
<1>1. DOMAIN live = {} /\ DOMAIN tombstones = {} /\ minted = {} /\ epoch = 0 /\ plan_ring = {}
  BY DEF Init, Empty
<1>2. Cardinality({}) = 0 /\ IsFiniteSet({}) BY FS_EmptySet
<1>3. RegistryTyped BY <1>1, <1>2, ControlAssumption DEF RegistryTyped
<1>4. MainTyped BY DEF Init, MainTyped
<1>5. AudioTyped
  <2>1. layout = Empty /\ active \in BOOLEAN BY DEF Init
  <2>2. lane_kind \in [Slot -> Kind] /\ target \in [Slot -> 0..NameCount]
    BY FreshLanes DEF Init
  <2> QED BY <1>1, <1>2, <2>1, <2>2 DEF AudioTyped
<1>6. MemoryInv BY <1>1 DEF MemoryInv, OneIdPerControl
<1> QED BY <1>3, <1>4, <1>5, <1>6

LEMMA SoundMeans == SoundInv => RegistrySound
<1> SUFFICES ASSUME SoundInv PROVE RegistrySound OBVIOUS
<1> USE DEF SoundInv
<1>1. next_id \in Nat /\ \A x \in minted : x.id \in Nat /\ x.id < next_id
  BY DEF ControlInv, RegistryInv
<1>2. \A n \in Name : {0, n} \subseteq 0..NameCount BY ControlAssumption DEF Name
<1>3. \A n \in DOMAIN live :
        live[n] \in [id : 0..next_id, kind : Kind, slot : Slot, value : 0..NameCount]
  <2> SUFFICES ASSUME NEW n \in DOMAIN live
               PROVE  live[n] \in [id : 0..next_id, kind : Kind, slot : Slot, value : 0..NameCount]
    OBVIOUS
  <2>1. live[n] = [id |-> live[n].id, kind |-> live[n].kind,
                   slot |-> live[n].slot, value |-> live[n].value]
    BY DEF ControlInv, RegistryInv
  <2>2. [id |-> live[n].id, name |-> n, kind |-> live[n].kind] \in minted
    BY DEF ControlInv, RegistryInv, IdsNeverRebound
  <2>3. live[n].id \in 0..next_id BY <1>1, <2>2
  <2>4. live[n].value \in 0..NameCount
    BY <1>2 DEF ControlInv, RegistryInv, RecordedIsOwn, RegistryTyped
  <2>5. live[n].kind \in Kind /\ live[n].slot \in Slot BY DEF RegistryTyped
  <2> QED BY <2>1, <2>3, <2>4, <2>5
<1>4. \A n \in DOMAIN tombstones :
        tombstones[n] \in [id : 0..next_id, kind : Kind, value : 0..NameCount, epoch : 1..epoch]
  <2> SUFFICES ASSUME NEW n \in DOMAIN tombstones
               PROVE  tombstones[n] \in
                        [id : 0..next_id, kind : Kind, value : 0..NameCount, epoch : 1..epoch]
    OBVIOUS
  <2>1. tombstones[n] = [id |-> tombstones[n].id, kind |-> tombstones[n].kind,
                         value |-> tombstones[n].value, epoch |-> tombstones[n].epoch]
    BY DEF RegistryTyped
  <2>2. [id |-> tombstones[n].id, name |-> n, kind |-> tombstones[n].kind] \in minted
    BY DEF ControlInv, RegistryInv, IdsNeverRebound
  <2>3. tombstones[n].id \in 0..next_id BY <1>1, <2>2
  <2>4. tombstones[n].value \in 0..NameCount
    BY <1>2 DEF ControlInv, RegistryInv, RecordedIsOwn, RegistryTyped
  <2>5. tombstones[n].kind \in Kind /\ tombstones[n].epoch \in 1..epoch BY DEF RegistryTyped
  <2> QED BY <2>1, <2>3, <2>4, <2>5
<1>5. DOMAIN routing \subseteq 0..next_id /\ \A i \in DOMAIN routing : routing[i] \in Slot
  <2> SUFFICES ASSUME NEW i \in DOMAIN routing
               PROVE  i \in 0..next_id /\ routing[i] \in Slot
    OBVIOUS
  <2>1. PICK x \in minted : x.id = i /\ x.name \in DOMAIN layout
                            /\ routing[i] = SlotIn(layout, x.name)
    BY DEF ControlInv, RoutedInv, RightFor
  <2>2. layout \in Manifests BY <2>1 DEF AudioTyped, Empty
  <2> QED BY <1>1, <2>1, <2>2, SlotTyped
<1>6. TypeOK
  BY <1>1, <1>3, <1>4, <1>5 DEF TypeOK, RegistryTyped, MainTyped, AudioTyped
<1> QED BY <1>6 DEF RegistrySound, MemoryInv

\* The registry stays within its types and its table, and gives a control a second id
\* only when more controls were declared than it can remember, or the name changed its
\* kind (StandardHostControlRegistry::apply, evict_tombstones_if_full).
THEOREM ControlRegistrySound == Spec => []RegistrySound
<1>1. Init => SoundInv BY ControlInit, SoundInit DEF SoundInv
<1>2. SoundInv /\ RecordingInv /\ [Next]_vars => SoundInv'
  <2> SUFFICES ASSUME SoundInv, RecordingInv, [Next]_vars PROVE SoundInv' OBVIOUS
  <2>1. ControlInv' BY ControlStep DEF SoundInv
  <2>2. RegistryTyped' /\ MemoryInv' BY <2>1, RegistryStep DEF SoundInv, ControlInv
  <2>3. MainTyped' BY MainStep DEF SoundInv
  <2>4. AudioTyped' BY AudioStep DEF SoundInv
  <2> QED BY <2>1, <2>2, <2>3, <2>4 DEF SoundInv
<1> QED BY <1>1, <1>2, SoundMeans, RecordingInvariant, PTL DEF Spec

=============================================================================
