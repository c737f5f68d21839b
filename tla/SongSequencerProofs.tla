------------------------- MODULE SongSequencerProofs -------------------------
(***************************************************************************)
(* The players of a song, proved for every program, every number of        *)
(* channels and every clock bus.                                           *)
(*                                                                         *)
(* First the counters that let a player skip a sample: they are what they  *)
(* stand for.  A player is treated one step at a time, and a step one lane *)
(* at a time; nothing is assumed of the pattern it plays, nor of the times *)
(* it counts in, which is why a reload between any two samples cannot      *)
(* upset it.                                                               *)
(*                                                                         *)
(* Then the song: bank indices that are not marked out of date are those   *)
(* of the sequencer's row, through every reload and every move of the      *)
(* transport, so that a tick puts each player where the song is.           *)
(***************************************************************************)
EXTENDS SongSequencer, TLAPS, FiniteSetTheorems, WellFoundedInduction

-----------------------------------------------------------------------------
(* The shape of a player.  Voltages and times may be anything.              *)

IsRamp(r) ==
  /\ r = [active |-> r.active, to |-> r.to, elapsed |-> r.elapsed, total |-> r.total]
  /\ r.active \in BOOLEAN

IsSchedule(r) ==
  /\ r = [active |-> r.active, pending |-> r.pending, of |-> r.of, gate_off |-> r.gate_off]
  /\ r.active \in BOOLEAN

IsLane(l) ==
  /\ l = [gate |-> l.gate, trigger |-> l.trigger, cv |-> l.cv, slide |-> l.slide, roll |-> l.roll]
  /\ l.gate \in BOOLEAN /\ l.trigger \in BOOLEAN
  /\ IsRamp(l.slide) /\ IsSchedule(l.roll)

\* A trigger is never up without the gate.
Steady(l) == IsLane(l) /\ (l.trigger => l.gate)

IsPlayer(p) ==
  /\ p = [lane |-> p.lane, bank |-> p.bank, step |-> p.step, stopped |-> p.stopped,
          duration |-> p.duration, elapsed |-> p.elapsed, prev_trigger |-> p.prev_trigger,
          slides |-> p.slides, repeats |-> p.repeats, clear_needed |-> p.clear_needed]
  /\ p.lane = [c \in Lane |-> p.lane[c]]
  /\ \A c \in Lane : Steady(p.lane[c])

\* What PlayersAccounted says of one player
Accounted(p) ==
  /\ p.slides = Cardinality(Sliding(p.lane))
  /\ p.repeats = Cardinality(Rolling(p.lane))
  /\ \A c \in Lane : p.lane[c].trigger => p.clear_needed
  /\ p.stopped => \A c \in Lane : ~p.lane[c].gate /\ ~p.lane[c].trigger

PlayerInv(p) == IsPlayer(p) /\ Accounted(p)

SongInv ==
  /\ left \in 0..Block
  /\ players = [c \in Chan |-> players[c]]
  /\ \A c \in Chan : PlayerInv(players[c])

-----------------------------------------------------------------------------
(* One lane.                                                                *)

LEMMA ConstantShapes ==
  /\ IsRamp(NoRamp) /\ ~NoRamp.active
  /\ IsSchedule(NoSchedule) /\ ~NoSchedule.active
  /\ \A slide, p : IsRamp(Ramp(slide, p))
  /\ \A roll, p : IsSchedule(Schedule(roll, p))
  /\ Steady(SilentLane) /\ ~SilentLane.gate /\ ~SilentLane.trigger
  /\ ~SilentLane.slide.active /\ ~SilentLane.roll.active
BY DEF IsRamp, NoRamp, IsSchedule, NoSchedule, Ramp, Schedule, Steady, IsLane, SilentLane

\* A slide that goes on for a sample can end; nothing else of the lane changes but
\* the voltage.
LEMMA SlideStep ==
  ASSUME NEW lane, IsLane(lane)
  PROVE  /\ IsLane(SlideAdvanced(lane))
         /\ SlideAdvanced(lane).gate = lane.gate
         /\ SlideAdvanced(lane).trigger = lane.trigger
         /\ SlideAdvanced(lane).roll = lane.roll
         /\ SlideAdvanced(lane).slide.active => lane.slide.active
<1> DEFINE next == [lane.slide EXCEPT !.elapsed = @ + 1]
<1>1. IsRamp(next) /\ next.active = lane.slide.active
  BY DEF IsLane, IsRamp
<1>2. CASE next.total > 0 /\ next.elapsed >= next.total
  <2>1. SlideAdvanced(lane) = [lane EXCEPT !.cv = next.to, !.slide = NoRamp]
    BY <1>2 DEF SlideAdvanced
  <2> QED BY <2>1, ConstantShapes DEF IsLane
<1>3. CASE ~(next.total > 0 /\ next.elapsed >= next.total)
  <2>1. SlideAdvanced(lane) = [lane EXCEPT !.cv = Moving, !.slide = next]
    BY <1>3 DEF SlideAdvanced
  <2> QED BY <2>1, <1>1 DEF IsLane
<1> QED BY <1>2, <1>3

\* A sub-event that fires raises gate and trigger; the last one ends the roll.
LEMMA FireStep ==
  ASSUME NEW lane, NEW p, IsLane(lane)
  PROVE  /\ IsLane(Fired(lane, p))
         /\ Fired(lane, p).slide = lane.slide
         /\ Fired(lane, p).roll.active => lane.roll.active
         /\ Due(lane.roll, p) => Fired(lane, p).gate /\ Fired(lane, p).trigger
         /\ ~Due(lane.roll, p) => Fired(lane, p) = lane
<1>1. CASE ~Due(lane.roll, p)
  BY <1>1 DEF Fired
<1>2. CASE Due(lane.roll, p)
  <2>1. lane.roll.active
    BY <1>2 DEF Due
  <2> DEFINE rest == Tail(lane.roll.pending)
             off  == GateOff(rest, lane.roll.of, p)
             roll == IF rest = <<>> THEN NoSchedule
                     ELSE [lane.roll EXCEPT !.pending = rest, !.gate_off = off]
  <2>2. Fired(lane, p) = [lane EXCEPT !.trigger = TRUE, !.gate = TRUE, !.roll = roll]
    BY <1>2 DEF Fired, IsLane, IsSchedule
  <2>3. IsSchedule(roll)
    <3> HIDE DEF off, rest
    <3> QED BY ConstantShapes DEF IsSchedule, IsLane
  <2> HIDE DEF roll
  <2> QED BY <1>2, <2>1, <2>2, <2>3 DEF IsLane
<1> QED BY <1>1, <1>2

\* A sample of a roll: the trigger is raised by a sub-event that fires, and then the
\* gate is up with it.
LEMMA RollStep ==
  ASSUME NEW lane, NEW p, IsLane(lane), ~lane.trigger
  PROVE  /\ Steady(RollAdvanced(lane, p))
         /\ RollAdvanced(lane, p).slide = lane.slide
         /\ RollAdvanced(lane, p).roll.active => lane.roll.active
         /\ RollAdvanced(lane, p).trigger => Due(lane.roll, p)
<1> DEFINE gone == lane.roll.gate_off - 5 * lane.roll.of
           counted == IF lane.roll.gate_off >= Never THEN lane
                      ELSE IF gone <= 0 THEN [lane EXCEPT !.gate = FALSE, !.roll.gate_off = Never]
                      ELSE [lane EXCEPT !.roll.gate_off = gone]
<1>1. RollAdvanced(lane, p) = Fired(counted, p)
  BY DEF RollAdvanced
<1>2. /\ IsLane(counted) /\ ~counted.trigger
      /\ counted.slide = lane.slide
      /\ counted.roll.active = lane.roll.active
      /\ counted.roll.pending = lane.roll.pending /\ counted.roll.of = lane.roll.of
  <2> HIDE DEF gone
  <2>1. CASE lane.roll.gate_off >= Never
    BY <2>1
  <2>2. CASE ~(lane.roll.gate_off >= Never) /\ gone <= 0
    BY <2>2 DEF IsLane, IsSchedule
  <2>3. CASE ~(lane.roll.gate_off >= Never) /\ ~(gone <= 0)
    BY <2>3 DEF IsLane, IsSchedule
  <2> QED BY <2>1, <2>2, <2>3
<1> HIDE DEF counted
<1>3. Due(counted.roll, p) <=> Due(lane.roll, p)
  BY <1>2 DEF Due
<1> QED BY <1>1, <1>2, <1>3, FireStep DEF Steady, IsLane

LaneOf(gate, trigger, cv, slide, roll) ==
  [gate |-> gate, trigger |-> trigger, cv |-> cv, slide |-> slide, roll |-> roll]

LEMMA SteadyLaneOf ==
  ASSUME NEW gate \in BOOLEAN, NEW trigger \in BOOLEAN, NEW cv, NEW slide, NEW roll,
         trigger => gate, IsRamp(slide), IsSchedule(roll),
         NEW l, l = LaneOf(gate, trigger, cv, slide, roll)
  PROVE  Steady(l)
<1>1. /\ l.gate = gate /\ l.trigger = trigger /\ l.cv = cv
      /\ l.slide = slide /\ l.roll = roll
  BY DEF LaneOf
<1>2. l = [gate |-> l.gate, trigger |-> l.trigger, cv |-> l.cv, slide |-> l.slide, roll |-> l.roll]
  BY <1>1 DEF LaneOf
<1> QED BY <1>1, <1>2, Zenon DEF Steady, IsLane

\* Silence, and a channel that the pattern does not have
LEMMA QuietStep ==
  ASSUME NEW lane, Steady(lane)
  PROVE  Steady(Quiet(lane))
<1>1. lane = LaneOf(lane.gate, lane.trigger, lane.cv, lane.slide, lane.roll)
  BY Zenon DEF Steady, IsLane, LaneOf
<1>2. PICK quiet : quiet = Quiet(lane)
  OBVIOUS
<1>3. quiet = LaneOf(FALSE, FALSE, lane.cv, NoRamp, NoSchedule)
  BY <1>1, <1>2 DEF Quiet, LaneOf
<1>4. Steady(quiet)
  BY <1>3, ConstantShapes, SteadyLaneOf
<1> QED BY <1>2, <1>4

\* Whatever the cell of the pattern asks for, the lane it leaves is steady.
LEMMA ApplyStep ==
  ASSUME NEW lane, NEW eff, NEW p, Steady(lane)
  PROVE  Steady(Applied(lane, eff, p))
<1>0. /\ lane = LaneOf(lane.gate, lane.trigger, lane.cv, lane.slide, lane.roll)
      /\ IsRamp(lane.slide) /\ IsSchedule(lane.roll)
      /\ lane.gate \in BOOLEAN /\ lane.trigger \in BOOLEAN
  BY Zenon DEF Steady, IsLane, LaneOf
<1>1. Steady(Quiet(lane))
  BY QuietStep
<1>2. PICK on : on = Held(lane)
  OBVIOUS
<1>3. on = LaneOf(TRUE, FALSE, lane.cv, lane.slide, NoSchedule)
  BY <1>0, <1>2 DEF Held, LaneOf
<1>4. Steady(on)
  BY <1>0, <1>3, ConstantShapes, SteadyLaneOf
<1>5. Steady(IF lane.roll.active THEN Fired([lane EXCEPT !.roll = Nearer(@)], p) ELSE lane)
  <2>1. PICK roll : roll = Nearer(lane.roll)
    OBVIOUS
  <2>2. PICK near : near = [lane EXCEPT !.roll = Nearer(@)]
    OBVIOUS
  <2>3. IsSchedule(roll)
    BY <1>0, <2>1 DEF IsSchedule, Nearer
  <2>4. near = [lane EXCEPT !.roll = roll]
    BY <1>0, <2>1, <2>2 DEF LaneOf
  <2>5. near = LaneOf(lane.gate, lane.trigger, lane.cv, lane.slide, roll)
    BY <1>0, <2>4 DEF LaneOf
  <2>6. lane.trigger => lane.gate
    BY Zenon DEF Steady
  <2>7. Steady(near)
    BY <1>0, <2>3, <2>5, <2>6, SteadyLaneOf
  <2>8. Steady(Fired(near, p))
    BY <2>7, FireStep, Zenon DEF Steady
  <2> QED BY <2>2, <2>8
<1>6. Steady([Held(lane) EXCEPT !.slide = NoRamp])
  <2>1. PICK hold : hold = [on EXCEPT !.slide = NoRamp]
    OBVIOUS
  <2>2. hold = LaneOf(TRUE, FALSE, lane.cv, NoRamp, NoSchedule)
    BY <1>3, <2>1 DEF LaneOf
  <2>3. Steady(hold)
    BY <2>2, ConstantShapes, SteadyLaneOf
  <2> QED BY <1>2, <2>1, <2>3
<1>7. Steady(IF lane.slide.active THEN SlideAdvanced(Held(lane)) ELSE Held(lane))
  <2>1. Steady(SlideAdvanced(on))
    BY <1>4, SlideStep, Zenon DEF Steady
  <2> QED BY <1>2, <1>4, <2>1
<1>8. Steady([Held(lane) EXCEPT !.slide = NoRamp, !.cv = eff.cv])
  <2>1. PICK hold : hold = [on EXCEPT !.slide = NoRamp, !.cv = eff.cv]
    OBVIOUS
  <2>2. hold = LaneOf(TRUE, FALSE, eff.cv, NoRamp, NoSchedule)
    BY <1>3, <2>1 DEF LaneOf
  <2>3. Steady(hold)
    BY <2>2, ConstantShapes, SteadyLaneOf
  <2> QED BY <1>2, <2>1, <2>3
<1>9. Steady([Held(lane) EXCEPT !.cv = Moving, !.slide = Ramp(eff.slide, p)])
  <2>1. PICK ramp : ramp = Ramp(eff.slide, p)
    OBVIOUS
  <2>2. PICK hold : hold = [on EXCEPT !.cv = Moving, !.slide = ramp]
    OBVIOUS
  <2>3. IsRamp(ramp)
    BY <2>1, ConstantShapes
  <2>4. hold = LaneOf(TRUE, FALSE, Moving, ramp, NoSchedule)
    BY <1>3, <2>2 DEF LaneOf
  <2>5. Steady(hold)
    BY <2>3, <2>4, ConstantShapes, SteadyLaneOf
  <2> QED BY <1>2, <2>1, <2>2, <2>5
<1> DEFINE opens == eff.slide # NoSlide
           note == [lane EXCEPT
                      !.gate = TRUE, !.trigger = TRUE,
                      !.cv = IF opens THEN Moving ELSE eff.cv,
                      !.slide = IF opens THEN Ramp(eff.slide, p) ELSE NoRamp,
                      !.roll = IF eff.roll = NoRoll THEN NoSchedule ELSE Schedule(eff.roll, p)]
<1>10. Steady(note)
  <2>1. PICK slide : slide = IF opens THEN Ramp(eff.slide, p) ELSE NoRamp
    OBVIOUS
  <2>2. PICK roll : roll = IF eff.roll = NoRoll THEN NoSchedule ELSE Schedule(eff.roll, p)
    OBVIOUS
  <2>3. PICK cv : cv = IF opens THEN Moving ELSE eff.cv
    OBVIOUS
  <2>4. IsRamp(slide)
    BY <2>1, ConstantShapes
  <2>5. IsSchedule(roll)
    BY <2>2, ConstantShapes
  <2>6. PICK l : l = [lane EXCEPT !.gate = TRUE, !.trigger = TRUE,
                                  !.cv = cv, !.slide = slide, !.roll = roll]
    OBVIOUS
  <2>7. l = LaneOf(TRUE, TRUE, cv, slide, roll)
    BY <1>0, <2>6 DEF LaneOf
  <2>8. Steady(l)
    BY <2>4, <2>5, <2>7, SteadyLaneOf
  <2>9. note = l
    BY <2>1, <2>2, <2>3, <2>6
  <2> QED BY <2>8, <2>9
<1> QED
  BY <1>1, <1>2, <1>4, <1>5, <1>6, <1>7, <1>8, <1>9, <1>10, Zenon DEF Applied

-----------------------------------------------------------------------------
(* One player.                                                              *)

LEMMA FiniteLanes ==
  ASSUME NEW lanes
  PROVE  /\ IsFiniteSet(Sliding(lanes)) /\ Sliding(lanes) \subseteq Lane
         /\ IsFiniteSet(Rolling(lanes)) /\ Rolling(lanes) \subseteq Lane
<1>1. IsFiniteSet(Lane)
  BY PlayerAssumption, FS_Interval DEF Lane
<1>2. Sliding(lanes) \subseteq Lane /\ Rolling(lanes) \subseteq Lane
  BY DEF Sliding, Rolling
<1> QED BY <1>1, <1>2, FS_Subset

\* Counting down what ended leaves the count of what goes on.
LEMMA CountedDown ==
  ASSUME NEW A, NEW B, IsFiniteSet(A), B \subseteq A
  PROVE  CountDown(Cardinality(A), Cardinality(A \ B)) = Cardinality(B)
<1>1. A \cap B = B
  OBVIOUS
<1>2. /\ IsFiniteSet(B) /\ IsFiniteSet(A \ B)
  BY FS_Subset
<1>3. /\ Cardinality(A) \in Nat /\ Cardinality(B) \in Nat /\ Cardinality(A \ B) \in Nat
  BY <1>2, FS_CardinalityType
<1>4. Cardinality(A \ B) = Cardinality(A) - Cardinality(B)
  BY <1>1, FS_Difference
<1> QED BY <1>3, <1>4 DEF CountDown

\* The counts of a player are those of its lanes if its lanes are active as they were.
LEMMA SameCounts ==
  ASSUME NEW before, NEW after,
         \A c \in Lane : /\ after[c].slide.active = before[c].slide.active
                         /\ after[c].roll.active = before[c].roll.active
  PROVE  Sliding(after) = Sliding(before) /\ Rolling(after) = Rolling(before)
BY DEF Sliding, Rolling

LEMMA ClearStep ==
  ASSUME NEW p, IsPlayer(p)
  PROVE  PlayerInv(Cleared(p))
<1>1. PICK lane : lane = [c \in Lane |-> SilentLane]
  OBVIOUS
<1>2. PICK q : q = Cleared(p)
  OBVIOUS
<1>3. /\ q.lane = lane /\ q.stopped = TRUE /\ q.slides = 0 /\ q.repeats = 0
      /\ q = [lane |-> q.lane, bank |-> q.bank, step |-> q.step, stopped |-> q.stopped,
              duration |-> q.duration, elapsed |-> q.elapsed, prev_trigger |-> q.prev_trigger,
              slides |-> q.slides, repeats |-> q.repeats, clear_needed |-> q.clear_needed]
  BY <1>1, <1>2 DEF Cleared, IsPlayer
<1>4. IsPlayer(q)
  BY <1>1, <1>3, ConstantShapes DEF IsPlayer
<1>5. Sliding(lane) = {} /\ Rolling(lane) = {}
  BY <1>1, ConstantShapes DEF Sliding, Rolling
<1>6. Accounted(q)
  BY <1>1, <1>3, <1>5, ConstantShapes, FS_EmptySet DEF Accounted
<1> QED BY <1>2, <1>4, <1>6 DEF PlayerInv

LEMMA SteppedLanes ==
  ASSUME NEW p, NEW patterns, IsPlayer(p)
  PROVE  /\ Stepped(p, patterns) = [c \in Lane |-> Stepped(p, patterns)[c]]
         /\ \A c \in Lane : Steady(Stepped(p, patterns)[c])
<1>1. CASE p.bank + 1 \notin DOMAIN patterns
  BY <1>1 DEF Stepped, IsPlayer
<1>2. CASE p.bank + 1 \in DOMAIN patterns
  <2>1. PICK pattern : pattern = patterns[p.bank + 1]
    OBVIOUS
  <2> DEFINE eff(c) == pattern[c][(p.step % Len(pattern[c])) + 1]
             lane(c) == IF c > Len(pattern) THEN Quiet(p.lane[c]) ELSE Applied(p.lane[c], eff(c), p)
  <2>2. Stepped(p, patterns) = [c \in Lane |-> lane(c)]
    BY <1>2, <2>1 DEF Stepped
  <2>3. ASSUME NEW c \in Lane PROVE Steady(lane(c))
    <3>1. Steady(p.lane[c])
      BY DEF IsPlayer
    <3>2. PICK l : l = p.lane[c]
      OBVIOUS
    <3>3. Steady(Quiet(l))
      BY <3>1, <3>2, QuietStep
    <3>4. PICK e : e = eff(c)
      OBVIOUS
    <3>5. Steady(Applied(l, e, p))
      BY <3>1, <3>2, ApplyStep
    <3> HIDE DEF eff
    <3> QED BY <3>2, <3>3, <3>4, <3>5
  <2> HIDE DEF lane
  <2> QED BY <2>2, <2>3
<1> QED BY <1>1, <1>2

LEMMA RiseStep ==
  ASSUME NEW p, NEW bus, NEW patterns, IsPlayer(p)
  PROVE  PlayerInv(OnRise(p, bus, patterns))
<1>1. PICK q : q = [p EXCEPT !.stopped = FALSE, !.bank = bus.bank, !.step = bus.step,
                             !.duration = bus.duration, !.elapsed = bus.into]
  OBVIOUS
<1>2. IsPlayer(q) /\ q.stopped = FALSE
  BY <1>1 DEF IsPlayer
<1>3. PICK lanes : lanes = Stepped(q, patterns)
  OBVIOUS
<1>4. /\ lanes = [c \in Lane |-> lanes[c]]
      /\ \A c \in Lane : Steady(lanes[c])
  BY <1>2, <1>3, SteppedLanes
<1>5. PICK r : r = OnRise(p, bus, patterns)
  OBVIOUS
<1>6. r = [q EXCEPT !.lane = lanes,
                    !.slides = Cardinality(Sliding(lanes)),
                    !.repeats = Cardinality(Rolling(lanes)),
                    !.clear_needed = \E c \in Lane : lanes[c].trigger]
  BY <1>1, <1>3, <1>5 DEF OnRise
<1>7. /\ r.lane = lanes /\ r.stopped = FALSE
      /\ r.slides = Cardinality(Sliding(lanes))
      /\ r.repeats = Cardinality(Rolling(lanes))
      /\ r.clear_needed = (\E c \in Lane : lanes[c].trigger)
      /\ r = [lane |-> r.lane, bank |-> r.bank, step |-> r.step, stopped |-> r.stopped,
              duration |-> r.duration, elapsed |-> r.elapsed, prev_trigger |-> r.prev_trigger,
              slides |-> r.slides, repeats |-> r.repeats, clear_needed |-> r.clear_needed]
  BY <1>2, <1>6 DEF IsPlayer
<1>8. IsPlayer(r)
  BY <1>4, <1>7 DEF IsPlayer
<1>9. Accounted(r)
  BY <1>7 DEF Accounted
<1> QED BY <1>5, <1>8, <1>9 DEF PlayerInv

\* A sample between two ticks.  The trigger a player has up is lowered first, so that
\* whatever is up afterwards was raised by a roll, which asks for it to be lowered.
LEMMA BetweenStep ==
  ASSUME NEW p, PlayerInv(p), ~p.stopped
  PROVE  PlayerInv(Between(p))
<1> DEFINE lowered == IF p.clear_needed
                      THEN [c \in Lane |-> [p.lane[c] EXCEPT !.trigger = FALSE]]
                      ELSE p.lane
<1>0. IsPlayer(p) /\ Accounted(p)
  BY DEF PlayerInv
<1>1. PICK low : low = lowered
  OBVIOUS
<1>2. /\ low = [c \in Lane |-> low[c]]
      /\ \A c \in Lane : /\ IsLane(low[c]) /\ ~low[c].trigger
                         /\ low[c].slide = p.lane[c].slide
                         /\ low[c].roll = p.lane[c].roll
  <2>1. CASE p.clear_needed
    <3>1. low = [c \in Lane |-> [p.lane[c] EXCEPT !.trigger = FALSE]]
      BY <1>1, <2>1
    <3>2. ASSUME NEW c \in Lane
          PROVE  /\ IsLane(low[c]) /\ ~low[c].trigger
                 /\ low[c].slide = p.lane[c].slide /\ low[c].roll = p.lane[c].roll
      <4>1. PICK l : l = p.lane[c]
        OBVIOUS
      <4>2. IsLane(l)
        BY <1>0, <4>1 DEF IsPlayer, Steady
      <4>3. PICK m : m = [l EXCEPT !.trigger = FALSE]
        OBVIOUS
      <4>4. IsLane(m) /\ ~m.trigger /\ m.slide = l.slide /\ m.roll = l.roll
        BY <4>2, <4>3 DEF IsLane
      <4> QED BY <3>1, <4>1, <4>3, <4>4
    <3> QED BY <3>1, <3>2
  <2>2. CASE ~p.clear_needed
    <3>1. low = p.lane
      BY <1>1, <2>2
    <3> QED BY <1>0, <2>2, <3>1 DEF IsPlayer, Steady, Accounted
  <2> QED BY <2>1, <2>2
<1>3. Sliding(low) = Sliding(p.lane) /\ Rolling(low) = Rolling(p.lane)
  <2>1. \A c \in Lane : /\ low[c].slide.active = p.lane[c].slide.active
                        /\ low[c].roll.active = p.lane[c].roll.active
    BY <1>2
  <2>2. PICK lane : lane = p.lane
    OBVIOUS
  <2> QED BY <2>1, <2>2, SameCounts
<1> HIDE DEF lowered
<1>4. CASE p.slides = 0 /\ p.repeats = 0
  <2>1. PICK r : r = Between(p)
    OBVIOUS
  <2>2. r = [p EXCEPT !.lane = low, !.clear_needed = FALSE]
    BY <1>1, <1>4, <2>1 DEF Between, lowered
  <2>3. /\ r.lane = low /\ r.stopped = p.stopped /\ r.slides = p.slides /\ r.repeats = p.repeats
        /\ r = [lane |-> r.lane, bank |-> r.bank, step |-> r.step, stopped |-> r.stopped,
                duration |-> r.duration, elapsed |-> r.elapsed, prev_trigger |-> r.prev_trigger,
                slides |-> r.slides, repeats |-> r.repeats, clear_needed |-> r.clear_needed]
    BY <1>0, <2>2 DEF IsPlayer
  <2>4. IsPlayer(r)
    BY <1>2, <2>3 DEF IsPlayer, Steady
  <2>5. Accounted(r)
    BY <1>0, <1>2, <1>3, <2>3 DEF Accounted
  <2> QED BY <2>1, <2>4, <2>5 DEF PlayerInv
<1>5. CASE ~(p.slides = 0 /\ p.repeats = 0)
  <2> DEFINE later == [p EXCEPT !.lane = low, !.clear_needed = FALSE, !.elapsed = Later(@, p)]
             slid_lane(c) == IF low[c].slide.active THEN SlideAdvanced(low[c]) ELSE low[c]
  <2>1. PICK q : q = later
    OBVIOUS
  <2>2. PICK slid : slid = [c \in Lane |-> slid_lane(c)]
    OBVIOUS
  <2> DEFINE next_lane(c) == IF slid[c].roll.active THEN RollAdvanced(slid[c], q) ELSE slid[c]
  <2>3. PICK next : next = [c \in Lane |-> next_lane(c)]
    OBVIOUS
  <2>4. ASSUME NEW c \in Lane
        PROVE  /\ IsLane(slid[c]) /\ ~slid[c].trigger
               /\ slid[c].slide.active => low[c].slide.active
               /\ slid[c].roll = low[c].roll
    <3>1. PICK l : l = low[c]
      OBVIOUS
    <3>2. IsLane(l) /\ ~l.trigger
      BY <1>2, <3>1
    <3>3. slid[c] = IF l.slide.active THEN SlideAdvanced(l) ELSE l
      BY <2>2, <3>1
    <3> QED BY <3>1, <3>2, <3>3, SlideStep
  <2>5. ASSUME NEW c \in Lane
        PROVE  /\ Steady(next[c])
               /\ next[c].slide.active => low[c].slide.active
               /\ next[c].roll.active => low[c].roll.active
               /\ next[c].trigger => Due(slid[c].roll, q)
    <3>1. PICK l : l = slid[c]
      OBVIOUS
    <3>2. /\ IsLane(l) /\ ~l.trigger
          /\ l.slide.active => low[c].slide.active
          /\ l.roll = low[c].roll
      BY <2>4, <3>1
    <3>3. next[c] = IF l.roll.active THEN RollAdvanced(l, q) ELSE l
      BY <2>3, <3>1
    <3>4. CASE l.roll.active
      BY <3>1, <3>2, <3>3, <3>4, RollStep
    <3>5. CASE ~l.roll.active
      BY <3>1, <3>2, <3>3, <3>5 DEF Steady
    <3> QED BY <3>4, <3>5
  <2> HIDE DEF slid_lane, next_lane, later
  <2>6. /\ Sliding(next) \subseteq Sliding(low)
        /\ Rolling(next) \subseteq Rolling(low)
    BY <2>5 DEF Sliding, Rolling
  <2>7. /\ CountDown(p.slides, Cardinality(Sliding(low) \ Sliding(next))) = Cardinality(Sliding(next))
        /\ CountDown(p.repeats, Cardinality(Rolling(low) \ Rolling(next))) = Cardinality(Rolling(next))
    <3>1. p.slides = Cardinality(Sliding(low)) /\ p.repeats = Cardinality(Rolling(low))
      BY <1>0, <1>3 DEF Accounted
    <3>2. IsFiniteSet(Sliding(low)) /\ IsFiniteSet(Rolling(low))
      BY FiniteLanes
    <3> QED BY <2>6, <3>1, <3>2, CountedDown
  <2>8. PICK r : r = Between(p)
    OBVIOUS
  <2>9. r = [q EXCEPT !.lane = next,
                      !.slides = CountDown(@, Cardinality(Sliding(low) \ Sliding(next))),
                      !.repeats = CountDown(@, Cardinality(Rolling(low) \ Rolling(next))),
                      !.clear_needed = \E c \in Lane : Due(slid[c].roll, q)]
    BY <1>1, <1>5, <2>1, <2>2, <2>3, <2>8
       DEF Between, lowered, later, slid_lane, next_lane
  <2>10. /\ q.stopped = p.stopped /\ q.slides = p.slides /\ q.repeats = p.repeats
         /\ q = [lane |-> q.lane, bank |-> q.bank, step |-> q.step, stopped |-> q.stopped,
                 duration |-> q.duration, elapsed |-> q.elapsed, prev_trigger |-> q.prev_trigger,
                 slides |-> q.slides, repeats |-> q.repeats, clear_needed |-> q.clear_needed]
    BY <1>0, <2>1 DEF IsPlayer, later
  <2>11. /\ r.lane = next /\ r.stopped = p.stopped
         /\ r.slides = Cardinality(Sliding(next))
         /\ r.repeats = Cardinality(Rolling(next))
         /\ r.clear_needed = (\E c \in Lane : Due(slid[c].roll, q))
         /\ r = [lane |-> r.lane, bank |-> r.bank, step |-> r.step, stopped |-> r.stopped,
                 duration |-> r.duration, elapsed |-> r.elapsed, prev_trigger |-> r.prev_trigger,
                 slides |-> r.slides, repeats |-> r.repeats, clear_needed |-> r.clear_needed]
    BY <2>7, <2>9, <2>10
  <2>12. next = [c \in Lane |-> next[c]]
    BY <2>3
  <2>13. IsPlayer(r)
    BY <2>5, <2>11, <2>12 DEF IsPlayer
  <2>14. Accounted(r)
    BY <2>5, <2>11 DEF Accounted
  <2> QED BY <2>8, <2>13, <2>14 DEF PlayerInv
<1> QED BY <1>4, <1>5

\* Whatever the clock bus says, and whatever the patterns are by now.
LEMMA TickStep ==
  ASSUME NEW player, NEW bus, NEW patterns, PlayerInv(player)
  PROVE  /\ PlayerInv(PlayerTick(player, bus, patterns))
         /\ PlayerInv([player EXCEPT !.prev_trigger = bus.trigger])
<1>1. PICK p : p = [player EXCEPT !.prev_trigger = bus.trigger]
  OBVIOUS
<1>2. /\ IsPlayer(p) /\ p.lane = player.lane /\ p.stopped = player.stopped
      /\ p.slides = player.slides /\ p.repeats = player.repeats
      /\ p.clear_needed = player.clear_needed
  BY <1>1 DEF PlayerInv, IsPlayer
<1>3. PlayerInv(p)
  BY <1>2 DEF PlayerInv, Accounted
<1>4. PlayerInv(Cleared(p))
  BY <1>2, ClearStep
<1>5. PlayerInv(OnRise(p, bus, patterns))
  BY <1>2, RiseStep
<1>6. ~p.stopped => PlayerInv(Between(p))
  BY <1>3, BetweenStep
<1> QED BY <1>1, <1>2, <1>3, <1>4, <1>5, <1>6 DEF PlayerTick

-----------------------------------------------------------------------------
(* The sequencer and its players.                                           *)

LEMMA InitPlayers == Init => SongInv
<1> SUFFICES ASSUME Init PROVE SongInv
  OBVIOUS
<1>1. PICK p : p = NewPlayer
  OBVIOUS
<1>2. PICK lane : lane = [c \in Lane |-> SilentLane]
  OBVIOUS
<1>3. IsPlayer(p) /\ p.lane = lane /\ p.slides = 0 /\ p.repeats = 0 /\ p.stopped = FALSE
  BY <1>1, <1>2, ConstantShapes DEF NewPlayer, IsPlayer
<1>4. Sliding(lane) = {} /\ Rolling(lane) = {}
  BY <1>2, ConstantShapes DEF Sliding, Rolling
<1>5. PlayerInv(p)
  BY <1>2, <1>3, <1>4, ConstantShapes, FS_EmptySet DEF PlayerInv, Accounted
<1>6. players = [c \in Chan |-> p] /\ left \in 0..Block
  BY <1>1, SequencerAssumption DEF Init
<1> QED BY <1>5, <1>6 DEF SongInv

LEMMA SampleStep ==
  ASSUME NEW input, Sample(input), SongInv
  PROVE  SongInv'
<1>1. left' \in 0..Block
  BY SequencerAssumption DEF Sample, SongInv
<1>2. PICK core : core = seq'
  OBVIOUS
<1>3. players' = [c \in Chan |-> PlayerProcess(players[c], BusOf(core, c))]
  BY <1>2 DEF Sample
<1>4. ASSUME NEW c \in Chan PROVE PlayerInv(PlayerProcess(players[c], BusOf(core, c)))
  <2>1. PICK player : player = players[c]
    OBVIOUS
  <2>2. PICK bus : bus = BusOf(core, c)
    OBVIOUS
  <2>3. PICK patterns : patterns = Patterns
    OBVIOUS
  <2>4. PlayerInv(player)
    BY <2>1 DEF SongInv
  <2> QED BY <2>1, <2>2, <2>3, <2>4, TickStep DEF PlayerProcess
<1>5. PICK next : next = players'
  OBVIOUS
<1>6. /\ next = [c \in Chan |-> next[c]]
      /\ \A c \in Chan : PlayerInv(next[c])
  BY <1>3, <1>4, <1>5
<1> QED BY <1>1, <1>5, <1>6 DEF SongInv

LEMMA SongStep == SongInv /\ [Next]_vars => SongInv'
<1> SUFFICES ASSUME SongInv, [Next]_vars PROVE SongInv'
  OBVIOUS
<1>1. CASE \E input \in Inputs \union {None} : Sample(input)
  BY <1>1, SampleStep
<1>2. CASE NextBlock
  BY <1>2, SequencerAssumption DEF NextBlock, SongInv
<1>3. CASE \E p \in DOMAIN Programs : Reload(p)
  BY <1>3 DEF Reload, SongInv
<1>4. CASE UNCHANGED vars
  BY <1>4 DEF vars, SongInv
<1> QED BY <1>1, <1>2, <1>3, <1>4 DEF Next

\* The invariant, for every song and every sequence of reloads.
THEOREM SongInvariant == Spec => []SongInv
<1>1. Init => SongInv
  BY InitPlayers
<1>2. SongInv /\ [Next]_vars => SongInv'
  BY SongStep
<1> QED BY <1>1, <1>2, PTL DEF Spec

\* A player skips a sample only if there is nothing to be done in it: whatever was
\* reloaded, cleared or entered in the middle of a step, the counters of slides, rolls
\* and triggers are what they stand for, and a player that was stopped is silent.
THEOREM PlayersAreAccounted == Spec => []PlayersAccounted
<1>1. SongInv => PlayersAccounted
  <2> SUFFICES ASSUME SongInv PROVE PlayersAccounted
    OBVIOUS
  <2>1. ASSUME NEW c \in Chan
        PROVE  /\ players[c].slides = Cardinality(Sliding(players[c].lane))
               /\ players[c].repeats = Cardinality(Rolling(players[c].lane))
               /\ \A lane \in Lanes(c) : lane.trigger => lane.gate /\ players[c].clear_needed
               /\ players[c].stopped => Silent(c)
    <3>1. IsPlayer(players[c]) /\ Accounted(players[c])
      BY DEF SongInv, PlayerInv
    <3>2. \A l \in Lane : players[c].lane[l].trigger => players[c].lane[l].gate
      BY <3>1, Zenon DEF IsPlayer, Steady
    <3> QED BY <3>1, <3>2 DEF Accounted, Lanes, Silent
  <2>2. left \in 0..Block
    BY DEF SongInv
  <2> QED BY <2>1, <2>2 DEF PlayersAccounted
<1> QED BY <1>1, SongInvariant, PTL

-----------------------------------------------------------------------------
(* The song.                                                                *)

LEMMA LeastNatural ==
  ASSUME NEW S \in SUBSET Nat, S # {}
  PROVE  \E x \in S : \A y \in S : x <= y
<1> DEFINE R == {ss \in Nat \X Nat : ss[1] < ss[2]}
<1>1. IsWellFoundedOn(R, Nat)
  BY NatLessThanWellFounded DEF OpToRel
<1>2. \A a, b \in Nat : a < b => <<a, b>> \in R
  OBVIOUS
<1> HIDE DEF R
<1>3. PICK x \in S : \A y \in S : <<y, x>> \notin R
  BY <1>1, WFMin
<1>4. ASSUME NEW y \in S PROVE x <= y
  <2>1. x \in Nat /\ y \in Nat
    OBVIOUS
  <2>2. ~(y < x)
    BY <1>2, <1>3, <2>1
  <2> QED BY <2>1, <2>2
<1> QED BY <1>4

\* The programs that parameters and tracker data come from
ProgramsOk == prog \in DOMAIN Programs /\ (held # NoData => held \in DOMAIN Programs)

\* What is assumed of programs, for the song that is played
LEMMA SongFacts ==
  ASSUME ProgramsOk, HasSong
  PROVE  /\ held \in DOMAIN Programs
         /\ Rows \in Nat \ {0}
         /\ Song.loop_point \in 0..(Rows - 1)
         /\ \A r \in 1..Rows : \A c \in DOMAIN Song.order[r] :
              c \in Nat /\ Song.order[r][c] \in Int /\ Song.order[r][c] >= Silence
<1>1. held # NoData
  BY DEF HasSong, Songs
<1>2. held \in DOMAIN Programs /\ Songs = Programs[held].songs
  BY <1>1 DEF ProgramsOk, Songs
<1>3. PICK program : program = Programs[held]
  OBVIOUS
<1>4. Song \in {program.songs[s] : s \in DOMAIN program.songs}
  BY <1>2, <1>3 DEF HasSong, Song
<1>5. PICK song : song = Song
  OBVIOUS
<1>6. /\ Len(song.order) \in Nat \ {0} /\ song.loop_point \in 0..(Len(song.order) - 1)
      /\ \A r \in 1..Len(song.order) : \A c \in DOMAIN song.order[r] :
           c \in Nat /\ song.order[r][c] \in Int /\ song.order[r][c] >= Silence
  BY <1>2, <1>3, <1>4, <1>5, ProgramAssumption
<1> QED BY <1>2, <1>5, <1>6 DEF Rows

LEMMA BankRange ==
  ASSUME ProgramsOk, HasSong, NEW row \in Nat, row < Rows, NEW c \in Chan
  PROVE  BankAt(row, c) \in Int /\ BankAt(row, c) >= Silence
<1>1. row + 1 \in 1..Rows
  BY SongFacts
<1> QED BY <1>1, SongFacts DEF BankAt, Silence

LEMMA RowsOfBarRange ==
  ASSUME ProgramsOk, HasSong, NEW bar \in Nat, NEW row \in RowsOfBar(bar)
  PROVE  row \in Nat /\ row < Rows
<1>1. PICK rows \in Nat \ {0} : rows = Rows
  BY SongFacts
<1>2. PICK point \in 0..(rows - 1) : point = Song.loop_point
  BY <1>1, SongFacts
<1>3. CASE bar < rows
  BY <1>1, <1>3 DEF RowsOfBar
<1>4. CASE ~(bar < rows)
  <2>1. row = point + ((bar - rows) % (rows - point))
    BY <1>1, <1>2, <1>4 DEF RowsOfBar
  <2>2. rows - point \in Nat \ {0} /\ bar - rows \in Nat
    BY <1>4
  <2>3. PICK n \in Nat \ {0} : n = rows - point
    BY <2>2
  <2>4. PICK k \in Nat : k = bar - rows
    BY <2>2
  <2>5. k % n \in 0..(n - 1)
    OBVIOUS
  <2> QED BY <1>1, <2>1, <2>3, <2>4, <2>5
<1> QED BY <1>3, <1>4

\* A row of the song has steps, and they divide the bar.
LEMMA RowLengths ==
  ASSUME ProgramsOk, HasSong, NEW row \in Nat, row < Rows
  PROVE  RowLength(row) \in Nat \ {0} /\ BarSamples % RowLength(row) = 0
<1>1. PICK order : order = Song.order[row + 1]
  OBVIOUS
<1>2. Rows \in Nat /\ row + 1 \in 1..Rows
  BY SongFacts
<1>3. DOMAIN order \subseteq Nat /\ held \in DOMAIN Programs
  BY <1>1, <1>2, SongFacts
<1> DEFINE playing == {c \in DOMAIN order : order[c] + 1 \in DOMAIN Patterns}
           leader  == CHOOSE c \in playing : \A d \in playing : c <= d
           pattern == Programs[held].patterns[order[leader] + 1]
<1>4. RowLength(row) = IF playing = {} THEN 1 ELSE Len(pattern[1])
  BY <1>1, <1>2 DEF RowLength
<1>5. CASE playing = {}
  BY <1>4, <1>5, SequencerAssumption
<1>6. CASE playing # {}
  <2>1. playing \in SUBSET Nat
    BY <1>3
  <2>2. \E c \in playing : \A d \in playing : c <= d
    <3> HIDE DEF playing
    <3> QED BY <1>6, <2>1, LeastNatural
  <2>3. leader \in playing
    <3> HIDE DEF playing
    <3> QED BY <2>2
  <2>4. PICK bank : bank = order[leader] + 1
    OBVIOUS
  <2>5. bank \in DOMAIN Patterns
    <3> HIDE DEF leader
    <3> QED BY <2>3, <2>4
  <2>6. DOMAIN Patterns = DOMAIN Programs[held].patterns
    BY <1>3 DEF Patterns, Built, HasSong, Songs
  <2>7. PICK program : program = Programs[held]
    OBVIOUS
  <2>8. PICK chosen : chosen = program.patterns[bank]
    OBVIOUS
  <2>9. chosen \in {program.patterns[b] : b \in DOMAIN program.patterns}
    BY <2>5, <2>6, <2>7, <2>8
  <2>10. Len(chosen[1]) \in Nat \ {0} /\ BarSamples % Len(chosen[1]) = 0
    BY <1>3, <2>7, <2>9, ProgramAssumption
  <2>11. pattern = chosen
    BY <2>4, <2>7, <2>8
  <2> HIDE DEF pattern, playing
  <2> QED BY <1>4, <1>6, <2>10, <2>11
<1> QED BY <1>5, <1>6

LEMMA StepOfPosition ==
  ASSUME NEW bar \in Nat \ {0}, NEW n \in Nat \ {0}, bar % n = 0, NEW pos \in Nat
  PROVE  /\ bar \div n \in Nat \ {0}
         /\ (pos % bar) \div (bar \div n) \in Nat
         /\ pos \div bar \in Nat
<1>1. PICK q : q = bar \div n
  OBVIOUS
<1>2. q \in Nat
  BY <1>1
<1>3. bar = n * q + (bar % n)
  BY <1>1
<1>4. q # 0
  BY <1>2, <1>3
<1>5. pos % bar \in Nat /\ pos \div bar \in Nat
  OBVIOUS
<1>6. \A a \in Nat : \A b \in Nat \ {0} : a \div b \in Nat
  OBVIOUS
<1> QED BY <1>1, <1>2, <1>4, <1>5, <1>6

-----------------------------------------------------------------------------
(* The core of the sequencer.                                               *)

IsCore(s) ==
  /\ s = [state |-> s.state, row |-> s.row, step |-> s.step, parity |-> s.parity,
          until |-> s.until, first |-> s.first, ended |-> s.ended, banks |-> s.banks,
          dirty |-> s.dirty, prev |-> s.prev, prev_host |-> s.prev_host, tick |-> s.tick,
          duration |-> s.duration, into |-> s.into]
  /\ s.row \in Nat /\ s.step \in Nat
  /\ s.first \in BOOLEAN /\ s.ended \in BOOLEAN /\ s.dirty \in BOOLEAN
  /\ s.tick \in {None, "first", "next", "end"}

\* Bank indices that are not out of date are those of the row, if the song has it.
Clean(s) ==
  s.dirty = FALSE /\ HasSong /\ s.row < Rows => \A c \in Chan : s.banks[c] = BankAt(s.row, c)

\* t can be out of date only where s was, or has said so.
Tracks(s, t) ==
  /\ IsCore(t) /\ t.banks = s.banks
  /\ t.dirty = FALSE => s.dirty = FALSE /\ t.row = s.row

LEMMA TracksClean ==
  ASSUME NEW s, NEW t, Tracks(s, t), Clean(s)
  PROVE  Clean(t)
BY DEF Tracks, Clean

LEMMA TracksTwice ==
  ASSUME NEW s, NEW t, NEW u, Tracks(s, t), Tracks(t, u)
  PROVE  Tracks(s, u)
BY DEF Tracks

\* The inputs leave the tick alone, and only a restart takes back the end of a song.
Edge(s, q) ==
  /\ Tracks(s, q) /\ q.tick = s.tick
  /\ s.ended => q.ended \/ q.first

LEMMA RewoundEdge ==
  ASSUME NEW s, IsCore(s), NEW state
  PROVE  Edge(s, [Rewound(s) EXCEPT !.state = state])
<1>1. PICK q : q = [s EXCEPT !.row = 0, !.step = 0, !.parity = 0, !.until = 0, !.first = TRUE,
                             !.ended = FALSE, !.dirty = TRUE]
  OBVIOUS
<1>2. PICK t : t = [q EXCEPT !.state = state]
  OBVIOUS
<1>3. IsCore(q) /\ q.banks = s.banks /\ q.tick = s.tick /\ q.dirty = TRUE /\ q.first = TRUE
  BY <1>1 DEF IsCore
<1>4. IsCore(t) /\ t.banks = s.banks /\ t.tick = s.tick /\ t.dirty = TRUE /\ t.first = TRUE
  BY <1>2, <1>3 DEF IsCore
<1> QED BY <1>1, <1>2, <1>4 DEF Edge, Tracks, Rewound

LEMMA EdgedEdge ==
  ASSUME NEW s, IsCore(s), NEW input
  PROVE  Edge(s, Edged(s, input))
<1>1. PICK q : q = [s EXCEPT !.prev = input]
  OBVIOUS
<1>2. /\ IsCore(q) /\ q.banks = s.banks /\ q.tick = s.tick /\ q.dirty = s.dirty
      /\ q.row = s.row /\ q.ended = s.ended
  BY <1>1 DEF IsCore
<1>3. Edge(s, q)
  BY <1>2 DEF Edge, Tracks
<1>4. \A t : Edge(q, t) => Edge(s, t)
  BY <1>2 DEF Edge, Tracks
<1>5. \A state : Edge(s, [Rewound(q) EXCEPT !.state = state])
  BY <1>2, <1>4, RewoundEdge
<1>6. ASSUME NEW state PROVE Edge(s, [q EXCEPT !.state = state])
  <2>1. PICK t : t = [q EXCEPT !.state = state]
    OBVIOUS
  <2>2. IsCore(t) /\ t.banks = q.banks /\ t.tick = q.tick /\ t.dirty = q.dirty
        /\ t.row = q.row /\ t.ended = q.ended
    BY <1>2, <2>1 DEF IsCore
  <2> QED BY <1>2, <2>1, <2>2 DEF Edge, Tracks
<1>7. /\ Edge(s, [Rewound(q) EXCEPT !.state = "Stopped"])
      /\ Edge(s, Started(q))
      /\ Edge(s, [q EXCEPT !.state = "Paused"])
      /\ Edge(s, [q EXCEPT !.state = "Playing"])
  BY <1>5, <1>6 DEF Started
<1> QED BY <1>1, <1>3, <1>7, Zenon DEF Edged

\* A first tick is at the row the sequencer was left at; every other tick finds a row of
\* the song, and only the end of the song sets it ended.
Counts(s, t) ==
  /\ Tracks(s, t)
  /\ s.first => t.tick = "first"
  /\ t.tick = "next" => t.row < Rows

LEMMA AdvancedCounts ==
  ASSUME NEW s, IsCore(s), s.first = FALSE, ProgramsOk, HasSong
  PROVE  Counts(s, Advanced(s))
<1> DEFINE moved == [s EXCEPT !.step = @ + 1, !.parity = 1 - @, !.tick = "next"]
           wrapped == [moved EXCEPT !.step = 0, !.row = @ + 1, !.dirty = TRUE]
<1>1. PICK m : m = moved
  OBVIOUS
<1>2. /\ IsCore(m) /\ m.banks = s.banks /\ m.tick = "next" /\ m.dirty = s.dirty
      /\ m.row = s.row /\ m.first = FALSE
  <2>1. PICK step \in Nat : step = s.step + 1
    BY DEF IsCore
  <2>2. PICK parity : parity = 1 - s.parity
    OBVIOUS
  <2>3. m = [s EXCEPT !.step = step, !.parity = parity, !.tick = "next"]
    BY <1>1, <2>1, <2>2 DEF IsCore
  <2> QED BY <2>3 DEF IsCore
<1>3. PICK w : w = wrapped
  OBVIOUS
<1>4. /\ IsCore(w) /\ w.banks = s.banks /\ w.tick = "next" /\ w.dirty = TRUE
      /\ w.row = s.row + 1
  <2>1. PICK row \in Nat : row = s.row + 1
    BY DEF IsCore
  <2>2. w = [m EXCEPT !.step = 0, !.row = row, !.dirty = TRUE]
    BY <1>1, <1>2, <1>3, <2>1 DEF IsCore
  <2>3. /\ IsCore(w) /\ w.banks = m.banks /\ w.tick = m.tick /\ w.dirty = TRUE
        /\ w.row = row
    BY <1>2, <2>2 DEF IsCore
  <2> QED BY <1>2, <2>1, <2>3
<1>5. s.row \in Nat /\ s.step \in Nat /\ Rows \in Nat
  BY SongFacts DEF IsCore
<1>6. s.step + 1 < RowLength(s.row) => Counts(s, moved)
  <2>1. ~(s.row < Rows) => RowLength(s.row) = 0
    <3>1. ~(s.row < Rows) => s.row >= Rows
      BY <1>5
    <3> QED BY <3>1, Zenon DEF RowLength
  <2>2. s.step + 1 < RowLength(s.row) => s.row < Rows
    BY <1>5, <2>1
  <2> QED BY <1>1, <1>2, <2>2 DEF Counts, Tracks
<1>7. s.row + 1 < Rows => Counts(s, wrapped)
  BY <1>3, <1>4 DEF Counts, Tracks
<1>8. Counts(s, [wrapped EXCEPT !.row = Song.loop_point])
  <2>1. PICK point \in 0..(Rows - 1) : point = Song.loop_point
    BY SongFacts
  <2>2. PICK t : t = [w EXCEPT !.row = point]
    OBVIOUS
  <2>3. IsCore(t) /\ t.banks = s.banks /\ t.tick = "next" /\ t.dirty = TRUE /\ t.row = point
    BY <1>4, <1>5, <2>2 DEF IsCore
  <2>4. Counts(s, t)
    BY <1>5, <2>3 DEF Counts, Tracks
  <2> QED BY <1>3, <2>1, <2>2, <2>4
<1>9. Counts(s, [wrapped EXCEPT !.ended = TRUE, !.tick = "end"])
  <2>1. PICK t : t = [w EXCEPT !.ended = TRUE, !.tick = "end"]
    OBVIOUS
  <2>2. IsCore(t) /\ t.banks = s.banks /\ t.tick = "end" /\ t.dirty = TRUE
    BY <1>4, <2>1 DEF IsCore
  <2>3. Counts(s, t)
    BY <2>2 DEF Counts, Tracks
  <2> QED BY <1>3, <2>1, <2>3
<1> QED BY <1>6, <1>7, <1>8, <1>9, Zenon DEF Advanced

LEMMA CountedCounts ==
  ASSUME NEW s, IsCore(s), s.tick = None, ProgramsOk, HasSong
  PROVE  Counts(s, Counted(s))
<1>1. s.first = TRUE => Counts(s, [s EXCEPT !.tick = "first", !.first = FALSE, !.until = 0])
  <2>1. PICK t : t = [s EXCEPT !.tick = "first", !.first = FALSE, !.until = 0]
    OBVIOUS
  <2>2. IsCore(t) /\ t.banks = s.banks /\ t.tick = "first" /\ t.dirty = s.dirty /\ t.row = s.row
    BY <2>1 DEF IsCore
  <2> QED BY <2>1, <2>2 DEF Counts, Tracks
<1>2. PICK t : t = [s EXCEPT !.until = @ - 1]
  OBVIOUS
<1>3. /\ IsCore(t) /\ t.banks = s.banks /\ t.tick = None /\ t.dirty = s.dirty
      /\ t.row = s.row /\ t.first = s.first
  BY <1>2 DEF IsCore
<1>4. s.first = FALSE => Counts(s, t)
  BY <1>3 DEF Counts, Tracks, None
<1>5. s.first = FALSE => Counts(s, Advanced(t))
  <2>1. PICK u : u = Advanced(t)
    OBVIOUS
  <2>2. s.first = FALSE => Counts(t, u)
    BY <1>3, <2>1, AdvancedCounts
  <2> QED BY <1>3, <2>1, <2>2 DEF Counts, Tracks
<1>6. s.first = TRUE \/ s.first = FALSE
  BY DEF IsCore
<1>7. s.first = TRUE => Counted(s) = [s EXCEPT !.tick = "first", !.first = FALSE, !.until = 0]
  BY Zenon DEF Counted
<1>8. s.first = FALSE => Counted(s) \in {t, Advanced(t)}
  BY <1>2, Zenon DEF Counted
<1>9. CASE s.first = TRUE
  BY <1>1, <1>7, <1>9
<1>10. CASE s.first = FALSE
  <2>1. CASE Counted(s) = t
    BY <1>4, <1>10, <2>1
  <2>2. CASE Counted(s) = Advanced(t)
    BY <1>5, <1>10, <2>2
  <2> QED BY <1>8, <1>10, <2>1, <2>2
<1> QED BY <1>6, <1>9, <1>10

LEMMA TimedTracks ==
  ASSUME NEW s, IsCore(s)
  PROVE  /\ Tracks(s, Timed(s))
         /\ Timed(s).tick = s.tick /\ Timed(s).row = s.row
<1>1. PICK length : length = TickLength(s.parity)
  OBVIOUS
<1>2. PICK t : t = Timed(s)
  OBVIOUS
<1>3. t = s \/ t = [s EXCEPT !.until = @ + length, !.duration = length]
  BY <1>1, <1>2 DEF Timed
<1>4. /\ IsCore(t) /\ t.banks = s.banks /\ t.dirty = s.dirty
      /\ t.row = s.row /\ t.tick = s.tick
  BY <1>3 DEF IsCore
<1> QED BY <1>2, <1>4 DEF Tracks

LEMMA FilledClean ==
  ASSUME NEW s, IsCore(s), Clean(s)
  PROVE  /\ IsCore(Filled(s)) /\ Clean(Filled(s)) /\ Filled(s).dirty = FALSE
         /\ Filled(s).tick = s.tick /\ Filled(s).row = s.row
<1>1. PICK fresh : fresh = IF s.dirty /\ s.row < Rows
                           THEN [c \in Chan |-> BankAt(s.row, c)] ELSE s.banks
  OBVIOUS
<1>2. PICK t : t = Filled(s)
  OBVIOUS
<1>3. t = [s EXCEPT !.dirty = FALSE, !.banks = fresh]
  BY <1>1, <1>2 DEF Filled, IsCore
<1>4. /\ IsCore(t) /\ t.banks = fresh /\ t.dirty = FALSE
      /\ t.row = s.row /\ t.tick = s.tick
  BY <1>3 DEF IsCore
<1>5. Clean(t)
  <2>1. CASE s.dirty = TRUE
    BY <1>1, <1>4, <2>1 DEF Clean
  <2>2. CASE s.dirty = FALSE
    BY <1>1, <1>4, <2>2 DEF Clean
  <2> QED BY <2>1, <2>2 DEF IsCore
<1> QED BY <1>2, <1>4, <1>5

LEMMA HostEdgedEdge ==
  ASSUME NEW s, IsCore(s)
  PROVE  Edge(s, HostEdged(s))
<1>1. PICK playing : playing = transport.playing
  OBVIOUS
<1>2. PICK q : q = [s EXCEPT !.prev_host = playing]
  OBVIOUS
<1>3. /\ IsCore(q) /\ q.banks = s.banks /\ q.tick = s.tick /\ q.dirty = s.dirty
      /\ q.row = s.row /\ q.ended = s.ended
  BY <1>2 DEF IsCore
<1>4. Edge(s, q)
  BY <1>3 DEF Edge, Tracks
<1>5. Edge(s, [q EXCEPT !.state = "Playing", !.first = TRUE, !.ended = FALSE, !.dirty = TRUE])
  <2>1. PICK t : t = [q EXCEPT !.state = "Playing", !.first = TRUE, !.ended = FALSE, !.dirty = TRUE]
    OBVIOUS
  <2>2. IsCore(t) /\ t.banks = q.banks /\ t.tick = q.tick /\ t.dirty = TRUE /\ t.first = TRUE
    BY <1>3, <2>1 DEF IsCore
  <2> QED BY <1>3, <2>1, <2>2 DEF Edge, Tracks
<1>6. Edge(s, [q EXCEPT !.state = "Paused"])
  <2>1. PICK t : t = [q EXCEPT !.state = "Paused"]
    OBVIOUS
  <2>2. IsCore(t) /\ t.banks = q.banks /\ t.tick = q.tick /\ t.dirty = q.dirty
        /\ t.row = q.row /\ t.ended = q.ended
    BY <1>3, <2>1 DEF IsCore
  <2> QED BY <1>3, <2>1, <2>2 DEF Edge, Tracks
<1> QED BY <1>1, <1>2, <1>4, <1>5, <1>6, Zenon DEF HostEdged

\* The host puts the sequencer on a row of the song and a step of that row.
LEMMA PlacedCounts ==
  ASSUME NEW s, IsCore(s), s.tick = None, ProgramsOk, HasSong, transport.pos \in Nat,
         NEW row \in Nat, row < Rows
  PROVE  Counts(s, Placed(s, row))
<1>1. PICK n \in Nat \ {0} : n = RowLength(row) /\ BarSamples % n = 0
  BY RowLengths
<1> DEFINE length == BarSamples \div n
           step_at == (transport.pos % BarSamples) \div length
           ticks == CASE s.first -> "first"
                      [] ~s.first /\ <<row, step_at>> # <<s.row, s.step>> -> "next"
                      [] OTHER -> None
<1>2. PICK step \in Nat : step = step_at
  <2>1. PICK pos \in Nat : pos = transport.pos
    OBVIOUS
  <2>2. (pos % BarSamples) \div (BarSamples \div n) \in Nat
    BY <1>1, SequencerAssumption, StepOfPosition
  <2> QED BY <2>1, <2>2
<1>3. PICK into : into = (transport.pos % BarSamples) % length
  OBVIOUS
<1>4. PICK duration : duration = IF hosted THEN length ELSE BaseTick
  OBVIOUS
<1>5. PICK dirty \in BOOLEAN : dirty = (s.dirty \/ s.first \/ row # s.row)
  BY DEF IsCore
<1>6. PICK tick : tick = ticks
  OBVIOUS
<1>7. /\ s.first => tick = "first"
      /\ tick \in {None, "first", "next"}
  <2> HIDE DEF step_at
  <2>1. tick = "first" \/ tick = "next" \/ tick = None
    BY <1>6, Zenon
  <2>2. s.first => tick = "first"
    BY <1>6, Zenon
  <2> QED BY <2>1, <2>2
<1>8. PICK t : t = Placed(s, row)
  OBVIOUS
<1>9. t = [s EXCEPT !.row = row, !.step = step, !.first = FALSE, !.into = into,
                    !.duration = duration, !.dirty = dirty, !.tick = tick]
  <2>1. s.dirty \in BOOLEAN
    BY DEF IsCore
  <2>2. t = [s EXCEPT !.row = row, !.step = step_at, !.first = FALSE,
                      !.into = (transport.pos % BarSamples) % length,
                      !.duration = IF hosted THEN length ELSE BaseTick,
                      !.dirty = @ \/ s.first \/ row # s.row, !.tick = ticks]
    BY <1>1, <1>8, Zenon DEF Placed
  <2> HIDE DEF step_at, length, ticks
  <2> QED BY <1>2, <1>3, <1>4, <1>5, <1>6, <2>1, <2>2 DEF IsCore
<1>10. /\ IsCore(t) /\ t.banks = s.banks /\ t.tick = tick /\ t.dirty = dirty /\ t.row = row
  <2> HIDE DEF step_at, length, ticks
  <2>1. tick \in {None, "first", "next", "end"}
    BY <1>7
  <2> QED BY <1>9, <2>1 DEF IsCore
<1> HIDE DEF step_at, length, ticks
<1>11. t.dirty = FALSE => s.dirty = FALSE /\ t.row = s.row
  BY <1>5, <1>10 DEF IsCore
<1> QED BY <1>7, <1>8, <1>10, <1>11 DEF Counts, Tracks

\* What a sample makes of the core.  A song that has ended goes on only from a first tick.
Ticked(s, t) ==
  /\ IsCore(t) /\ Clean(t)
  /\ t.tick # None => HasSong
  /\ t.tick \in {"first", "next"} => t.dirty = FALSE
  /\ t.tick = "next" => t.row < Rows
  /\ s.ended => t.tick # "next"

LEMMA CoreTicked ==
  ASSUME IsCore(seq), Clean(seq), ProgramsOk, transport.pos \in Nat,
         NEW input, CoreTick(input), NEW core, core = seq'
  PROVE  Ticked(seq, core)
<1>1. PICK base : base = BaseTick
  OBVIOUS
<1>2. PICK z : z = [seq EXCEPT !.tick = None, !.duration = base, !.into = 0]
  OBVIOUS
<1>3. /\ IsCore(z) /\ z.banks = seq.banks /\ z.tick = None /\ z.dirty = seq.dirty
      /\ z.row = seq.row /\ z.ended = seq.ended
  BY <1>2 DEF IsCore
<1>4. Tracks(seq, z)
  BY <1>3 DEF Tracks
<1>5. ASSUME NEW s, Edge(z, s), core = s
      PROVE  Ticked(seq, core)
  <2>1. Tracks(seq, s)
    BY <1>4, <1>5, TracksTwice DEF Edge
  <2>2. Clean(s)
    BY <2>1, TracksClean
  <2> QED BY <1>3, <1>5, <2>1, <2>2 DEF Ticked, Edge, Tracks, None
<1>6. ASSUME NEW s, Edge(z, s), ~Idle(s), NEW t, Counts(s, t), core = Filled(t)
      PROVE  Ticked(seq, core)
  <2>1. Tracks(seq, t)
    BY <1>4, <1>6, TracksTwice DEF Edge, Counts
  <2>2. IsCore(t) /\ Clean(t)
    BY <2>1, TracksClean DEF Tracks
  <2>3. /\ IsCore(core) /\ Clean(core) /\ core.dirty = FALSE
        /\ core.tick = t.tick /\ core.row = t.row
    BY <1>6, <2>2, FilledClean
  <2>4. HasSong /\ ~s.ended
    BY <1>6 DEF Idle
  <2>5. seq.ended => s.first
    BY <1>3, <1>6, <2>4 DEF Edge
  <2> QED BY <1>6, <2>3, <2>4, <2>5 DEF Ticked, Counts
<1>7. CASE held = NoData /\ seq' = [seq EXCEPT !.tick = None]
  <2>1. /\ IsCore(core) /\ core.banks = seq.banks /\ core.tick = None /\ core.dirty = seq.dirty
        /\ core.row = seq.row
    BY <1>7 DEF IsCore
  <2>2. Clean(core)
    BY <2>1, TracksClean DEF Tracks
  <2> QED BY <2>1, <2>2 DEF Ticked, None
<1>8. CASE HostTick
  <2>1. PICK s : /\ s = HostEdged(z)
                 /\ \/ Idle(s) /\ seq' = s
                    \/ /\ ~Idle(s) /\ RowsOfBar(transport.pos \div BarSamples) = {}
                       /\ seq' = Filled([s EXCEPT !.ended = TRUE, !.tick = "end", !.dirty = TRUE])
                    \/ ~Idle(s) /\ \E row \in RowsOfBar(transport.pos \div BarSamples) :
                                     seq' = Filled(Placed(s, row))
    BY <1>1, <1>2, <1>8 DEF HostTick
  <2>2. Edge(z, s)
    BY <1>3, <2>1, HostEdgedEdge
  <2>3. IsCore(s) /\ s.tick = None
    BY <1>3, <2>2 DEF Edge, Tracks
  <2>4. CASE Idle(s) /\ seq' = s
    BY <1>5, <2>2, <2>4
  <2>5. CASE ~Idle(s) /\ seq' = Filled([s EXCEPT !.ended = TRUE, !.tick = "end", !.dirty = TRUE])
    <3>1. PICK t : t = [s EXCEPT !.ended = TRUE, !.tick = "end", !.dirty = TRUE]
      OBVIOUS
    <3>2. IsCore(t) /\ t.tick = "end" /\ t.dirty = TRUE
      BY <2>3, <3>1 DEF IsCore
    <3>3. Clean(t)
      BY <3>2 DEF Clean
    <3>4. /\ IsCore(core) /\ Clean(core) /\ core.tick = "end"
      BY <2>5, <3>1, <3>2, <3>3, FilledClean
    <3>5. HasSong
      BY <2>5 DEF Idle
    <3> QED BY <3>4, <3>5 DEF Ticked
  <2>6. CASE ~Idle(s) /\ \E row \in RowsOfBar(transport.pos \div BarSamples) :
                           seq' = Filled(Placed(s, row))
    <3>1. PICK row \in RowsOfBar(transport.pos \div BarSamples) : seq' = Filled(Placed(s, row))
      BY <2>6
    <3>2. HasSong
      BY <2>6 DEF Idle
    <3>3. PICK bar \in Nat : bar = transport.pos \div BarSamples
      BY SequencerAssumption
    <3>4. row \in Nat /\ row < Rows
      BY <3>1, <3>2, <3>3, RowsOfBarRange
    <3>5. PICK t : t = Placed(s, row)
      OBVIOUS
    <3>6. Counts(s, t)
      BY <2>3, <3>2, <3>4, <3>5, PlacedCounts
    <3> QED BY <1>6, <2>2, <2>6, <3>1, <3>5, <3>6
  <2> QED BY <2>1, <2>4, <2>5, <2>6
<1>9. CASE FreeTick(input)
  <2>1. PICK s : /\ s = Edged(z, input)
                 /\ \/ Idle(s) /\ seq' = s
                    \/ ~Idle(s) /\ \E t \in {Counted(s)} : seq' = Filled(Timed(t))
    BY <1>1, <1>2, <1>9 DEF FreeTick
  <2>2. Edge(z, s)
    BY <1>3, <2>1, EdgedEdge
  <2>3. IsCore(s) /\ s.tick = None
    BY <1>3, <2>2 DEF Edge, Tracks
  <2>4. CASE Idle(s) /\ seq' = s
    BY <1>5, <2>2, <2>4
  <2>5. CASE ~Idle(s) /\ \E t \in {Counted(s)} : seq' = Filled(Timed(t))
    <3>1. PICK t : t = Counted(s) /\ seq' = Filled(Timed(t))
      BY <2>5
    <3>2. HasSong
      BY <2>5 DEF Idle
    <3>3. Counts(s, t)
      BY <2>3, <3>1, <3>2, CountedCounts
    <3>4. PICK u : u = Timed(t)
      OBVIOUS
    <3>5. Tracks(t, u) /\ u.tick = t.tick /\ u.row = t.row
      BY <3>3, <3>4, TimedTracks DEF Counts, Tracks
    <3>6. Counts(s, u)
      BY <3>3, <3>5, TracksTwice DEF Counts
    <3> QED BY <1>6, <2>2, <2>5, <3>1, <3>4, <3>6
  <2> QED BY <2>1, <2>4, <2>5
<1> QED BY <1>7, <1>8, <1>9 DEF CoreTick

-----------------------------------------------------------------------------
(* The players on the clock bus.                                            *)

\* A player is stopped by the bus, put on a step, or let be.
Outcome(player, bus, t) ==
  /\ t.prev_trigger = bus.trigger
  /\ Rises(player, bus) /\ bus.bank < 0 => t.stopped = TRUE
  /\ Rises(player, bus) /\ ~(bus.bank < 0) =>
       t.stopped = FALSE /\ t.bank = bus.bank /\ t.step = bus.step
  /\ ~Rises(player, bus) => t.stopped = player.stopped

LEMMA TickFollows ==
  ASSUME NEW player, NEW bus, NEW patterns, PlayerInv(player)
  PROVE  Outcome(player, bus, PlayerTick(player, bus, patterns))
<1>1. PICK p : p = [player EXCEPT !.prev_trigger = bus.trigger]
  OBVIOUS
<1>2. IsPlayer(p) /\ p.prev_trigger = bus.trigger /\ p.stopped = player.stopped
  BY <1>1 DEF PlayerInv, IsPlayer
<1>3. Cleared(p).prev_trigger = p.prev_trigger /\ Cleared(p).stopped = TRUE
  <2>1. PICK lane : lane = [c \in Lane |-> SilentLane]
    OBVIOUS
  <2>2. Cleared(p) = [p EXCEPT !.lane = lane, !.stopped = TRUE, !.slides = 0, !.repeats = 0,
                               !.clear_needed = FALSE, !.elapsed = 0]
    BY <2>1 DEF Cleared
  <2>3. PICK q : q = Cleared(p)
    OBVIOUS
  <2>4. q.prev_trigger = p.prev_trigger /\ q.stopped = TRUE
    BY <1>2, <2>2, <2>3 DEF IsPlayer
  <2> QED BY <2>3, <2>4
<1>4. PICK q : q = [p EXCEPT !.stopped = FALSE, !.bank = bus.bank, !.step = bus.step,
                             !.duration = bus.duration, !.elapsed = bus.into]
  OBVIOUS
<1>5. /\ IsPlayer(q) /\ q.prev_trigger = p.prev_trigger /\ q.stopped = FALSE
      /\ q.bank = bus.bank /\ q.step = bus.step
  BY <1>2, <1>4 DEF IsPlayer
<1>6. PICK r : r = OnRise(p, bus, patterns)
  OBVIOUS
<1>7. /\ r.prev_trigger = p.prev_trigger /\ r.stopped = FALSE
      /\ r.bank = bus.bank /\ r.step = bus.step
  <2>1. PICK lanes : lanes = Stepped(q, patterns)
    OBVIOUS
  <2>2. r = [q EXCEPT !.lane = lanes,
                      !.slides = Cardinality(Sliding(lanes)),
                      !.repeats = Cardinality(Rolling(lanes)),
                      !.clear_needed = \E c \in Lane : lanes[c].trigger]
    BY <1>4, <1>6, <2>1 DEF OnRise
  <2> QED BY <1>5, <2>2 DEF IsPlayer
<1>8. PICK b : b = Between(p)
  OBVIOUS
<1>9. b.prev_trigger = p.prev_trigger /\ b.stopped = p.stopped
  <2> DEFINE same(x) == x.prev_trigger = p.prev_trigger /\ x.stopped = p.stopped
  <2>1. \A lane, cleared : same([p EXCEPT !.lane = lane, !.clear_needed = cleared])
    BY <1>2 DEF IsPlayer
  <2>2. PICK low : low = IF p.clear_needed
                         THEN [c \in Lane |-> [p.lane[c] EXCEPT !.trigger = FALSE]]
                         ELSE p.lane
    OBVIOUS
  <2>3. PICK late : late = [p EXCEPT !.lane = low, !.clear_needed = FALSE, !.elapsed = Later(@, p)]
    OBVIOUS
  <2>4. PICK slid : slid = [c \in Lane |-> IF low[c].slide.active
                                           THEN SlideAdvanced(low[c]) ELSE low[c]]
    OBVIOUS
  <2>5. PICK lane : lane = [c \in Lane |-> IF slid[c].roll.active
                                           THEN RollAdvanced(slid[c], late) ELSE slid[c]]
    OBVIOUS
  <2>6. b = IF p.slides = 0 /\ p.repeats = 0
            THEN [p EXCEPT !.lane = low, !.clear_needed = FALSE]
            ELSE [late EXCEPT !.lane = lane,
                              !.slides = CountDown(@, Cardinality(Sliding(low) \ Sliding(lane))),
                              !.repeats = CountDown(@, Cardinality(Rolling(low) \ Rolling(lane))),
                              !.clear_needed = \E c \in Lane : Due(slid[c].roll, late)]
    BY <1>8, <2>2, <2>3, <2>4, <2>5 DEF Between
  <2>7. CASE p.slides = 0 /\ p.repeats = 0
    BY <2>1, <2>6, <2>7
  <2>8. CASE ~(p.slides = 0 /\ p.repeats = 0)
    <3>1. late.prev_trigger = p.prev_trigger /\ late.stopped = p.stopped
      BY <1>2, <2>3 DEF IsPlayer
    <3>2. b = [late EXCEPT !.lane = lane,
                           !.slides = CountDown(@, Cardinality(Sliding(low) \ Sliding(lane))),
                           !.repeats = CountDown(@, Cardinality(Rolling(low) \ Rolling(lane))),
                           !.clear_needed = \E c \in Lane : Due(slid[c].roll, late)]
      BY <2>6, <2>8
    <3>3. late = [lane |-> late.lane, bank |-> late.bank, step |-> late.step,
                  stopped |-> late.stopped, duration |-> late.duration,
                  elapsed |-> late.elapsed, prev_trigger |-> late.prev_trigger,
                  slides |-> late.slides, repeats |-> late.repeats,
                  clear_needed |-> late.clear_needed]
      BY <1>2, <2>3 DEF IsPlayer
    <3>4. b.prev_trigger = late.prev_trigger /\ b.stopped = late.stopped
      BY <3>2, <3>3
    <3> QED BY <3>1, <3>4
  <2> QED BY <2>7, <2>8
<1>10. PlayerTick(player, bus, patterns)
         = IF Rises(player, bus)
           THEN IF bus.bank < 0 THEN Cleared(p) ELSE r
           ELSE IF player.stopped THEN p ELSE b
  BY <1>1, <1>6, <1>8 DEF PlayerTick
<1> QED BY <1>2, <1>3, <1>7, <1>9, <1>10 DEF Outcome

\* The sequencer is clean, and every player has seen the tick that is on the bus.
FollowInv ==
  /\ IsCore(seq) /\ Clean(seq) /\ ProgramsOk
  /\ transport = [playing |-> transport.playing, pos |-> transport.pos]
  /\ transport.pos \in Nat
  /\ \A c \in Chan : players[c].prev_trigger <=> seq.tick # None

\* What a sample does to the player of a channel, whether or not there is tracker data
LEMMA PlayerFollows ==
  ASSUME SongInv, FollowInv, NEW input, Sample(input), NEW c \in Chan,
         NEW core, core = seq'
  PROVE  /\ players'[c].prev_trigger <=> core.tick # None
         /\ seq.tick = None /\ core.tick = "end" => players'[c].stopped
         /\ seq.tick = None /\ core.tick \in {"first", "next"} =>
              IF core.banks[c] < 0 THEN players'[c].stopped
              ELSE /\ ~players'[c].stopped
                   /\ players'[c].bank = core.banks[c] /\ players'[c].step = core.step
         /\ core.tick \in {None, "end"} /\ players[c].stopped => players'[c].stopped
<1>1. CoreTick(input) /\ Ticked(seq, core)
  BY CoreTicked DEF Sample, FollowInv
<1>2. PICK player : player = players[c]
  OBVIOUS
<1>3. PlayerInv(player) /\ (player.prev_trigger <=> seq.tick # None)
  BY <1>2 DEF SongInv, FollowInv
<1>4. PICK bus : bus = BusOf(core, c)
  OBVIOUS
<1>5. /\ bus.trigger <=> core.tick # None
      /\ bus.bank = IF core.tick = "end" THEN Silence ELSE core.banks[c]
      /\ core.tick # "end" => bus.step = core.step
  BY <1>4 DEF BusOf, Bus, None
<1>6. PICK next : next = players'[c]
  OBVIOUS
<1>7. next = PlayerProcess(player, bus)
  BY <1>2, <1>4, <1>6 DEF Sample
<1>8. core.tick \in {None, "first", "next", "end"}
  BY <1>1 DEF Ticked, IsCore
<1>9. CASE held = NoData
  <2>1. core.tick = None
    <3>1. ~HasSong
      BY <1>9 DEF HasSong, Songs
    <3> QED BY <1>1, <3>1 DEF Ticked
  <2>2. next = [player EXCEPT !.prev_trigger = bus.trigger]
    BY <1>7, <1>9 DEF PlayerProcess
  <2>3. next.prev_trigger = bus.trigger /\ next.stopped = player.stopped
    BY <1>3, <2>2 DEF PlayerInv, IsPlayer
  <2> QED BY <1>2, <1>5, <1>6, <2>1, <2>3 DEF None
<1>10. CASE held # NoData
  <2>1. PICK patterns : patterns = Patterns
    OBVIOUS
  <2>2. next = PlayerTick(player, bus, patterns)
    BY <1>7, <1>10, <2>1 DEF PlayerProcess
  <2>3. Outcome(player, bus, next)
    BY <1>3, <2>2, TickFollows
  <2>4. seq.tick = None => (Rises(player, bus) <=> core.tick # None)
    BY <1>3, <1>5 DEF Rises
  <2>5. next.prev_trigger <=> core.tick # None
    BY <1>5, <2>3 DEF Outcome
  <2>6. seq.tick = None /\ core.tick = "end" => next.stopped
    BY <1>5, <2>3, <2>4 DEF Outcome, Silence, None
  <2>7. seq.tick = None /\ core.tick \in {"first", "next"} =>
          IF core.banks[c] < 0 THEN next.stopped
          ELSE ~next.stopped /\ next.bank = core.banks[c] /\ next.step = core.step
    BY <1>5, <2>3, <2>4 DEF Outcome, None
  <2>8. core.tick \in {None, "end"} /\ player.stopped => next.stopped
    <3>1. CASE core.tick = None
      BY <1>5, <2>3, <3>1 DEF Rises, Outcome
    <3>2. CASE core.tick = "end"
      <4>1. bus.bank < 0
        BY <1>5, <3>2 DEF Silence
      <4> QED BY <2>3, <4>1, Zenon DEF Outcome
    <3> QED BY <3>1, <3>2
  <2> QED BY <1>2, <1>6, <2>5, <2>6, <2>7, <2>8
<1> QED BY <1>9, <1>10

-----------------------------------------------------------------------------
(* Reloads, and the invariant.                                              *)

LEMMA ParamsCore ==
  ASSUME NEW s, IsCore(s), NEW p, NEW synchronized
  PROVE  /\ IsCore(WithParams(s, p, synchronized))
         /\ WithParams(s, p, synchronized).dirty = TRUE
         /\ WithParams(s, p, synchronized).tick = s.tick
<1>1. PICK q : q = [s EXCEPT !.dirty = TRUE]
  OBVIOUS
<1>2. IsCore(q) /\ q.dirty = TRUE /\ q.tick = s.tick
  BY <1>1 DEF IsCore
<1>3. PICK t : t = [q EXCEPT !.row = 0, !.step = 0, !.parity = 0, !.until = 0, !.first = TRUE,
                             !.ended = FALSE, !.dirty = TRUE]
  OBVIOUS
<1>4. IsCore(t) /\ t.dirty = TRUE /\ t.tick = s.tick
  BY <1>2, <1>3 DEF IsCore
<1>5. PICK u : u = [t EXCEPT !.state = "Playing"]
  OBVIOUS
<1>6. IsCore(u) /\ u.dirty = TRUE /\ u.tick = s.tick
  BY <1>4, <1>5 DEF IsCore
<1>7. Started(q) = u
  BY <1>3, <1>5 DEF Started, Rewound
<1>8. WithParams(s, p, synchronized) \in {q, u}
  BY <1>1, <1>7 DEF WithParams
<1> QED BY <1>2, <1>6, <1>8

LEMMA DataCore ==
  ASSUME NEW s, IsCore(s), NEW p
  PROVE  /\ IsCore(WithData(s, p)) /\ WithData(s, p).tick = s.tick
         /\ HasData(p) => WithData(s, p).dirty = TRUE
         /\ ~HasData(p) => WithData(s, p) = s
         /\ s.dirty = TRUE => WithData(s, p).dirty = TRUE
<1>1. PICK t : t = [s EXCEPT !.dirty = TRUE]
  OBVIOUS
<1>2. IsCore(t) /\ t.dirty = TRUE /\ t.tick = s.tick
  BY <1>1 DEF IsCore
<1> QED BY <1>1, <1>2 DEF WithData

LEMMA InitFollows == Init => FollowInv
<1> SUFFICES ASSUME Init PROVE FollowInv
  OBVIOUS
<1>1. PICK banks : banks = [c \in Chan |-> 0]
  OBVIOUS
<1>2. PICK s : s = NewCore
  OBVIOUS
<1>3. s = [state |-> "Stopped", row |-> 0, step |-> 0, parity |-> 0, until |-> 0,
           first |-> TRUE, ended |-> FALSE, banks |-> banks, dirty |-> TRUE, prev |-> None,
           prev_host |-> FALSE, tick |-> None, duration |-> 0, into |-> 0]
  BY <1>1, <1>2 DEF NewCore
<1>4. IsCore(s) /\ s.tick = None
  BY <1>3 DEF IsCore
<1>5. PICK t : t = WithParams(s, prog, hosted)
  OBVIOUS
<1>6. IsCore(t) /\ t.dirty = TRUE /\ t.tick = None
  BY <1>4, <1>5, ParamsCore
<1>7. seq = WithData(t, prog)
  BY <1>2, <1>5 DEF Init
<1>8. IsCore(seq) /\ seq.dirty = TRUE /\ seq.tick = None
  BY <1>6, <1>7, DataCore
<1>9. Clean(seq)
  BY <1>8 DEF Clean
<1>10. ProgramsOk
  BY DEF Init, ProgramsOk
<1>11. transport = [playing |-> FALSE, pos |-> 0]
  BY DEF Init
<1>12. \A c \in Chan : ~players[c].prev_trigger
  BY DEF Init, NewPlayer
<1> QED BY <1>8, <1>9, <1>10, <1>11, <1>12 DEF FollowInv

LEMMA SampleFollows ==
  ASSUME SongInv, FollowInv, NEW input, Sample(input)
  PROVE  FollowInv' /\ \A c \in Chan : FollowsSong(c)
<1>1. PICK core : core = seq'
  OBVIOUS
<1>2. Ticked(seq, core)
  BY <1>1, CoreTicked DEF Sample, FollowInv
<1>3. ASSUME NEW c \in Chan
      PROVE  /\ players'[c].prev_trigger <=> core.tick # None
             /\ seq.tick = None /\ core.tick = "end" => players'[c].stopped
             /\ seq.tick = None /\ core.tick \in {"first", "next"} =>
                  IF core.banks[c] < 0 THEN players'[c].stopped
                  ELSE /\ ~players'[c].stopped
                       /\ players'[c].bank = core.banks[c] /\ players'[c].step = core.step
             /\ core.tick \in {None, "end"} /\ players[c].stopped => players'[c].stopped
  BY <1>1, PlayerFollows
<1>4. prog' = prog /\ held' = held /\ transport' = transport
  BY DEF Sample
<1>5. FollowInv'
  <2>1. IsCore(core) /\ Clean(core)
    BY <1>2 DEF Ticked
  <2>2. Clean(core)'
    BY <1>4, <2>1 DEF Clean, HasSong, Params, Songs, Song, Rows, BankAt
  <2>3. IsCore(seq)' /\ Clean(seq)'
    BY <1>1, <2>1, <2>2 DEF IsCore, Clean
  <2>4. ProgramsOk'
    BY <1>4 DEF FollowInv, ProgramsOk
  <2>5. /\ transport' = [playing |-> transport'.playing, pos |-> transport'.pos]
        /\ transport'.pos \in Nat
    BY <1>4 DEF FollowInv
  <2>6. \A c \in Chan : players'[c].prev_trigger <=> seq'.tick # None
    BY <1>1, <1>3
  <2> QED BY <2>3, <2>4, <2>5, <2>6 DEF FollowInv
<1>6. ASSUME NEW c \in Chan PROVE FollowsSong(c)
  <2>1. core.tick \in {None, "first", "next", "end"} /\ core.row \in Nat
    BY <1>2 DEF Ticked, IsCore
  <2>2. ASSUME seq.tick = None, core.tick # None, core.tick = "first" => core.row < Rows
        PROVE  Follows(c)
    <3>1. CASE core.tick = "end"
      BY <1>1, <1>3, <2>2, <3>1 DEF Follows
    <3>2. CASE core.tick # "end"
      <4>1. core.tick \in {"first", "next"} /\ core.row < Rows /\ HasSong /\ core.dirty = FALSE
        BY <1>2, <2>1, <2>2, <3>2 DEF Ticked
      <4>2. PICK bank : bank = BankAt(core.row, c)
        OBVIOUS
      <4>3. core.banks[c] = bank
        BY <1>2, <4>1, <4>2 DEF Ticked, Clean
      <4>4. bank \in Int /\ bank >= Silence
        BY <2>1, <4>1, <4>2, BankRange DEF FollowInv
      <4>5. bank < 0 <=> bank = Silence
        BY <4>4 DEF Silence
      <4>6. IF bank < 0 THEN players'[c].stopped
            ELSE ~players'[c].stopped /\ players'[c].bank = bank /\ players'[c].step = core.step
        BY <1>3, <2>2, <4>1, <4>3
      <4> QED BY <1>1, <3>2, <4>2, <4>5, <4>6 DEF Follows
    <3> QED BY <3>1, <3>2
  <2>3. seq.ended /\ players[c].stopped /\ core.tick # "first" => players'[c].stopped
    BY <1>2, <1>3, <2>1 DEF Ticked
  <2> QED BY <1>1, <2>2, <2>3 DEF FollowsSong
<1> QED BY <1>5, <1>6

LEMMA NextBlockFollows ==
  ASSUME SongInv, FollowInv, NextBlock
  PROVE  FollowInv' /\ \A c \in Chan : FollowsSong(c)
<1>1. seq' = seq /\ players' = players /\ prog' = prog /\ held' = held
  BY DEF NextBlock
<1>2. PICK t : t = transport'
  OBVIOUS
<1>3. t = [playing |-> t.playing, pos |-> t.pos] /\ t.pos \in Nat
  <2>1. CASE t = transport
    BY <2>1 DEF FollowInv
  <2>2. CASE t \in HostMoves
    <3>1. CASE t = [transport EXCEPT !.playing = FALSE]
      BY <3>1 DEF FollowInv
    <3>2. CASE \E s \in Nat : t = [playing |-> TRUE, pos |-> s]
      BY <3>2
    <3>3. \A s \in Seeks : s \in Nat
      BY SequencerAssumption
    <3>4. \A s \in 0..Timeline : s \in Nat
      OBVIOUS
    <3> QED BY <2>2, <3>1, <3>2, <3>3, <3>4 DEF HostMoves
  <2> QED BY <1>2, <2>1, <2>2 DEF NextBlock
<1>4. IsCore(seq)' /\ Clean(seq)' /\ ProgramsOk'
  BY <1>1 DEF FollowInv, IsCore, Clean, HasSong, Params, Songs, Song, Rows, BankAt, ProgramsOk
<1>5. FollowInv'
  BY <1>1, <1>2, <1>3, <1>4 DEF FollowInv
<1> QED BY <1>1, <1>5 DEF FollowsSong

LEMMA ReloadFollows ==
  ASSUME SongInv, FollowInv, NEW p \in DOMAIN Programs, Reload(p)
  PROVE  FollowInv' /\ \A c \in Chan : FollowsSong(c)
<1> DEFINE changed == ParamsOf(p) # ParamsOf(prog)
<1>1. PICK s : s = IF changed THEN WithParams(seq, p, synced) ELSE seq
  OBVIOUS
<1>2. PICK core : core = WithData(s, p)
  OBVIOUS
<1>3. /\ seq' = core /\ prog' = p /\ players' = players /\ transport' = transport
      /\ held' = IF HasData(p) THEN p ELSE held
  BY <1>1, <1>2 DEF Reload
<1>4. IsCore(s) /\ s.tick = seq.tick /\ (changed => s.dirty = TRUE) /\ (~changed => s = seq)
  <2> HIDE DEF changed
  <2> QED BY <1>1, ParamsCore DEF FollowInv
<1>5. /\ IsCore(core) /\ core.tick = seq.tick
      /\ changed \/ HasData(p) => core.dirty = TRUE
      /\ ~changed /\ ~HasData(p) => core = seq
  <2> HIDE DEF changed
  <2> QED BY <1>2, <1>4, DataCore
<1>6. ProgramsOk'
  BY <1>3 DEF FollowInv, ProgramsOk
<1>7. Clean(seq)'
  <2>1. CASE changed \/ HasData(p)
    BY <1>3, <1>5, <2>1 DEF Clean
  <2>2. CASE ~changed /\ ~HasData(p)
    <3>1. Programs[p].song = Programs[prog].song
      BY <2>2 DEF ParamsOf
    <3>2. Params'.song = Params.song /\ held' = held /\ seq' = seq
      BY <1>3, <1>5, <2>2, <3>1 DEF Params
    <3>3. Songs' = Songs
      BY <3>2 DEF Songs
    <3>4. Song' = Song /\ (HasSong' <=> HasSong)
      BY <3>2, <3>3 DEF Song, HasSong
    <3>5. Rows' = Rows /\ (\A row, c : BankAt(row, c)' = BankAt(row, c))
      BY <3>4 DEF Rows, BankAt
    <3> QED BY <3>2, <3>4, <3>5 DEF FollowInv, Clean
  <2> QED BY <2>1, <2>2
<1>8. FollowInv'
  <2>1. IsCore(seq)'
    BY <1>3, <1>5 DEF IsCore
  <2>2. \A c \in Chan : players'[c].prev_trigger <=> seq'.tick # None
    BY <1>3, <1>5 DEF FollowInv
  <2>3. /\ transport' = [playing |-> transport'.playing, pos |-> transport'.pos]
        /\ transport'.pos \in Nat
    BY <1>3 DEF FollowInv
  <2> QED BY <1>6, <1>7, <2>1, <2>2, <2>3 DEF FollowInv
<1>9. seq'.tick = seq.tick /\ players' = players
  BY <1>3, <1>5
<1> QED BY <1>8, <1>9 DEF FollowsSong

LEMMA FollowStep ==
  SongInv /\ FollowInv /\ [Next]_vars => FollowInv' /\ [\A c \in Chan : FollowsSong(c)]_vars
<1> SUFFICES ASSUME SongInv, FollowInv, [Next]_vars
             PROVE  FollowInv' /\ [\A c \in Chan : FollowsSong(c)]_vars
  OBVIOUS
<1>1. CASE \E input \in Inputs \union {None} : Sample(input)
  BY <1>1, SampleFollows
<1>2. CASE NextBlock
  BY <1>2, NextBlockFollows
<1>3. CASE \E p \in DOMAIN Programs : Reload(p)
  BY <1>3, ReloadFollows
<1>4. CASE UNCHANGED vars
  BY <1>4 DEF vars, FollowInv, IsCore, Clean, HasSong, Params, Songs, Song, Rows, BankAt,
              ProgramsOk
<1> QED BY <1>1, <1>2, <1>3, <1>4 DEF Next

\* Whatever is reloaded, and however the transport moves: bank indices that are not
\* marked out of date are those of the row in the song now loaded, and every player has
\* seen the tick that is on the bus.
THEOREM FollowInvariant == Spec => [](SongInv /\ FollowInv)
<1>1. Init => SongInv /\ FollowInv
  BY InitPlayers, InitFollows
<1>2. (SongInv /\ FollowInv) /\ [Next]_vars => (SongInv /\ FollowInv)'
  BY SongStep, FollowStep
<1> QED BY <1>1, <1>2, PTL DEF Spec

\* Every tick that a player can tell from the one before puts it on the step that the
\* song now loaded has, or stops it, for every song, transport and sequence of reloads;
\* and once a song has ended the players it stopped stay stopped until a first tick.
THEOREM PlayersAlwaysFollow == Spec => PlayersFollowSong
<1>1. (SongInv /\ FollowInv) /\ [Next]_vars => [\A c \in Chan : FollowsSong(c)]_vars
  BY FollowStep
<1> QED BY <1>1, FollowInvariant, PTL DEF PlayersFollowSong, Spec
==============================================================================
