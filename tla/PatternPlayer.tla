---------------------------- MODULE PatternPlayer ----------------------------
(***************************************************************************)
(* PatternPlayerCore: what a pattern player makes of the clock bus.        *)
(*                                                                         *)
(* A player is a record and tick a function on such records.  Times are    *)
(* whole samples; the fraction at / of of a sub-event and the articulation *)
(* of 0.8 are kept exact by counting in fractions of a sample.  What is    *)
(* left in the fields of an inactive slide or roll is never read; here it  *)
(* is reset.                                                               *)
(***************************************************************************)
EXTENDS StepEffects, FiniteSets

CONSTANTS
  PatternChannels  \* channels of every player

ASSUME PlayerAssumption == PatternChannels \in Nat \ {0}

Silence == -1       \* bank index of the stop sentinel
NoBank  == -2       \* current_bank_index: None
Moving  == -1       \* a control voltage on its way
Never   == 1000000  \* f32::MAX

Lane == 1..PatternChannels

\* ClockBusFrame.  The step fraction is given as the samples it stands for; the
\* pattern-reset voice, which no module reads, is left out.
Bus(bank, trigger, duration, step, into) ==
  [bank |-> bank, trigger |-> trigger, duration |-> duration, step |-> step, into |-> into]

NoRamp     == [active |-> FALSE, to |-> Placeholder, elapsed |-> 0, total |-> 0]
NoSchedule == [active |-> FALSE, pending |-> <<>>, of |-> 1, gate_off |-> Never]

SilentLane == [gate |-> FALSE, trigger |-> FALSE, cv |-> Placeholder,
               slide |-> NoRamp, roll |-> NoSchedule]

NewPlayer ==
  [lane |-> [c \in Lane |-> SilentLane], bank |-> NoBank, step |-> 0, stopped |-> FALSE,
   duration |-> 0, elapsed |-> 0, prev_trigger |-> FALSE,
   slides |-> 0, repeats |-> 0, clear_needed |-> FALSE]

Sliding(lanes) == {c \in Lane : lanes[c].slide.active}
Rolling(lanes) == {c \in Lane : lanes[c].roll.active}

(***************************************************************************)
(* Slides                                                                  *)
(***************************************************************************)
Ramp(slide, p) ==
  [active |-> TRUE, to |-> slide.to, elapsed |-> p.elapsed, total |-> p.duration * slide.span]

\* advance_slide_one_sample
SlideAdvanced(lane) ==
  LET next == [lane.slide EXCEPT !.elapsed = @ + 1]
  IN  IF next.total > 0 /\ next.elapsed >= next.total
      THEN [lane EXCEPT !.cv = next.to, !.slide = NoRamp]
      ELSE [lane EXCEPT !.cv = Moving, !.slide = next]

(***************************************************************************)
(* Rolls: N sub-events k * span / N ticks after the anchor                 *)
(***************************************************************************)
SubEvent(k, roll) == [tick |-> (k * roll.span) \div roll.count, at |-> (k * roll.span) % roll.count]

\* samples to a sub-event, in parts of 1 / of
Distance(event, of, p) == (event.tick * of + event.at) * p.duration - p.elapsed * of

\* four fifths of the way, in parts of 1 / (5 * of)
GateOff(pending, of, p) == 4 * Distance(Head(pending), of, p)

Schedule(roll, p) ==
  LET pending == [k \in 1..(roll.count - 1) |-> SubEvent(k, roll)]
  IN  [active |-> TRUE, pending |-> pending, of |-> roll.count,
       gate_off |-> GateOff(pending, roll.count, p)]

Due(roll, p) ==
  /\ roll.active
  /\ Head(roll.pending).tick = 0
  /\ p.elapsed * roll.of >= Head(roll.pending).at * p.duration

\* check_sub_event_fire
Fired(lane, p) ==
  LET rest == Tail(lane.roll.pending)
  IN  IF ~Due(lane.roll, p) THEN lane
      ELSE [lane EXCEPT !.trigger = TRUE, !.gate = TRUE,
                        !.roll = IF rest = <<>> THEN NoSchedule
                                 ELSE [@ EXCEPT !.pending = rest,
                                                !.gate_off = GateOff(rest, lane.roll.of, p)]]

\* advance_roll_one_sample
RollAdvanced(lane, p) ==
  LET left == lane.roll.gate_off - 5 * lane.roll.of
      counted == IF lane.roll.gate_off >= Never THEN lane
                 ELSE IF left <= 0 THEN [lane EXCEPT !.gate = FALSE, !.roll.gate_off = Never]
                 ELSE [lane EXCEPT !.roll.gate_off = left]
  IN  Fired(counted, p)

\* Mutant: the sub-events left keep their distance.
NearerNot(roll) == roll

\* A tick further into the span: the sub-events left are a tick nearer.
Nearer(roll) ==
  [roll EXCEPT !.pending = [i \in DOMAIN @ |-> [@[i] EXCEPT !.tick = IF @ = 0 THEN 0 ELSE @ - 1]]]

(***************************************************************************)
(* apply_step, for a channel the pattern has.  p already has the tick's    *)
(* duration and the samples gone by.                                       *)
(***************************************************************************)
Quiet(lane) ==
  [lane EXCEPT !.gate = FALSE, !.trigger = FALSE, !.slide = NoRamp, !.roll = NoSchedule]

\* The gate is held, a roll ends, a slide goes on.
Held(lane) ==
  [lane EXCEPT !.gate = TRUE, !.trigger = FALSE, !.roll = NoSchedule]

Applied(lane, eff, p) ==
  CASE eff.effect = "Silent"       -> Quiet(lane)
    [] eff.effect = "AbsorbedRoll" ->
         IF lane.roll.active THEN Fired([lane EXCEPT !.roll = Nearer(@)], p) ELSE lane
    [] eff.effect = "Hold"         -> [Held(lane) EXCEPT !.slide = NoRamp]
    [] eff.effect = "SlideFlow"    ->
         IF lane.slide.active THEN SlideAdvanced(Held(lane)) ELSE Held(lane)
    [] eff.effect = "StepCv"       -> [Held(lane) EXCEPT !.slide = NoRamp, !.cv = eff.cv]
    [] eff.effect \in {"StepCvSlide", "SlideCloseInTick", "OpenSlide"} ->
         [Held(lane) EXCEPT !.cv = Moving, !.slide = Ramp(eff.slide, p)]
    [] OTHER ->  \* StartNote
         LET opens == eff.slide # NoSlide
         IN  [lane EXCEPT
                !.gate = TRUE, !.trigger = TRUE,
                !.cv = IF opens THEN Moving ELSE eff.cv,
                !.slide = IF opens THEN Ramp(eff.slide, p) ELSE NoRamp,
                !.roll = IF eff.roll = NoRoll THEN NoSchedule ELSE Schedule(eff.roll, p)]

\* apply_step on every channel; a bank the tracker does not have changes nothing
Stepped(p, patterns) ==
  IF p.bank + 1 \notin DOMAIN patterns THEN p.lane
  ELSE LET pattern == patterns[p.bank + 1]
       IN  [c \in Lane |->
              IF c > Len(pattern) THEN Quiet(p.lane[c])
              ELSE Applied(p.lane[c], pattern[c][(p.step % Len(pattern[c])) + 1], p)]

(***************************************************************************)
(* tick                                                                    *)
(***************************************************************************)
Rises(p, bus) == bus.trigger /\ ~p.prev_trigger

\* Mutant: the counts are not reset.
ClearedStillCounted(p) ==
  [p EXCEPT !.lane = [c \in Lane |-> SilentLane], !.stopped = TRUE, !.elapsed = 0]

Cleared(p) ==
  [p EXCEPT !.lane = [c \in Lane |-> SilentLane], !.stopped = TRUE,
            !.slides = 0, !.repeats = 0, !.clear_needed = FALSE, !.elapsed = 0]

\* A rising tick: apply the step, then count afresh what is under way.
OnRise(p, bus, patterns) ==
  LET q == [p EXCEPT !.stopped = FALSE, !.bank = bus.bank, !.step = bus.step,
                     !.duration = bus.duration, !.elapsed = bus.into]
      lanes == Stepped(q, patterns)
  IN  [q EXCEPT !.lane = lanes,
                !.slides = Cardinality(Sliding(lanes)),
                !.repeats = Cardinality(Rolling(lanes)),
                !.clear_needed = \E c \in Lane : lanes[c].trigger]

\* The code counts on; past twice the length of the tick nothing can tell.
Later(elapsed, p) == IF elapsed > 2 * p.duration THEN elapsed ELSE elapsed + 1

CountDown(count, gone) == IF gone > count THEN 0 ELSE count - gone

\* A sample between ticks: nothing is looked at unless a slide or roll is counted.
Between(p) ==
  LET lowered == IF p.clear_needed
                 THEN [c \in Lane |-> [p.lane[c] EXCEPT !.trigger = FALSE]]
                 ELSE p.lane
      q == [p EXCEPT !.lane = lowered, !.clear_needed = FALSE, !.elapsed = Later(@, p)]
      slid == [c \in Lane |-> IF lowered[c].slide.active THEN SlideAdvanced(lowered[c]) ELSE lowered[c]]
      next == [c \in Lane |-> IF slid[c].roll.active THEN RollAdvanced(slid[c], q) ELSE slid[c]]
  IN  IF p.slides = 0 /\ p.repeats = 0
      THEN [p EXCEPT !.lane = lowered, !.clear_needed = FALSE]
      ELSE [q EXCEPT !.lane = next,
                     !.slides = CountDown(@, Cardinality(Sliding(lowered) \ Sliding(next))),
                     !.repeats = CountDown(@, Cardinality(Rolling(lowered) \ Rolling(next))),
                     !.clear_needed = \E c \in Lane : Due(slid[c].roll, q)]

PlayerTick(player, bus, patterns) ==
  LET p == [player EXCEPT !.prev_trigger = bus.trigger]
  IN  IF Rises(player, bus)
      THEN IF bus.bank < 0 THEN Cleared(p) ELSE OnRise(p, bus, patterns)
      ELSE IF player.stopped THEN p ELSE Between(p)
==============================================================================
