----------------------------- MODULE StepEffects -----------------------------
(***************************************************************************)
(* The row-build pass of the tracker: one walk over the cells of a pattern *)
(* channel, which turns what the author wrote into what the player does.   *)
(*                                                                         *)
(* Control voltages are told apart, not computed: cell i writes Value(i),  *)
(* and a slide that a cell opens and closes itself ends at EndValue(i).    *)
(* The second voltage follows the first and is left out.                   *)
(***************************************************************************)
EXTENDS Integers, Sequences

\* StepKind.  Only a note has a repeat count above one.
Cell(kind, repeat) == [kind |-> kind, repeat |-> repeat]

Placeholder == 0
Value(i)    == 2 * i
EndValue(i) == 2 * i + 1

Slide(to, span)   == [to |-> to, span |-> span]
NoSlide           == Slide(Placeholder, 0)
Roll(count, span) == [count |-> count, span |-> span]
NoRoll            == Roll(1, 1)

\* StepEffect
Effect(name, cv, slide, roll) ==
  [effect |-> name, cv |-> cv, slide |-> slide, roll |-> roll]
Plain(name) == Effect(name, Placeholder, NoSlide, NoRoll)

(***************************************************************************)
(* The walk remembers what is open, the cell that opened it, the effects   *)
(* so far and the cells found in error.                                    *)
(***************************************************************************)
WalkStart == [open |-> "Idle", head |-> 0, effects |-> <<>>, errors |-> {}]

\* Mutant: a slide is closed only by a cell that starts a note.
SnapsOfNotes == {"Note", "SlideSugar", "SlideOpen"}

\* Cells that end an open slide at the boundary they start at
Snaps == {"Note", "SlideSugar", "SlideOpen", "StepTo", "StepToSlide"}

EffectOf(w, i, cell) ==
  CASE cell.kind = "Rest"        -> Plain("Silent")
    [] cell.kind = "Tie"         -> Plain(CASE w.open = "RollActive" -> "AbsorbedRoll"
                                            [] w.open = "SlideOpen"  -> "SlideFlow"
                                            [] w.open = "Idle"       -> "Hold")
    [] cell.kind = "TieFlow"     -> IF w.open = "SlideOpen"
                                    THEN Plain("SlideFlow")
                                    ELSE Effect("OpenSlide", Placeholder, Slide(Placeholder, 1), NoRoll)
    [] cell.kind = "Note"        -> Effect("StartNote", Value(i), NoSlide, Roll(cell.repeat, 1))
    [] cell.kind = "SlideSugar"  -> Effect("StartNote", Value(i), Slide(EndValue(i), 1), NoRoll)
    [] cell.kind = "SlideOpen"   -> Effect("StartNote", Value(i), Slide(Placeholder, 1), NoRoll)
    [] cell.kind = "StepTo"      -> Effect("StepCv", Value(i), NoSlide, NoRoll)
    [] cell.kind = "StepToSlide" -> Effect("StepCvSlide", Value(i), Slide(EndValue(i), 1), NoRoll)
    [] cell.kind = "SlideCloseInTick" ->
         Effect("SlideCloseInTick", Placeholder, Slide(Value(i), 1), NoRoll)

\* What the cell does to the effect that opened the slide or the roll
HeadAfter(w, i, cell) ==
  LET head == w.effects[w.head]
      longer == [head EXCEPT !.slide.span = @ + 1]
  IN  CASE w.open = "RollActive" /\ cell.kind = "Tie" -> [head EXCEPT !.roll.span = @ + 1]
        [] w.open = "SlideOpen" /\ cell.kind \in {"Tie", "TieFlow"} -> longer
        [] w.open = "SlideOpen" /\ cell.kind = "SlideCloseInTick" -> [longer EXCEPT !.slide.to = Value(i)]
        [] w.open = "SlideOpen" /\ cell.kind \in Snaps -> [head EXCEPT !.slide.to = Value(i)]
        [] OTHER -> head

\* A rest forgets an open slide without giving it a target.
OpenAfter(w, cell) ==
  CASE cell.kind = "Tie" -> w.open
    [] cell.kind \in {"TieFlow", "SlideOpen"} -> "SlideOpen"
    [] cell.kind = "Note" /\ cell.repeat > 1 -> "RollActive"
    [] OTHER -> "Idle"

Walked(w, i, cell) ==
  LET keepsHead == cell.kind = "Tie" \/ (cell.kind = "TieFlow" /\ w.open = "SlideOpen")
      amended   == IF w.open = "Idle" THEN w.effects
                   ELSE [w.effects EXCEPT ![w.head] = HeadAfter(w, i, cell)]
  IN  [open    |-> OpenAfter(w, cell),
       head    |-> IF keepsHead THEN w.head ELSE i,
       effects |-> Append(amended, EffectOf(w, i, cell)),
       errors  |-> w.errors \union
                     IF cell.kind = "SlideCloseInTick" /\ w.open # "SlideOpen" THEN {i} ELSE {}]

\* resolve_step_effects
Resolved(cells) ==
  LET walk[i \in 0..Len(cells)] ==
        IF i = 0 THEN WalkStart ELSE Walked(walk[i - 1], i, cells[i])
      last == walk[Len(cells)]
  IN  [effects |-> last.effects,
       errors  |-> last.errors \union IF last.open = "SlideOpen" THEN {last.head} ELSE {}]

\* The build refuses a row with an error.
Accepted(cells) == Resolved(cells).errors = {}
Effects(cells)  == Resolved(cells).effects
==============================================================================
