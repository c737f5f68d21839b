--------------------------- MODULE MCSongSequencer ---------------------------
EXTENDS SongSequencer

C(kind) == Cell(kind, 1)
Note == C("Note")
Tie  == C("Tie")
Rest == C("Rest")
Twice == Cell("Note", 2)
Thrice == Cell("Note", 3)

Cells == <<Note, Twice, Rest, Tie, C("TieFlow"), C("SlideOpen"), C("SlideSugar"), C("StepToSlide")>>
Last  == <<Note, C("StepTo")>>

Program(patterns, songs, loop, even, odd, autostart, sync) ==
  [patterns |-> patterns, songs |-> songs, song |-> IF songs = <<>> THEN 0 ELSE 1,
   loop |-> loop, even |-> even, odd |-> odd, autostart |-> autostart, sync |-> sync]

\* Every channel of two of the cells and a last one, two channels to a pattern
Row(n) == <<Cells[(n \div 16) + 1], Cells[((n \div 2) % 8) + 1], Last[(n % 2) + 1]>>
AllTogether ==
  Program([b \in 1..64 |-> <<Row(2 * b - 2), Row(2 * b - 1)>>],
          <<[order |-> [r \in 1..32 |-> <<64 - r, r - 1>>], loop_point |-> 0]>>,
          TRUE, 3, 3, TRUE, "auto")

Rolled == << <<Twice, Tie, Note>>, <<C("SlideOpen"), C("TieFlow"), C("StepTo")>> >>
Slides == << <<C("SlideOpen"), Tie, C("SlideCloseInTick")>>, <<Note, Thrice, Tie>> >>
Short  == << <<Thrice, Tie>>, <<C("StepToSlide"), Rest>> >>

Lone   == << <<C("SlideOpen"), C("SlideCloseInTick")>> >>

Long  == [order |-> << <<0, 1>>, <<1, -1>> >>, loop_point |-> 1]
Twin  == [order |-> << <<0, 1>>, <<0, -1>> >>, loop_point |-> 1]
Brief == [order |-> << <<1, 0>> >>, loop_point |-> 0]

MCPrograms == <<
  Program(<<Rolled, Slides>>, <<Long>>, TRUE, 3, 3, TRUE, "auto"),
  Program(<<Short, Rolled>>, <<Brief>>, TRUE, 3, 3, TRUE, "auto"),
  Program(<<Short, Lone>>, <<Twin>>, FALSE, 3, 2, TRUE, "auto"),
  Program(<<>>, <<>>, TRUE, 3, 3, TRUE, "auto"),
  Program(<<Rolled, Slides>>, <<Long>>, FALSE, 3, 3, TRUE, "host"),
  Program(<<Rolled, Slides>>, <<Long>>, TRUE, 3, 3, FALSE, "free"),
  AllTogether,
  Program(<<Rolled, Slides>>, <<>>, TRUE, 3, 3, TRUE, "host"),
  Program(<<Short, Rolled>>, <<Brief>>, TRUE, 3, 3, TRUE, "free") >>
MCEdits == {<<1, 2>>, <<2, 4>>, <<5, 2>>, <<6, 3>>, <<5, 8>>, <<8, 9>>}
==============================================================================
