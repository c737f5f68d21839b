---------------------------- MODULE SongSequencer ----------------------------
(***************************************************************************)
(* A MasterSequencer and the pattern players on its clock bus, one sample  *)
(* at a time, while the host moves its transport, the transport inputs     *)
(* rise and the patch is reloaded under the sequencer.                     *)
(*                                                                         *)
(* A program is what a patch says of the tracker: the parameters of the    *)
(* sequencer and its patterns and songs (tracker data, unless it has       *)
(* neither).  A reload adopts another program between two process blocks;  *)
(* the modules survive it.  Ticks last a whole number of samples.          *)
(***************************************************************************)
EXTENDS PatternPlayer, Functions

CONSTANTS
  Programs,      \* sequence of programs
  Edits,         \* pairs of programs: the second may be loaded over the first
  SongChannels,  \* channels of the sequencer, with a player on each
  Block,         \* samples of a process block
  BarSamples,    \* samples of a bar of the host
  Timeline,      \* samples after which the host has to jump or stop
  Seeks,         \* positions the host jumps to
  Inputs         \* transport inputs that are patched

ASSUME SequencerAssumption ==
  /\ Edits \subseteq (DOMAIN Programs) \X (DOMAIN Programs)
  /\ SongChannels \in Nat \ {0} /\ Block \in Nat /\ Block >= 2
  /\ BarSamples \in Nat \ {0} /\ Timeline \in Nat /\ Seeks \subseteq 0..Timeline
  /\ Inputs \subseteq {"start", "stop", "pause", "resume"}

\* Programs in which no tick, pattern or song is empty
ASSUME ProgramAssumption == \A p \in {Programs[i] : i \in DOMAIN Programs} :
  /\ p.even >= 2 /\ p.odd >= 2 /\ p.sync \in {"auto", "free", "host"}
  /\ \A song \in {p.songs[s] : s \in DOMAIN p.songs} :
       /\ Len(song.order) \in Nat \ {0} /\ song.loop_point \in 0..(Len(song.order) - 1)
       /\ \A r \in 1..Len(song.order) : \A c \in DOMAIN song.order[r] :
            c \in Nat /\ song.order[r][c] \in Int /\ song.order[r][c] >= Silence
  /\ \A pattern \in {p.patterns[b] : b \in DOMAIN p.patterns} :
       /\ Len(pattern[1]) \in Nat \ {0} /\ BarSamples % Len(pattern[1]) = 0
       /\ \A c \in DOMAIN pattern : Len(pattern[c]) = Len(pattern[1])

NoData == 0
None   == "none"
Chan   == 1..SongChannels

VARIABLES
  seq,        \* the SequencerCore
  players,    \* the PatternPlayerCore of every channel
  prog,       \* program whose parameters are applied
  held,       \* program whose tracker data the modules hold
  synced,     \* use_host_transport
  hosted,     \* AudioEnvironment::hosted
  transport,  \* GLOBAL_TRANSPORT
  left,       \* samples left of the process block
  whole       \* history: a first tick of the song was heard since the last reload

vars == <<seq, players, prog, held, synced, hosted, transport, left, whole>>

(***************************************************************************)
(* The song the core plays                                                 *)
(***************************************************************************)
\* build_tracker_data: the patterns of a program, every cell turned into its effect
Built == [i \in DOMAIN Programs |->
  LET patterns == Programs[i].patterns
  IN  [b \in DOMAIN patterns |-> [c \in DOMAIN patterns[b] |-> Effects(patterns[b][c])]]]

\* The patterns of a column of a song have as many steps and channels as each other.
ColumnsAgree(song, patterns) ==
  \A rows \in (DOMAIN song.order) \X (DOMAIN song.order) : \A c \in DOMAIN song.order[1] :
    LET bank(i) == song.order[rows[i]][c] + 1
    IN  {bank(1), bank(2)} \subseteq DOMAIN patterns =>
          /\ Len(patterns[bank(1)]) = Len(patterns[bank(2)])
          /\ Len(patterns[bank(1)][1]) = Len(patterns[bank(2)][1])

\* The build fails if any channel of any pattern is in error, if the patterns of a column
\* do not agree, or if the song has not the channels of the sequencer.
Builds(i) ==
  LET program == Programs[i]
  IN  /\ \A pattern \in Range(program.patterns) : \A cells \in Range(pattern) : Accepted(cells)
      /\ \A song \in Range(program.songs) : ColumnsAgree(song, program.patterns)
      /\ program.song \in DOMAIN program.songs =>
           Len(program.songs[program.song].order[1]) = SongChannels

Params   == Programs[prog]
Patterns == IF held = NoData THEN <<>> ELSE Built[held]
Songs    == IF held = NoData THEN <<>> ELSE Programs[held].songs
HasSong  == Params.song \in DOMAIN Songs
Song     == Songs[Params.song]
Rows     == Len(Song.order)

\* bank index of a channel in a row, rows counted from 0
BankAt(row, c) ==
  IF c \in DOMAIN Song.order[row + 1] THEN Song.order[row + 1][c] ELSE Silence

\* pattern_length_at_row: the first channel of the song that plays decides.
RowLength(row) ==
  LET order   == Song.order[row + 1]
      playing == {c \in DOMAIN order : order[c] + 1 \in DOMAIN Patterns}
      leader  == CHOOSE c \in playing : \A d \in playing : c <= d
  IN  IF row >= Rows THEN 0
      ELSE IF playing = {} THEN 1 ELSE Len(Programs[held].patterns[order[leader] + 1][1])

\* resolve_song_row
RowsOfBar(bar) ==
  IF bar < Rows THEN {bar}
  ELSE IF Params.loop THEN {Song.loop_point + ((bar - Rows) % (Rows - Song.loop_point))}
  ELSE {}

TickLength(parity) == IF parity = 0 THEN Params.even ELSE Params.odd
BaseTick == (Params.even + Params.odd) \div 2

\* fill_bank_indices; a row the song does not have leaves them as they are
Filled(s) ==
  [s EXCEPT !.dirty = FALSE,
            !.banks = IF s.dirty /\ s.row < Rows THEN [c \in Chan |-> BankAt(s.row, c)] ELSE @]

(***************************************************************************)
(* SequencerCore, free-running                                             *)
(***************************************************************************)
NewCore ==
  [state |-> "Stopped", row |-> 0, step |-> 0, parity |-> 0, until |-> 0,
   first |-> TRUE, ended |-> FALSE, banks |-> [c \in Chan |-> 0], dirty |-> TRUE,
   prev |-> None, prev_host |-> FALSE, tick |-> None, duration |-> 0, into |-> 0]

\* reset_position
Rewound(s) ==
  [s EXCEPT !.row = 0, !.step = 0, !.parity = 0, !.until = 0, !.first = TRUE,
            !.ended = FALSE, !.dirty = TRUE]

\* start_playback
Started(s) == [Rewound(s) EXCEPT !.state = "Playing"]

\* The rising edges of the transport inputs; at most one input is high.
Edged(s, input) ==
  LET q == [s EXCEPT !.prev = input]
  IN  CASE input = s.prev -> q
        [] input # s.prev /\ input = "stop"  -> [Rewound(q) EXCEPT !.state = "Stopped"]
        [] input # s.prev /\ input = "start" -> Started(q)
        [] input # s.prev /\ input = "pause" /\ q.state = "Playing" -> [q EXCEPT !.state = "Paused"]
        [] input # s.prev /\ input = "resume" /\ q.state = "Paused" -> [q EXCEPT !.state = "Playing"]
        [] OTHER -> q

\* Mutant: a song that loops repeats its last row.
AdvancedInPlace(s) ==
  LET moved == [s EXCEPT !.step = @ + 1, !.parity = 1 - @, !.tick = "next"]
      wrapped == [moved EXCEPT !.step = 0, !.row = @ + 1, !.dirty = TRUE]
  IN  CASE s.step + 1 < RowLength(s.row) -> moved
        [] s.step + 1 >= RowLength(s.row) /\ s.row + 1 < Rows -> wrapped
        [] OTHER ->
             IF Params.loop THEN [wrapped EXCEPT !.row = Rows - 1]
             ELSE [wrapped EXCEPT !.ended = TRUE, !.tick = "end"]

\* advance_step.  At the end of a song that does not loop it asks for the sentinel.
Advanced(s) ==
  LET moved == [s EXCEPT !.step = @ + 1, !.parity = 1 - @, !.tick = "next"]
      wrapped == [moved EXCEPT !.step = 0, !.row = @ + 1, !.dirty = TRUE]
  IN  CASE s.step + 1 < RowLength(s.row) -> moved
        [] s.step + 1 >= RowLength(s.row) /\ s.row + 1 < Rows -> wrapped
        [] OTHER ->
             IF Params.loop THEN [wrapped EXCEPT !.row = Song.loop_point]
             ELSE [wrapped EXCEPT !.ended = TRUE, !.tick = "end"]

\* The length of the step that a tick starts
Timed(s) ==
  IF s.tick \notin {"first", "next"} THEN s
  ELSE [s EXCEPT !.until = @ + TickLength(s.parity), !.duration = TickLength(s.parity)]

Counted(s) ==
  CASE s.first -> [s EXCEPT !.tick = "first", !.first = FALSE, !.until = 0]
    [] ~s.first /\ s.until > 1 -> [s EXCEPT !.until = @ - 1]
    [] OTHER -> Advanced([s EXCEPT !.until = @ - 1])

Idle(s) == s.state # "Playing" \/ s.ended \/ ~HasSong

\* tick_free
FreeTick(input) ==
  \E s \in {Edged([seq EXCEPT !.tick = None, !.duration = BaseTick, !.into = 0], input)} :
    \/ Idle(s) /\ seq' = s
    \/ ~Idle(s) /\ \E t \in {Counted(s)} : seq' = Filled(Timed(t))

(***************************************************************************)
(* SequencerCore, following the host                                       *)
(***************************************************************************)
HostEdged(s) ==
  LET q == [s EXCEPT !.prev_host = transport.playing]
  IN  CASE transport.playing /\ ~s.prev_host ->
             [q EXCEPT !.state = "Playing", !.first = TRUE, !.ended = FALSE, !.dirty = TRUE]
        [] ~transport.playing /\ s.prev_host -> [q EXCEPT !.state = "Paused"]
        [] OTHER -> q

\* The step of a row that the position of the host falls in, and how far into it
Placed(s, row) ==
  LET length == BarSamples \div RowLength(row)
      step   == (transport.pos % BarSamples) \div length
  IN  [s EXCEPT
         !.row = row, !.step = step, !.first = FALSE,
         !.into = (transport.pos % BarSamples) % length,
         !.duration = IF hosted THEN length ELSE BaseTick,
         !.dirty = @ \/ s.first \/ row # s.row,
         !.tick = CASE s.first -> "first"
                    [] ~s.first /\ <<row, step>> # <<s.row, s.step>> -> "next"
                    [] OTHER -> None]

\* tick_host
HostTick ==
  \E s \in {HostEdged([seq EXCEPT !.tick = None, !.duration = BaseTick, !.into = 0])} :
    LET rows == RowsOfBar(transport.pos \div BarSamples)
    IN  \/ Idle(s) /\ seq' = s
        \/ /\ ~Idle(s) /\ rows = {}
           /\ seq' = Filled([s EXCEPT !.ended = TRUE, !.tick = "end", !.dirty = TRUE])
        \/ ~Idle(s) /\ \E row \in rows : seq' = Filled(Placed(s, row))

(***************************************************************************)
(* The modules                                                             *)
(***************************************************************************)
\* MasterSequencer::process: what is written to the clock output of a channel
BusOf(s, c) ==
  IF s.tick = "end" THEN Bus(Silence, TRUE, 0, 0, 0)
  ELSE Bus(s.banks[c], s.tick # None, s.duration, s.step, s.into)

CoreTick(input) ==
  \/ held = NoData /\ seq' = [seq EXCEPT !.tick = None]
  \/ held # NoData /\ synced /\ HostTick
  \/ held # NoData /\ ~synced /\ FreeTick(input)

\* PatternPlayer::process; without tracker data only the edge is consumed
PlayerProcess(player, bus) ==
  IF held = NoData THEN [player EXCEPT !.prev_trigger = bus.trigger]
  ELSE PlayerTick(player, bus, Patterns)

\* The players run after the sequencer in the same sample.
Sample(input) ==
  /\ left > 0
  /\ synced => input = None
  /\ left' = left - 1
  /\ CoreTick(input)
  /\ players' = [c \in Chan |-> PlayerProcess(players[c], BusOf(seq', c))]
  /\ whole' = IF seq'.tick = "first" THEN seq.tick = None /\ seq'.row < Rows ELSE whole
  /\ UNCHANGED <<prog, held, synced, hosted, transport>>

\* Where the host is when the next block starts
HostMoves ==
  {[transport EXCEPT !.playing = FALSE]} \union
  {[playing |-> TRUE, pos |-> s] : s \in Seeks} \union
  {[playing |-> TRUE, pos |-> s] : s \in
     {transport.pos + IF transport.playing THEN Block ELSE 0} \intersect 0..Timeline}

\* write_transport_state, once per process block.  A host that is not followed is
\* left where it is.
NextBlock ==
  /\ left = 0
  /\ left' = Block
  /\ transport' \in IF hosted /\ synced THEN HostMoves ELSE {transport}
  /\ UNCHANGED <<seq, players, prog, held, synced, hosted, whole>>

(***************************************************************************)
(* Reload                                                                  *)
(***************************************************************************)
ParamsOf(p) ==
  LET r == Programs[p] IN <<r.song, r.loop, r.even, r.odd, r.autostart, r.sync>>

\* apply_params: whether to start is decided before the sync mode is read.
WithParams(s, p, synchronized) ==
  LET q == [s EXCEPT !.dirty = TRUE]
  IN  IF Programs[p].autostart /\ ~synchronized THEN Started(q) ELSE q

SyncOf(p) ==
  CASE Programs[p].sync = "free" -> FALSE
    [] Programs[p].sync = "host" -> TRUE
    [] Programs[p].sync = "auto" -> hosted

HasData(p) == Programs[p].patterns # <<>> \/ Programs[p].songs # <<>>

\* Mutant: the bank indices of the old song are kept.
WithDataKeepingBanks(s, p) == s

\* receive_tracker_data
WithData(s, p) == IF HasData(p) THEN [s EXCEPT !.dirty = TRUE] ELSE s

\* The parameters are applied if they changed, the data whenever there is any.
Reload(p) ==
  /\ left = 0
  /\ <<prog, p>> \in Edits
  /\ Builds(p)
  /\ LET changed == ParamsOf(p) # ParamsOf(prog)
     IN  /\ seq' = WithData(IF changed THEN WithParams(seq, p, synced) ELSE seq, p)
         /\ synced' = IF changed THEN SyncOf(p) ELSE synced
  /\ prog' = p
  /\ held' = IF HasData(p) THEN p ELSE held
  /\ whole' = FALSE
  /\ UNCHANGED <<players, hosted, transport, left>>

Init ==
  /\ prog \in {p \in DOMAIN Programs : Builds(p)}
  /\ held = IF HasData(prog) THEN prog ELSE NoData
  /\ hosted \in BOOLEAN
  /\ synced = SyncOf(prog)
  /\ seq = WithData(WithParams(NewCore, prog, hosted), prog)
  /\ players = [c \in Chan |-> NewPlayer]
  /\ transport = [playing |-> FALSE, pos |-> 0]
  /\ left = 0
  /\ whole = FALSE

Next ==
  \/ \E input \in Inputs \union {None} : Sample(input)
  \/ NextBlock
  \/ \E p \in DOMAIN Programs : Reload(p)

Spec == Init /\ [][Next]_vars

\* The audio callback is called again and again and runs through every block: the
\* samples left go on changing, which only Sample and NextBlock can do.
TimePasses == left' = IF left = 0 THEN Block ELSE left - 1
LiveSpec == Spec /\ WF_left(TimePasses)

(***************************************************************************)
(* Properties                                                              *)
(***************************************************************************)
Lanes(c)  == {players[c].lane[l] : l \in Lane}
Silent(c) == \A lane \in Lanes(c) : ~lane.gate /\ ~lane.trigger

\* What the counters that let a player skip a sample stand for: the slides and
\* rolls under way and the triggers to be lowered, whatever was reloaded, cleared
\* or entered in the middle of a step (slide_active_count, repeat_active_count,
\* trigger_clear_needed).  And a player that was stopped is silent.
PlayersAccounted ==
  /\ left \in 0..Block
  /\ \A c \in Chan :
       /\ players[c].slides = Cardinality(Sliding(players[c].lane))
       /\ players[c].repeats = Cardinality(Rolling(players[c].lane))
       /\ \A lane \in Lanes(c) : lane.trigger => lane.gate /\ players[c].clear_needed
       /\ players[c].stopped => Silent(c)

\* The player of a channel is on the step the song asks for, or stopped.
Follows(c) ==
  IF seq'.tick = "end" \/ BankAt(seq'.row, c) = Silence THEN players'[c].stopped
  ELSE /\ ~players'[c].stopped
       /\ players'[c].bank = BankAt(seq'.row, c)
       /\ players'[c].step = seq'.step

\* Unless its trigger is still high from the sample before, every tick puts every
\* player on the step of the pattern that the song now loaded has at the row of the
\* sequencer, and stops the players the row has no pattern for: also the first tick
\* after a reload, a restart or a jump of the host.  The one exception is a first tick
\* on a row that the song does not have: the sequencer was at it in a longer song, and
\* was set playing by the host while it had no song.  The end of the song stops all
\* players, and they stay stopped until a first tick.
FollowsSong(c) ==
  /\ seq.tick = None /\ seq'.tick # None /\ (seq'.tick = "first" => seq'.row < Rows) => Follows(c)
  /\ seq.ended /\ players[c].stopped /\ seq'.tick # "first" => players'[c].stopped
PlayersFollowSong == [][\A c \in Chan : FollowsSong(c)]_vars

\* The sequencer moves on by itself, on data the players heard from a first tick on.
MovesOn == whole /\ ~synced /\ seq.tick = None /\ seq'.tick = "next"

PatternAt(row, c) == Patterns[BankAt(row, c) + 1]

\* The pattern of the channel ends where the row ends.
Fits(row, c) == BankAt(row, c) # Silence => RowLength(row) % Len(Patterns[BankAt(row, c) + 1][1]) = 0

EffectAt(row, step, c, l) ==
  IF BankAt(row, c) = Silence THEN Plain("Silent")
  ELSE LET pattern == PatternAt(row, c)
       IN  IF l > Len(pattern) THEN Plain("Silent")
           ELSE pattern[l][(step % Len(pattern[l])) + 1]

\* A roll has fired every sub-event that falls into a step when the step is over,
\* with swing and after pauses too, and goes on only into a cell that absorbs it.
RollsComplete ==
  [][MovesOn => \A c \in Chan, l \in Lane :
       LET roll == players[c].lane[l].roll
       IN  Fits(seq.row, c) /\ roll.active =>
             /\ \A i \in DOMAIN roll.pending : roll.pending[i].tick > 0
             /\ EffectAt(seq'.row, seq'.step, c, l).effect = "AbsorbedRoll"]_vars

\* With even ticks a slide is within a sample of its end when a cell that neither
\* continues it nor closes it in its own tick comes, and if the cell sets a voltage,
\* that is where the slide went; a slide that ends inside its own cell excepted.
SlidesLand ==
  [][MovesOn /\ Params.even = Params.odd => \A c \in Chan, l \in Lane :
       LET slide == players[c].lane[l].slide
           now   == EffectAt(seq.row, seq.step, c, l)
           next  == EffectAt(seq'.row, seq'.step, c, l)
       IN  Fits(seq.row, c) /\ slide.active
             /\ next.effect \notin {"SlideFlow", "SlideCloseInTick"} =>
           /\ slide.elapsed + 1 >= slide.total
           /\ now.effect \in {"SlideFlow", "OpenSlide"}
                /\ next.effect \in {"StartNote", "StepCv", "StepCvSlide"} => slide.to = next.cv]_vars

\* Free playback comes round: a song that loops gets to the first step of its loop
\* point again and one that does not gets to its end, unless it is restarted, stopped,
\* paused or taken away first, whatever is reloaded under it, a song that has not as
\* many rows as the sequencer is into included.
FreelyPlaying == ~synced /\ seq.state = "Playing" /\ ~seq.ended /\ HasSong
SongComesRound ==
  FreelyPlaying ~>
    \/ ~FreelyPlaying
    \/ seq.tick = "first"
    \/ seq.tick = "next" /\ seq.row = Song.loop_point /\ seq.step = 0
==============================================================================
