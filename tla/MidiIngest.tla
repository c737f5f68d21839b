------------------------------ MODULE MidiIngest ------------------------------
(***************************************************************************)
(* MIDI input of the stand-alone player, from the driver's callback to the *)
(* sample a module sees the event in.                                      *)
(*                                                                         *)
(* Each input port has a thread of its own, which notes the wall time of a *)
(* message, reads the audio clock, works out the sample the message is for *)
(* and pushes it under a mutex.  The audio callback drains     *)
(* the queue once per sub-block into rows, one per sample; a row that is   *)
(* full spills forward, and what the sub-block cannot hold is carried over *)
(* to the next.  At its end the callback publishes the clock, which is     *)
(* read and published in one step here; AudioClock has the steps.          *)
(*                                                                         *)
(* Time is counted in samples, so the sample rate is one.  Callbacks may   *)
(* start up to Jitter late and take until the next is due; every length of *)
(* a callback is fair game, MIDI threads may stall between any two steps.  *)
(***************************************************************************)
EXTENDS Integers, FiniteSets, SequencesExt

CONSTANTS
  Port,       \* MIDI input ports
  Frames,     \* frames of a callback
  SubBlock,   \* control_period: samples of a sub-block
  RowSize,    \* MAX_EVENTS_PER_SAMPLE
  CarrySize,  \* MIDI_CARRY_QUEUE_CAP
  QueueSize,  \* capacity of the event queue
  Lookahead,  \* EventScheduler's lookahead_samples
  StartDelay, \* from AudioClock::new to the start of the stream
  Jitter,     \* bound: how late a callback may start
  MaxEvents,  \* bound: messages received
  MaxTime     \* bound: samples of wall time

ASSUME MidiAssumption ==
  /\ {Frames, SubBlock, RowSize, CarrySize, QueueSize} \subseteq Nat \ {0}
  /\ {Lookahead, StartDelay, Jitter, MaxEvents, MaxTime} \subseteq Nat
  /\ Jitter <= Frames

VARIABLES
  now,            \* wall time since the clock was created
  received,       \* number of messages received so far; a message is its number
  port,           \* per port, what its thread is doing with the current message
  queue,          \* the event queue
  peeked,         \* the look-ahead slot of its consumer
  queue_dropped,  \* messages counted in dropped_count
  callback,       \* the audio thread: "waiting" or "running"
  callbacks,      \* number of callbacks begun
  playback_time,  \* wall time the running callback began
  remaining,      \* frames it has left
  until_next,     \* samples_until_next_midi
  sample_counter, \* first sample of the current sub-block
  rows,           \* the scratch rows of the sub-block
  pending,        \* the carry-over queue
  dropped,        \* messages counted in MidiScratch::dropped
  seen,           \* history: messages the modules have seen
  clock           \* the anchor published last

queueVars    == <<queue, peeked, queue_dropped>>
scratchVars  == <<rows, pending, dropped, seen>>
callbackVars == <<callback, callbacks, playback_time, remaining, until_next, sample_counter>>
vars == <<now, received, port, queueVars, callbackVars, scratchVars, clock>>

-----------------------------------------------------------------------------
Message == 1..MaxEvents
Event == [id : Message, port : Port, target : Nat]
Queued == [event : Event, pushed : 0..MaxTime]
Row == 0..(SubBlock - 1)
Idle == [pc |-> "idle"]

Ids(s) == {s[i].id : i \in DOMAIN s}
QueuedIds(s) == {s[i].event.id : i \in DOMAIN s}
Handling(p, m) ==
  \/ port[p].pc = "clock" /\ port[p].id = m
  \/ port[p].pc = "push" /\ port[p].event.id = m
InRows == UNION {Ids(rows[t]) : t \in Row}

Init ==
  /\ now = 0 /\ received = 0
  /\ port = [p \in Port |-> Idle]
  /\ queue = <<>> /\ peeked = <<>> /\ queue_dropped = {}
  /\ callback = "waiting" /\ callbacks = 0 /\ playback_time = 0 /\ remaining = 0
  /\ until_next = SubBlock /\ sample_counter = 0
  /\ rows = [t \in Row |-> <<>>] /\ pending = <<>> /\ dropped = {} /\ seen = {}
  /\ clock = [count |-> 0, wall |-> 0]

\* The wall clock runs on unless the audio thread would miss a deadline.
Due(k) == StartDelay + k * Frames
Time ==
  /\ now < MaxTime
  /\ IF callback = "waiting" THEN now < Due(callbacks) + Jitter ELSE now < Due(callbacks)
  /\ now' = now + 1
  /\ UNCHANGED <<received, port, queueVars, callbackVars, scratchVars, clock>>

-----------------------------------------------------------------------------
(* The threads of the input ports: handle_midi_message. *)

\* The ports are opened after the stream was started.
Receive(p) ==
  /\ port[p] = Idle /\ received < MaxEvents /\ now >= StartDelay
  /\ received' = received + 1
  /\ port' = [port EXCEPT ![p] = [pc |-> "clock", id |-> received', at |-> now]]
  /\ UNCHANGED <<now, queueVars, callbackVars, scratchVars, clock>>

\* EventScheduler::stamp
Stamp(anchor, at) ==
  LET target == anchor.count + (at - anchor.wall) + Lookahead
  IN  IF target < anchor.count THEN anchor.count ELSE target

\* AudioClock::read
ReadClock(p) ==
  /\ port[p].pc = "clock"
  /\ port' = [port EXCEPT ![p] = [pc |-> "push", event |->
                [id |-> @.id, port |-> p, target |-> Stamp(clock, @.at)]]]
  /\ UNCHANGED <<now, received, queueVars, callbackVars, scratchVars, clock>>

\* EventQueueProducer::push under the mutex; a full queue counts a drop.
Push(p) ==
  /\ port[p].pc = "push"
  /\ IF Len(queue) < QueueSize
       THEN /\ queue' = Append(queue, [event |-> port[p].event, pushed |-> now])
            /\ UNCHANGED queue_dropped
       ELSE /\ queue_dropped' = queue_dropped \cup {port[p].event.id}
            /\ UNCHANGED queue
  /\ port' = [port EXCEPT ![p] = Idle]
  /\ UNCHANGED <<now, received, peeked, callbackVars, scratchVars, clock>>

-----------------------------------------------------------------------------
(* MidiScratch *)

\* push_pending
Park(s, e) ==
  IF Len(s.pending) < CarrySize
    THEN [s EXCEPT !.pending = Append(@, e)]
    ELSE [s EXCEPT !.dropped = @ \cup {e.id}]

\* write_midi_event: the first row with room at or after the offset.
Write(s, offset, e) ==
  LET room == {t \in Row : t >= offset /\ Len(s.rows[t]) < RowSize}
  IN  IF room = {} THEN Park(s, e)
      ELSE [s EXCEPT !.rows[Min(room)] = Append(@, e)]

\* prepare_block: rows cleared, then what was carried over is written first.
Prepared ==
  FoldLeft(LAMBDA s, e : Write(s, 0, e),
           [rows |-> [t \in Row |-> <<>>], pending |-> <<>>, dropped |-> dropped],
           pending)

-----------------------------------------------------------------------------
(* The audio callback: fill_buffer. *)

BeginCallback ==
  /\ callback = "waiting" /\ now >= Due(callbacks)
  /\ callback' = "running" /\ callbacks' = callbacks + 1
  /\ playback_time' = now /\ remaining' = Frames
  /\ UNCHANGED <<now, received, port, queueVars, until_next, sample_counter,
                 scratchVars, clock>>

\* drain_window: events are taken off the queue up to the first that is
\* for a later window, which stays in the look-ahead slot.
Waiting == peeked \o queue
\* Mutant: the window's end is taken as inside it.
DrainCountInclusive ==
  LET w == Waiting
      later == {i \in DOMAIN w : w[i].event.target > sample_counter + SubBlock}
  IN  IF later = {} THEN Len(w) ELSE Min(later) - 1

\* Mutant: an event that is late is left in the queue like an early one.
DrainCountInWindow ==
  LET w == Waiting
      outside == {i \in DOMAIN w : w[i].event.target \notin
                                     sample_counter..(sample_counter + SubBlock - 1)}
  IN  IF outside = {} THEN Len(w) ELSE Min(outside) - 1

DrainCount ==
  LET w == Waiting
      later == {i \in DOMAIN w : w[i].event.target >= sample_counter + SubBlock}
  IN  IF later = {} THEN Len(w) ELSE Min(later) - 1

\* Late events get offset zero.
Offset(e) ==
  IF e.target < sample_counter THEN 0 ELSE Min({e.target - sample_counter, SubBlock - 1})

\* Mutant: the block is prepared after the events were written.
DrainedThenPrepared ==
  [FoldLeft(LAMBDA s, q : Write(s, Offset(q.event), q.event),
            [rows |-> rows, pending |-> pending, dropped |-> dropped],
            SubSeq(Waiting, 1, DrainCount))
    EXCEPT !.rows = [t \in Row |-> <<>>]]

\* Mutant: what was carried over is written after the new events.
DrainedCarryLast ==
  FoldLeft(LAMBDA s, e : Write(s, 0, e),
           FoldLeft(LAMBDA s, q : Write(s, Offset(q.event), q.event),
                    [rows |-> [t \in Row |-> <<>>], pending |-> <<>>, dropped |-> dropped],
                    SubSeq(Waiting, 1, DrainCount)),
           pending)

\* Sub-block boundary: prepare_midi_block, then the drained events one by one.
Drained ==
  FoldLeft(LAMBDA s, q : Write(s, Offset(q.event), q.event), Prepared,
           SubSeq(Waiting, 1, DrainCount))

\* The ticks up to the next boundary or the end of the buffer.
Ticks == Min({until_next, remaining})
NextRow == SubBlock - until_next

\* What these ticks hand to the modules, take_row by take_row.
Taken(table) ==
  FlattenSeq([i \in 1..Ticks |->
    [j \in DOMAIN table[NextRow + i - 1] |->
      [event |-> table[NextRow + i - 1][j], sample |-> sample_counter + NextRow + i - 1]]])

\* The rows they take: at a boundary the drain fills them first.
Scratch ==
  IF until_next = SubBlock THEN Drained
  ELSE [rows |-> rows, pending |-> pending, dropped |-> dropped]
Output == LET s == Scratch IN Taken(s.rows)

\* One turn of fill_buffer's loop: the drain at a boundary, then the ticks.
\* A row that was taken is not read again: it counts as empty.
Chunk ==
  /\ callback = "running" /\ remaining > 0
  /\ LET s == Scratch
     IN  /\ rows' = [t \in Row |-> IF t < NextRow + Ticks THEN <<>> ELSE s.rows[t]]
         /\ pending' = s.pending /\ dropped' = s.dropped
         /\ seen' = seen \cup QueuedIds(Taken(s.rows))
  /\ IF until_next = SubBlock
       THEN LET w == Waiting
                n == DrainCount
            IN  /\ peeked' = SubSeq(w, n + 1, Min({n + 1, Len(w)}))
                /\ queue' = SubSeq(w, n + 2, Len(w))
       ELSE UNCHANGED <<peeked, queue>>
  /\ remaining' = remaining - Ticks
  /\ IF Ticks = until_next
       THEN until_next' = SubBlock /\ sample_counter' = sample_counter + SubBlock
       ELSE until_next' = until_next - Ticks /\ UNCHANGED sample_counter
  /\ UNCHANGED <<now, received, port, queue_dropped, callback, callbacks, playback_time, clock>>

\* AudioClock::publish: the sub-block to drain next, and when this callback began.
EndCallback ==
  /\ callback = "running" /\ remaining = 0
  /\ callback' = "waiting"
  /\ clock' = [count |-> sample_counter, wall |-> playback_time]
  /\ UNCHANGED <<now, received, port, queueVars, callbacks, playback_time, remaining,
                 until_next, sample_counter, scratchVars>>

Handle(p) == Receive(p) \/ ReadClock(p) \/ Push(p)
Callback  == BeginCallback \/ Chunk \/ EndCallback
Next == Time \/ (\E p \in Port : Handle(p)) \/ Callback

Spec == Init /\ [][Next]_vars

-----------------------------------------------------------------------------
(* Properties *)

TypeOK ==
  /\ now \in 0..MaxTime /\ received \in 0..MaxEvents
  /\ \A p \in Port : port[p].pc \in {"idle", "clock", "push"}
  /\ queue \in Seq(Queued) /\ Len(queue) <= QueueSize
  /\ peeked \in Seq(Queued) /\ Len(peeked) <= 1
  /\ callback \in {"waiting", "running"}
  /\ remaining \in 0..Frames /\ until_next \in 1..SubBlock /\ sample_counter \in Nat
  /\ \A t \in Row : rows[t] \in Seq(Event) /\ Len(rows[t]) <= RowSize
  /\ pending \in Seq(Event) /\ Len(pending) <= CarrySize
  /\ queue_dropped \subseteq Message /\ dropped \subseteq Message /\ seen \subseteq Message
  /\ clock \in [count : Nat, wall : 0..MaxTime]

\* Whatever the queue, the look-ahead slot, full rows, the carry-over and
\* callbacks that end inside a sub-block do, a message is in exactly one
\* place: on its way, waiting, seen by the modules, or counted as dropped.
Accounted ==
  \A m \in 1..received :
    Cardinality({p \in Port : Handling(p, m)})
    + Cardinality({x \in {"queue", "peeked", "rows", "pending", "seen", "dropped", "queue_dropped"} :
        CASE x = "queue" -> m \in QueuedIds(queue)
          [] x = "peeked" -> m \in QueuedIds(peeked)
          [] x = "rows" -> m \in InRows
          [] x = "pending" -> m \in Ids(pending)
          [] x = "seen" -> m \in seen
          [] x = "dropped" -> m \in dropped
          [] x = "queue_dropped" -> m \in queue_dropped}) = 1

\* Every queue and row stays within its capacity, and nothing that finds no room goes
\* uncounted.
NothingLost == TypeOK /\ Accounted

\* A module never sees a message while an earlier one of the same port is
\* still to come, unless the clock stepped back between their stamps: neither
\* the spill into later rows nor the carry-over overtakes ("Preserves arrival
\* order").
ToCome ==
  {Waiting[k].event : k \in DOMAIN Waiting} \cup {pending[k] : k \in DOMAIN pending}
  \cup UNION {{rows[t][k] : k \in DOMAIN rows[t]} : t \in Row}
OrderKept ==
  [][seen' # seen =>
       LET out == Output
       IN  \A i \in DOMAIN out : \A e \in ToCome \ {out[k].event : k \in 1..i} :
             /\ e.port = out[i].event.port /\ e.id < out[i].event.id
             /\ e.id \notin dropped'
             => out[i].event.target < e.target]_vars

\* No message is seen before the sample it is stamped for.
NeverEarly ==
  [][seen' # seen =>
       LET out == Output IN \A i \in DOMAIN out : out[i].sample >= out[i].event.target]_vars

\* A sub-block, rounded up to whole callbacks.
DrainSpan == Frames * Min({k \in 1..SubBlock : k * Frames >= SubBlock})

\* "A fixed, bounded latency": a message never waits in the queue for longer
\* than a callback and, on top, the longest of: the callbacks until the next
\* drain, a callback and the lookahead, the start of the stream and the
\* lookahead.  It does not matter what is ahead of it in the queue, how stale
\* the anchor it was stamped by, or how late callbacks start.
LatencyBounded ==
  \A i \in DOMAIN Waiting :
    now - Waiting[i].pushed
      <= Frames + Max({DrainSpan, Frames + Lookahead, StartDelay + Lookahead})
=============================================================================
