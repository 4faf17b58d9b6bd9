# A specification of pentairservice

TLA+ modules, TLC models and TLAPS proofs for the service in this repository: a
Rust program that owns the link to a pool controller, frames and decodes what it
hears there, serves the result over HTTP and, when writes are enabled, transmits
commands. Line numbers refer to the sources under `src/` of the repository.

## 1. Inventory

| Part | State | Operations | Hard behaviour |
|---|---|---|---|
| bus Actor, `transport/actor.rs` | position in two nested loops, reconnect counter, framer, transport | open, session loop (drain writes, biased select of shutdown / write / read), close, backoff | everything it awaits can be overtaken by the others; reconnects in the middle of frames; deaf while the frame channel is full |
| write gate, `write.rs` | a mutex whose guard lives in the handler's future, one reply channel per call | `circuit_change`, `heat_change`, `raw_hex`, `execute` | client disconnects at every await; requests that outlive their client; outages; early returns |
| channels | mpsc(8) of requests, oneshot replies, mpsc(256) of frames, watch for shutdown | send, recv, try_recv, drop of an end | full, closed, sender gone |
| decode drain and state, `state.rs` | ring, two status snapshots, counters behind an RwLock | recv, append to journal, decode, apply | a frame is in the journal and not yet in the state; the ring overflows; the Actor stops first |
| service assembly, `lib.rs` | which parts exist | `run`, `spawn_bus_if_configured` | no transport; failed bind after the Actor was spawned |
| framer, `framer.rs` | reassembly buffer | `feed`, `reset` | arbitrary cuts between reads, lost and corrupt bytes, two frame formats in one stream |
| journal, `journal.rs` | the file, the append handle, a counter | `open`, `append_record`, vacuum, `read_all` | crash or error between two writes, during the rewrite, before the reopen |
| backoff, `transport/backoff.rs` | attempt counter | `next_delay`, `reset` | cap, jitter, saturation |
| registry and parsers, `registry.rs`, `messages.rs` | none | command byte to parser to message | bad checksums are quarantined |
| command builders, `commands.rs` | none | typed command to A5 frame | ranges, checksums |
| HTTP, `api/*.rs` | none of its own | `POST /command`, `GET /status /frames /health` | the future of a handler may be dropped; a limit out of range |
| transports, `transport/{mod,tcp,serial,replay}.rs` | a connection, or a recording with a position, a count of reads and an injected disconnect | open, read, write, close | what survives a close and an open; a failed write that ends no session; a URL split at the wrong mark |
| configuration, `config.rs` | none after start | defaults, file, environment | eight keys with a rule each for empty, blank and malformed values |
| logging, `logging.rs` | the subscriber of `tracing` | `init` | none |

How they interact: an HTTP handler takes the gate's mutex, sends its bytes and a
oneshot sender to the Actor and awaits the reply. The Actor is the only task that
touches the transport. It sends every frame to the drain, which appends it to the
journal, decodes it and applies it to the state that the other handlers read. `run`
owns the shutdown sender.

What makes it correct: writes reach the bus once, in the order in which they were
admitted, and each client is told the truth; nobody waits for ever and the gate is
always given back; every message that was received whole is applied once, in order,
and never mixed with bytes of another connection; HTTP shows the latest good
messages; the journal can be read back after crashes; reconnects respect their
limit and their delay; shutdown is always seen; the Actor uses the connection it
opened and no other; a recording is played whole; what the installation says last is
what is built, and nothing is sent to a bus that was not named.

`PROJECT.json` lists the hazards by line and the property that covers each.

## 2. Modules

```
BusChannels        the channels between the tasks
  WriteGate        calls of POST /command through the gate
  BusActor         the Actor's task
  DecodeDrain      the drain's task, BusState, GET /status and GET /frames
    PentairService   the three composed with `run`; all properties
      MCPentairService              constants for TLC
      PentairServiceProofs          proof: types, reconnect limit and backoff, whole
                                    frames, nothing lost, the view, refinement of
                                    BusFeed
        PentairServiceWrites        proof: the write path, refinement of CommandBus
ByteTransport      TCP, serial and replay: open, read, write, close
  TransportService   PentairService with the transport its Actor owns
    MCTransportService              constants for TLC
    TransportServiceConnections     proof: refinement of PentairService, connections,
                                    recordings (on PentairServiceProofs)
CommandBus         abstract: what a client of POST /command may rely on
BusFeed            abstract: what readers of the journal and of GET /status may rely on
Framer, MCFramer   the byte-level framer
  FramerProofs     proof: Framer
ListenWindow       the verdict after a write
Backoff            delays
Messages           a report on the bus, through framer and registry, to a message
  CommandRequests    the body of POST /command, through dispatch, to a frame
    MessagesProofs     proof: both, on FramerProofs
TransportUrl       the text of transport_url to an endpoint
  Startup, MCStartup  settings, and what `run` builds of them, to the first command
  HexFixture         the text of a recording to its bytes
MCAlgorithms       the seven groups above, one per behaviour
AlgorithmsProofs   proof: Backoff, ListenWindow, Startup, HexFixture
Journal            the journal's file
  JournalProofs    proof: types, size, what can be read back, vacuum, losses
InductionFacts     induction over the numbers, recursive functions, flattened sequences
```

### The composed service

`phase` in `BusActor` is the await, or loop head, at which the Actor's task stands:
`top` (170), `opening` (176), `head` (278), `drain` (284), `select` (290), `writing`
(285 or 300), `sending` (325), `ending` (210), `backoff` (352), `sleeping` and
`slept` (361), `final` (237), `stopped`. A step runs from one await to the next, as
a tokio task does, and any other task may run in between. `afterWrite` remembers
which of the two places took the request.

`call[c]` in `WriteGate` is how far the handler of one HTTP request has come: `new`,
`gated` (has the mutex, wants to send), `awaiting` (the request is the Actor's),
`listening` (the write succeeded), or its outcome. `lock` is the mutex. `Cancel` is
the client's disconnect, possible at every await: it drops the future, and the guard
with it, and leaves the request where it is. `ticket` is history: the order in which
calls took the mutex. `mode` is what `WriteGate::new` was given, one of `Modes`, and
`Transports` says whether an Actor is spawned at all: `run` fixes both when it starts,
so they are chosen by `Init` and one run covers every configuration.

`DecodeDrain` has the frame the drain has journalled and not yet applied in `held`,
because it awaits the state lock there (`state.rs` 219).

The wire is a sequence of messages in two pieces. A read returns some consecutive
pieces, what passes while no connection is open is never seen, and the framer keeps
an unfinished first half. That is enough to lose the end of one message and the
beginning of another and to tell whether the framer joins them. That the framer
may be treated in this way is what `Framer` checks at the level of bytes: its
result does not depend on how the bytes are cut into reads, and it gives whole
frames.

Dropped ends are explicit. `ChannelEnds` in `dropped`: an Actor that stops drops the
request receiver with what is in it, and the replies in it become `dropped`; it drops
the frame sender, and the drain ends when the channel is empty.

`BusFeed` says what is left of all this for a reader: the bus says frames, each is
put on record or known to be missing, in order and before it is shown. Its counters
map to variables of the code (`seen` to `frames_seen`, `logged` to that and the frame
in `held`); only `sent` maps to a history variable. Like `CommandBus` it states
safety: what must happen is stated of the service itself.

### The service with its transport

`BusActor` leaves open whether an open succeeds, whether a read ends and how, and
whether a write succeeds. `ByteTransport` has the three strategies that answer: a TCP
or serial stream that is there or not (`opened`), and a replay with a recording
(`loaded`), a position, a count of the reads that gave data and an injected
disconnect. What survives which call is the point: `close` keeps the position, `open`
rewinds it only if `rewind_on_open`, the disconnect fires once, a replay's `write`
does not look at `opened`.

`TransportService` joins the two: a step of the Actor that awaits a method of the
transport is one step with that method (`CallsOpen`, `CallsClose`, `CallsRead`,
`CallsWrite`), and every other step leaves the transport alone. So each of its steps
is one of `PentairService`, which is proved, and what is proved there holds here. For
a replay the wire of `BusActor` is the recording a number of times: a rewind goes to
the start of the next copy (`NextCopy`), and an open that finds no copy left is cut
off by a bound, named in `WireAt`.

### From settings to the first command

`Startup` follows `main`, `Config::load` and `run`: the layers for each key, with the
rules of each setter (`Set`) and of each environment variable (`EnvSays`), then the
socket address, the journal, the gate with its channel, the Actor, the listener, in
the order of the code, each with what a failure leaves behind. It ends with the
answer to a first `POST /command`. `TransportUrl` is `TransportEndpoint::parse`, on
texts whose marks and runs of digits are tokens; `Spells` says independently of it how
an endpoint may be written: a grammar puts texts together and searches for no mark,
the parser takes them apart at the first or the last. `SpellingsAssumption` of
`MCStartup` checks the grammar against the forms that the documentation names.
`HexFixture` is `parse_hex_bytes`, on characters.

### The parts on their own

`Framer` is `framer.rs` byte by byte, with real checksums, fed the streams of
`MCFramer` in all cuts, and reset at any byte. `ListenWindow` is `classify_listen`
and its three callers. `Backoff` is the arithmetic of the delay, driven as the Actor
drives it. `Turn` of `Framer` is one turn of the loop in `drain`, `Drain` a recursive
function that takes as many turns as there are bytes: every turn but the last takes a
byte off the buffer at least, and a turn that ends the loop changes nothing when it
is taken again (both are proved).

`Messages` follows a report of the panel from the bus to the message that the state
keeps: the framer of `Framer` finds the frame, `find_a5_index` its A5, the registry the
parser, and each field is read at its distance from the A5. `CommandRequests` follows
the body of a POST through `dispatch`, the resolution of circuit and state, and the
builders. Both use real bytes and checksums, since what can go wrong is a payload that
looks like the start of a frame. What was built is framed and decoded by the same
operators that decode what is heard.

`Journal` keeps the file as cells: three cells of text and a newline make
a record's line, enough to say where a write was cut and what `parse_line` makes of
a joined line. `writeln!` makes two writes when its format has an argument and one
when it has none; so does the model.

## 3. Runs

| Run | Question | Bounds |
|---|---|---|
| `writes` | order, truth of answers, nobody orphaned, the inductive invariant, and that the service implements `CommandBus` | 3 calls, request channel of 2, cancels, failed writes, reconnects, shutdown, sender dropped; every `mode`, with and without a transport |
| `writes_live` | every waiting call is answered, the gate is freed | 2 calls, channel of 1; every `mode`, with and without a transport, sender may be dropped |
| `frames` | whole frames only, nothing lost, GET /status and GET /frames are history, the frame path implements `BusFeed`; shutdown stops the Actor, every frame is applied, the backoff is slept out | 5 messages, one corrupt and one of an unknown kind, reads of up to 4 pieces, frame channel of 2, ring of 2 |
| `together` | types, the reconnect limit, one connection at a time, a recording is played whole and comes to its end | 1 call, TCP or replay; a recording of 2 messages in 4 pieces, read by 3, twice; with and without rewind; a disconnect after 1 or 2 reads or never; limit of 1, no reconnect at the end, failing journal, receiver that dies; 4 pieces on a live bus |
| `journal_vacuum` | what can be read back, what may be lost, how large the file gets | 6 appends, 3 faults, vacuum every 2 |
| `algorithms` | the parts that share no state, one per behaviour; below | |

What `algorithms` asks of each part:

| Part | Question | Bounds |
|---|---|---|
| `Backoff` | the delay before jitter is a function of the failures and capped, jitter adds its share and no more, and it is never a tight loop | 146 configurations, saturation at 8 |
| `ListenWindow` | the verdict on heard frames is the documented one | all sequences of 3 bus frames, both opcodes, the three callers |
| `Messages` | a whole status report is decoded to what was sent | payloads of 8 lengths around the 6 and 19 bytes that the parsers need, filled from 50 cycles of the delimiter bytes 0, 2, 16, 165 and 255, both preambles |
| `CommandRequests` | a typed request becomes one good frame that says what was meant, or an error if it means nothing | every optional field absent or present; names, decimal texts, numbers up to 256 |
| `Framer` | independence of the cuts, completeness, resynchronisation, bounded buffer | 21 streams of two to four pieces, cut in every way, one reset at any byte |
| `Startup` | the last layer decides, the process ends only for cause, a command is sent where the last word says or nowhere | 2120 installations: each key in each layer with each kind of value, every documented spelling of 11 endpoints, 6 that are accepted besides and 11 bad URLs, all combinations of URL, writes, journal, port, and which file is read |
| `HexFixture` | a dump is the bytes that were dumped | 306 recordings of 1 or 2 lines: addresses in two forms, comments in three, blank lines, digits apart or together |

These runs find a disagreement between the code and what the repository says of it
(the findings in `PROJECT.json` quote the lines):

| Run | Disagreement |
|---|---|
| `backlog` | "at most one write in flight ... not queued": an abandoned request stays queued and the next call is admitted |
| `journal_tear` | "skips comments / bad lines": two joined lines are read as one record that nobody appended |
| `journal_reopen` | "durable": after a failed reopen records go to an unlinked file |
| `plays_once` | "Plays a recorded hex file once": `open` rewinds and the Actor reconnects at the end, so the recording starts over after each backoff |
| `listen_live` | the frames that follow a live TX are not classified, the verdict is always `timeout` |
| `short_status` | "short frames" are `Unknown`: a parser is bounded by the frame and not by the length byte, so a temperature report of 4 or 5 bytes, or a system report of 17 or 18, is shown with its checksum as the last values |

Others were met and have no run. `shutdown.changed()` (`actor.rs` 362) is ready at
once when the sender has been dropped, so the Actor then reconnects without sleeping,
against "Sleeps backoff delay unless shutdown is signaled" (347): `run` drops the
sender when the bind fails, and `SleepsUnlessSignalled` is stated and proved for
`SenderMayDrop = FALSE`. And the jitter is added after the cap (`backoff.rs` 94, 118):
a delay reaches 37.5 s with the default maximum of 30 s, the "Upper bound on delay" of
line 13; `FollowsFailures` caps the delay before jitter and bounds what jitter adds.
The shortest IntelliChlor frame that is accepted has seven bytes, where the
comment at `framer.rs` 163 says "minimum 6 bytes". And "builds and checksum-verifies
TX hex" (README.md 218) is not what `raw_hex` (`write.rs` 202) does: it looks at the
command byte alone, and a frame with a wrong checksum goes to the bus as it came.

At the edges, stated here and in no property: the 503 of `write.rs` 76 cannot be
reached through `run`, where writes without a transport have a handle whose receiver
was dropped and are answered with 502. When the port is in use the journal has been
opened and the Actor spawned before the process ends (`lib.rs` 137). A device path
that ends in a comma and digits is read as path and baud rate. A recording in which no
line has a byte is taken again as a whole, so a comment's hex letters become its data
(`replay.rs` 28), and an address line without a byte behind it is taken for data (41).

Why these bounds suffice. Every capacity is reached and exceeded: three calls meet a
request channel of two with one more in the Actor's hands, four messages fill a
frame channel of two and roll a ring of two over, six records make three vacuums,
two of which trim. Three calls are the least with which one abandoned request can
stand between two others. The order and exactly-once properties compare pairs of
calls, and the proofs below remove the bound altogether. Two pieces to a message are
the least that can be cut, and reads of three pieces fall across the end of the first
message and then short of the end of the recording. Two copies of the recording are
what a limit of one reconnect can play. `CounterCap` saturates `reconnects`, which
only matters against `MaxReconnects` and lies above it. In `Framer` IC_MAX_FRAME is 20
in place of 64, so that short streams run into it; nothing else depends on its value.
TLC uses the symmetry of calls in `writes`, which states no liveness.

`CHECK_DEADLOCK FALSE` stands where the system may end: all calls are answered and
the Actor has stopped, no bytes, record or fault is left, the window is over, the
first command is answered. That nobody waits there is stated by `NoOrphanedWait` and by the liveness properties.

### Fairness

`FairSpec`, and `ServiceFairSpec` in the same way, assumes weak fairness of the Actor's step, the drain's step and each
call's step. They are tasks of one tokio runtime, which polls a task that has been
woken. An I/O call that has begun is assumed to complete in some way: `open` and
`write` may fail but do not hang (TCP and serial writes of a dozen bytes), timers
fire. Nothing is assumed of the outside: an `open` need never succeed, a `read` need
never return (it is not part of the fair step), no client need come, stay or leave,
no shutdown need be signalled. Where a property needs more, it says so as a premise:
`Answered` and `GateFreed` hold if the Actor is in a session again and again or has
stopped, because a request made during an outage waits as long as the outage.

`ServiceFairSpec` adds one thing: a replay has its answer ready when it is read
(`replay.rs` 184 awaits nothing), so its read is fair. `PlayedOut` rests on it.

## 4. Proofs

TLAPS proves these for all values of the constants that the named assumptions of the
modules allow: any set of calls, any capacities, any stream.

* `TypeCorrect`: `TypeOK` is inductive. Each task's step is shown to keep the types of
  its own variables and of the channels.
* `WritesCorrect` and its corollaries. `FifoOnce` alone is not inductive: that a
  request enters the line behind all others needs to know that its ticket is the
  newest. `WriteInv` has what is needed: the mutex is held by exactly the call in
  flight (`GateExclusive`); tickets are handed out under it and the holder has the
  newest (`TicketsIssued`); a call that has not sent yet is newer than everything in
  line (`GatedIsNewest`); a request in line has no reply yet and its call waits or is
  gone (`BacklogUnanswered`); a reply tells what happened (`RepliesTrue`), an outcome
  tells what the reply said (`AnswersMatch`); who waits without a reply has a request
  in line (`AwaitedIsThere`). One lemma per action shows each part; the line
  (written, in hand, queued) is treated as one sequence that actions extend at the
  end, move within, or cut off.
* `OneOwner` and `StopOrphansNobody` follow from it without another induction.
* `ServiceImplementsCommandBus`: under the mapping `bus <- txLog`, `answer <-
  ClientAnswer(call)` the initial states correspond and every step is a write, an
  answer or a stutter of `CommandBus`. Its guards (a success was written, a refused
  command never is) are what `WriteInv` provides.
* `ReconnectsBounded`: the limit, strengthened by where the Actor is when it gives up.
* `BackoffSleptOut`: under the assumption that the shutdown sender is not dropped,
  which it needs (see the end of section 3).
* `FramesArrive`: sent frames are the applied ones, the one held and those queued.
* `ServiceImplementsBusFeed`: with that, and `frames_seen` counting the applied frames,
  the frame the drain receives is the first that is not on record, and each step is a
  `Hear`, a `Record`, a `Show` or a stutter of `BusFeed`, with or without a journal and
  whichever appends fail. It assumes that nobody else owns the receiver
  (`~ReceiverMayDie`), as in the service.
* `FramesAreWhole`: every frame sent on is a message whose pieces were read on one
  connection. `WholeFramesOnly` is stated so that it is inductive: besides the frames
  it says where the framer stands between two messages (`FramerAligned`) and that the
  frames come in the order of the wire (`CutInOrder`). A read of several pieces is
  followed through the framer's fold.
* `ViewShowsHistory`: the snapshots, the counters and the ring are functions of the
  frames applied. `ViewInv` says of each what it is after n of them; that the ring
  holds distinct frames, newest first, needs the order that `WholeFramesOnly` and
  `NothingLost` give.
* `ServiceImplementsSpec`: every step of `TransportService` is one of `PentairService`,
  so all of the above holds of the service with any of its transports.
* `ServiceTypeCorrect`: the transport keeps its types too; a recording is never read
  past its end.
* `OneConnection`: which phases hold a connection, shown by one case per kind of call.
* `RecordingPlayedWhole`: `PlayedWhole` speaks of the end of a replay only. `PlayInv`
  says how far it has come. With a rewind, a session plays a copy of the recording from
  its start (`PlaysCopy`). Without one, the position is that of the wire, until the
  injected disconnect there is one connection, and at any time at most one message is
  missing from what was sent (`PlaysOn`). A session that ends at the end has read to
  the last piece (`EndsAtEnd`).

The journal, for any `max_bytes`, any interval between vacuums, any number of records
and faults:

* `JournalTyped`: which steps may stand where, and the counter since the last vacuum.
* `FileStaysBounded`: `FileBounded` is inductive because it counts what is due at each
  step (`Overdue`): the records since the last vacuum, half a record in the middle of an
  append, nothing while the file is closed; each fault may put off one vacuum.
* `JournalReadsBack`: `CleanReadBack` holds at every step, in the middle of an append
  and of a vacuum too. `WholeLines` makes it inductive: the cells of the file are a
  header and whole lines, so that `read_all`, a fold over the cells, reads a line more
  for a line more.
* `VacuumDropsOldest`: an action property, from the same invariant.
* `LossStaysBounded`: `LossBounded` counts acknowledged records that cannot be read, in
  files with cut lines, of which `CleanReadBack` says nothing. The bound itself is not
  inductive; `LossInv` says where the records are. A record that is owed an
  acknowledgement, or has it, and is in the file has its whole line there (`WholeIn`).
  Such a line is read unless it runs into another (`LineIsRead`), and every line that
  does, with the one at the end that waits to, was cut short once (`TearsCounted`).
  What is not in the file went to one without a name, and each fault allows for as many as are written
  until the next vacuum is due: with those that may follow (`Exposed`), they are
  counted in `OrphansCounted`. A vacuum cuts after a newline (`TrimCuts`), so it splits
  no line; and records rise along the file (`Rising`), so what it drops is older than
  what it keeps.

The parts on their own:

* `DelayFollowsFailures`, `DelaysAreNoLoop`: before jitter the delay is
  `initial * multiplier^n` capped at `max`, although the code stops multiplying at the
  cap and its counter saturates (`CapLater`, by induction on the failures).
  `SaturationAssumption`: where the counter saturates, one multiplication more changes
  nothing, as at u32's bound. What is slept differs from that by the jitter: it is at
  most `jitter_pct` hundredths above, or one millisecond (`JitterAddsShare`), so it may
  exceed `max`; and it is not below half of the lesser of `initial` and `max`, if the
  jitter is at most a half and there are two milliseconds to halve.
* `VerdictAsDocumented`: the fold of `classify_listen` against the statement about sets
  of frames, by induction on the frames heard.
* `ConfiguredAsSaid`, `ExitsForCause`: `StartupInv` says what each stage has built; the
  lemmas show that the merge of the three layers is the last word (`BuiltAsLastSaid`)
  for any file and environment of the shape that `InstallationsAssumption` names.
* `WritesOnlyIfTold` proves `SentWhereTold`. From `StartupInv` the Actor's endpoint is
  what the last word on `transport_url` parses to (`SentAsSaid`). `UrlParsed` adds that
  `ParseUrl` accepts just the texts that `Spells` allows and gives the endpoint that is
  spelled, so no text spells two. It rests on two facts about texts: a text is what
  stands before a mark, the mark and what stands behind it (`Parted`), and a text that
  was put together so comes apart at the same place (`PutTogether`). What is left for
  each form is that the mark is the first, or the last, of its kind: the bracket because
  a host in brackets has none, the colon because a port has none, the question mark
  because a path has none, the comma because a baud rate has none.
* `RecordingIsDump`: the digits of a text are kept one character after the other
  (`DigitsOf`), so those of a joined text are those of its parts (`DigitsOfJoin`), and
  the digits of a line's bytes are the bytes (`BodyIs`). The address in front is taken
  off whole, since its colon is the first, or the blank behind it the first after the
  angle bracket (`ColonLine`, `AngleLine`); blank lines and comments give nothing
  (`RemarkHasNone`). That the fallback for a text without bytes is not taken is the
  property's own premise.
* `FramesWhateverTheReads`, `LittleIsKept`, `FramerTyped`: for any stream of bytes,
  any cuts and resets. The argument has three layers. A sync that
  was found stays the first when bytes are added, and so does what is taken at it
  (`MoreKeepsSync`, `MoreKeepsTaken`). So a turn of the loop with more bytes behind the
  buffer is the turn without them, except where a tail was kept: there the next turn
  is the same (`TurnWithMore`). By
  induction along the turns, draining before more bytes come and after gives the same
  (`FinalWithMore`, `DrainInTwo`). The invariant `Fed` is `ChunkingIrrelevant` with the
  types. This is what allows `BusActor` to treat a read as pieces of messages.
* `EveryWholeFrameGiven` proves `WholeFramesGiven`: for any number of frames with any
  payloads and checksums, and idle bytes between them. Because of the invariant above
  it is enough to drain the whole of what a connection brought at once, and then one
  piece of the plan at a time: quiet bytes are skipped, a frame behind them is taken
  whole, with its verdict, and what follows is drained as if it came alone
  (`QuietGiven`, `WholeGiven`, `GivenAfter`). A connection that begins inside a piece
  finds no sync in the rest of it (`IsPlain`), or one that straddles into the next.
* `ACutCostsItsHorizon` proves `Resynchronises`. What a cut frame opens is taken at the
  length it announces, or at `IC_MAX_FRAME` (`CutLeft`, `BehindCut`); from the first
  piece behind that horizon the argument is the one above.
* `ReportsDecoded` proves `DecodedAsSent`: what the builder lays out, byte by byte, is a
  frame with a good checksum (the sum is a fold; `SumIs`); idle bytes without a sync do
  not hide it, and one more `FF` is left in front when they end in one and the preamble
  is short; `find_a5_index` then finds the A5 of the frame and no byte before it; each
  field stands at its distance from there, for payloads of any length up to 255.
* `RequestsSent` proves `SentIsMeant`: circuit and state resolve to what the body means,
  or the request is refused, which happens only if it means nothing or a value is out of
  range; the frame that was built is decoded to the same values by the argument above.

Induction. `InductionFacts` derives from the library's well-foundedness of the numbers a
form of induction that speaks of a set of numbers (`SetInduction`) and the existence of
recursive functions over an interval (`IterationExists`). With these the folds and
recursive functions of the models are reasoned about.

Assumptions. Each is named where the constants are declared, and every run evaluates
those of its modules. Capacities are positive; the recording has messages of the wire's
kinds. The others say what the inputs look like. `PlanAssumption`: the pieces of a bus
are A5 frames whose length byte is true, IntelliChlor frames with no ETX before their
end, or bytes that show no sync, which is what the framer can be asked to find; noise
does not end in an `FF` that the frame behind it could be taken to begin with; a cut piece
is any bytes. `ReportAssumption`: a payload has the 255 bytes at most that a length byte
can say, idle bytes hold no sync. `BodiesAssumption`: a body has the types that serde
admits. `InstallationsAssumption`: a file says one thing of a key. `EndpointsAssumption`:
the endpoints are ones that `ParseUrl` can build, with hosts and paths that are texts.
`DumpsAssumption`: each line of a dump is an address, if any, and at least one byte, or
begins as a comment, or is blank; it is what the fixtures look like, and `replay.rs`
reads other files too.

Only model-checked:

* Liveness, since the prover has no fairness: `Answered`, `GateFreed`, `PlayedOut` and the
  others of section 3. Every invariant and every other action property of the passing
  runs is proved.
* What the six runs of section 3 find violated.

## 5. Not modelled

* Counters that nothing reads (connects, frames, bytes, `connected`), log lines, the
  JSON of the responses.
* A request channel whose senders are all gone: the select would spin (299), but the
  router keeps a sender as long as it serves.
* The end of the process, after it has served. Frames that wait for the drain then are lost: `run` joins
  the Actor and not the drain (`lib.rs` 144). `axum::serve` is not given a shutdown
  future, so the `SignalShutdown` of the model happens only if it fails.
* A crash of the machine: the journal is flushed and not synced. Changes to its file by
  others.
* tokio's cooperative budget; poisoned locks.
* What is below a transport's methods: sockets, devices, the serial set-up. An `open` or a `write` that never returns: the Actor
  awaits both outside its select (`actor.rs` 175), and then neither shutdown nor a
  command gets through; the fairness above excludes it.
* TOML's own syntax: a file is well typed or is not. Host names, socket addresses and
  decimal numbers are taken from small sets of texts.
* `vacuum_now`, `execute_with_listen_bytes` (but for its verdict) and `pack_heat_mode`,
  which only tests call.
* The header bytes of a message other than its command, the names of the circuit bits
  and the hexadecimal text of a frame.

## 6. Plan

1. `dispatch` composed with `WriteGate`, so that a request refused by a builder never
   takes the mutex.
2. More of the byte level: reports of two panels interleaved with noise, through
   `Messages` into the view of `DecodeDrain`. The proofs about `Framer` are stated so
   that they can be cited there.
3. Raw hex with its bytes, to say what `raw_hex` lets through.
