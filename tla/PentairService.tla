--------------------------- MODULE PentairService ---------------------------
(***************************************************************************)
(* lib.rs `run`: the write gate, the bus Actor and the decode drain        *)
(* composed over their channels, and the shutdown watch that `run` owns.   *)
(* Each task's action changes its own variables and the channels, and      *)
(* leaves the variables of the other tasks alone.                          *)
(***************************************************************************)
EXTENDS WriteGate, BusActor, DecodeDrain

CONSTANT SenderMayDrop   \* `run` may return before it has signalled

ASSUME ServiceAssumption == SenderMayDrop \in BOOLEAN

vars == <<channelVars, gateVars, actorVars, drainVars>>

Init == /\ \E actorExists \in Transports :
             ChannelsInit(actorExists) /\ ActorInit(actorExists)
        /\ GateInit /\ DrainInit

(* axum::serve returned: shutdown_tx.send(true). *)
SignalShutdown ==
  /\ shutdown = "running"
  /\ shutdown' = "signalled"
  /\ UNCHANGED <<writeQ, reply, frameQ, dropped>>

(* TcpListener::bind failed: `?` leaves `run` and drops the sender. *)
DropSender ==
  /\ SenderMayDrop
  /\ shutdown = "running"
  /\ shutdown' = "dropped"
  /\ UNCHANGED <<writeQ, reply, frameQ, dropped>>

RunNext == SignalShutdown \/ DropSender

Next ==
  \/ RunNext   /\ UNCHANGED <<gateVars, actorVars, drainVars>>
  \/ GateNext  /\ UNCHANGED <<actorVars, drainVars>>
  \/ ActorNext /\ UNCHANGED <<gateVars, drainVars>>
  \/ DrainNext /\ UNCHANGED <<gateVars, actorVars>>

Spec == Init /\ [][Next]_vars

(* The runtime polls a task that can run, an I/O call completes in some way  *)
(* (open and write may fail), timers fire.  Nothing promises that an open    *)
(* succeeds, that a read ever returns or that a client waits.                *)
Fairness ==
  /\ WF_vars(ActorStep /\ UNCHANGED <<gateVars, drainVars>>)
  /\ WF_vars(DrainStep /\ UNCHANGED <<gateVars, actorVars>>)
  /\ \A c \in Calls : WF_vars(CallStep(c) /\ UNCHANGED <<actorVars, drainVars>>)

FairSpec == Spec /\ Fairness
-----------------------------------------------------------------------------
(* The type invariant of the composition, by module. *)
TypeOK == ChannelTypes /\ GateTypes /\ ActorTypes /\ DrainTypes
-----------------------------------------------------------------------------
(* Writes. *)

Transmitted == [i \in DOMAIN txLog |-> txLog[i].call]
InHand      == IF phase = "writing" THEN <<current>> ELSE <<>>
Backlog     == InHand \o writeQ
Line        == Transmitted \o Backlog
On(s)       == {s[i] : i \in DOMAIN s}

(* write.rs takes the mutex before it sends, the channel and the Actor keep   *)
(* their order, and nothing retries: what was and will be written to the bus  *)
(* is in the order in which the calls took the gate, and no request is there  *)
(* twice, whoever is cancelled in between and however often the Actor         *)
(* reconnects.                                                                *)
FifoOnce == \A i, j \in 1..Len(Line) :
              i < j => ticket[Line[i]] < ticket[Line[j]]

(* A call that reports success (write.rs execute returned Ok on the live      *)
(* path, or is about to) had all its bytes written: not only queued, and not  *)
(* another call's.                                                            *)
SuccessIsOnTheWire ==
  \A c \in Calls : call[c] \in {"listening", "sent"} =>
    \E i \in DOMAIN txLog : txLog[i] = [call |-> c, ok |-> TRUE]

(* A call refused (400, 409, dry run, no handle) or failed because the Actor  *)
(* is gone was never written and never will be: repeating it cannot switch a  *)
(* circuit twice.                                                             *)
RefusedIsNeverSent == \A c \in Calls : call[c] \in Refusals => c \notin On(Line)

(* Of the requests that wait for the Actor or are in its hands only one has   *)
(* an owner still waiting: the call that holds the mutex.  All others were    *)
(* abandoned by their client.                                                 *)
OneOwnedRequest ==
  \A c \in On(Backlog) : call[c] = "gone" \/ (lock = c /\ call[c] = "awaiting")

(* Once the Actor has stopped nothing is left behind in its channel and no    *)
(* live call waits for an answer that cannot come.                            *)
NoOrphanedWait ==
  phase = "stopped" =>
    /\ Backlog = <<>>
    /\ \A c \in Calls : call[c] = "awaiting" => reply[c] # "pending"

(* Why the write properties hold, as an inductive invariant: tickets are *)
(* handed out under the mutex, a gated call has the newest one and is not in  *)
(* line yet; a request in the backlog has no reply; a reply tells what        *)
(* happened to the request, and a call that has ended tells what the reply    *)
(* said.                                                                      *)
GateExclusive == \A c \in Calls : call[c] \in InFlight <=> lock = c

TicketsIssued ==
  /\ \A c \in Calls : /\ ticket[c] <= tickets
                      /\ ticket[c] = 0 <=> call[c] \in {"new", "badCommand", "busy"}
  /\ lock # NoCall => ticket[lock] = tickets
  /\ \A i \in 1..Len(Line) : ticket[Line[i]] > 0

GatedIsNewest ==
  \A c \in Calls : call[c] = "gated" =>
    \A i \in 1..Len(Line) : ticket[Line[i]] < ticket[c]

BacklogUnanswered ==
  \A c \in On(Backlog) : reply[c] = "pending" /\ call[c] \in {"awaiting", "gone"}

Wrote(c, ok) == \E i \in DOMAIN txLog : txLog[i] = [call |-> c, ok |-> ok]

RepliesTrue ==
  \A c \in Calls : /\ call[c] \in {"new", "gated"} => reply[c] = "pending"
                   /\ reply[c] = "ok" => Wrote(c, TRUE)
                   /\ reply[c] = "err" => Wrote(c, FALSE)
                   /\ reply[c] = "dropped" => c \notin On(Line)

AnswersMatch ==
  \A c \in Calls : /\ call[c] \in {"listening", "sent"} => reply[c] = "ok"
                   /\ call[c] = "ioError" => reply[c] = "err"
                   /\ call[c] = "dropped" => reply[c] = "dropped"

(* A call that waits is waiting for a request the Actor still has, and the     *)
(* Actor takes nothing with it when it stops.                                  *)
AwaitedIsThere ==
  /\ \A c \in Calls : call[c] = "awaiting" /\ reply[c] = "pending"
                      => c \in On(Backlog)
  /\ phase = "stopped" => writeQ = <<>> /\ "writeRx" \in dropped

WriteInv ==
  /\ GateExclusive /\ TicketsIssued /\ FifoOnce /\ GatedIsNewest
  /\ BacklogUnanswered /\ RepliesTrue /\ AnswersMatch /\ RefusedIsNeverSent
  /\ AwaitedIsThere

(* write.rs:5-7 and README.md "Write mutex": at most one write is in flight,  *)
(* a second is rejected and not queued.  In flight is what the Actor has been *)
(* sent and has not finished writing.                                         *)
OneInFlight == Len(Backlog) <= 1

(* The service implements CommandBus: the answer a client gets is a true and  *)
(* final statement about the bus.                                             *)
ClientAnswer(s) ==
  CASE s \in Refusals  -> "refused"
    [] s = "ioError"   -> "ioError"
    [] s = "sent"      -> "success"
    [] s = "gone"      -> "abandoned"
    [] OTHER           -> "none"

Commands == INSTANCE CommandBus
              WITH bus <- txLog, answer <- [c \in Calls |-> ClientAnswer(call[c])]

ImplementsCommandBus == Commands!Spec
-----------------------------------------------------------------------------
(* Frames. *)

Messages(s) == [i \in DOMAIN s |-> MessageOf(s[i])]

(* The framer holds the first half that the wire has just given within this   *)
(* connection, or nothing.                                                    *)
FramerAligned ==
  /\ sessionFrom <= rxPos
  /\ partial = IF sessionFrom < rxPos /\ rxPos % 2 = 0 THEN rxPos - 1 ELSE 0

(* What it gave is cut at message boundaries, from the wire already read, in  *)
(* the order of the wire.                                                     *)
Produced == emitted \o outbox

CutInOrder ==
  /\ \A i \in 1..Len(Produced) : /\ Produced[i].head % 2 = 1
                                /\ Produced[i].tail = Produced[i].head + 1
                                /\ Produced[i].tail < rxPos
  /\ \A i, j \in 1..Len(Produced) : i < j => Produced[i].head < Produced[j].head

(* The framer's buffer never joins bytes of two connections (Framer::reset    *)
(* in actor.rs): the frames sent to the drain, and those about to be, are     *)
(* exactly the messages received entirely within one connection, in order.    *)
WholeFramesOnly ==
  /\ FramerAligned /\ CutInOrder
  /\ ("frameRx" \notin dropped) => Messages(Produced) = whole

(* Between the framer and the HTTP snapshot no frame is lost, repeated or     *)
(* reordered, however full the channel gets and whenever the Actor stops.  If *)
(* the owner of the receiver drops it, what had arrived is the beginning of   *)
(* what was sent.                                                             *)
Arrived == applied \o held \o frameQ

ArrivedIsPrefix ==
  /\ Len(Arrived) <= Len(emitted)
  /\ \A i \in 1..Len(Arrived) : Arrived[i] = emitted[i]
  /\ "frameRx" \notin dropped => Arrived = emitted

NothingLost == ArrivedIsPrefix /\ (ReceiverMayDie \/ emitted = Arrived)

(* The service implements BusFeed: the drain journals each frame before it    *)
(* shows it, passes none over whether the append succeeds or fails, and what   *)
(* GET /status counts is never ahead of the journal.                           *)
Reader == INSTANCE BusFeed
            WITH sent <- emitted, log <- journal, missed <- missed,
                 logged <- framesSeen + Len(held), seen <- framesSeen,
                 MayMiss <- ~JournalOn \/ JournalMayFail

ImplementsBusFeed == Reader!Spec

(* A frame that failed its checksum changes no status (registry.rs            *)
(* quarantine), and the snapshot is the latest message of its kind.           *)
LatestOf(k) == {MessageOf(f) : f \in
                 {g \in On(applied) : ChecksumOk(g) /\ Stream[MessageOf(g)] = k}}

SnapshotIsLatest ==
  \A k \in {"sys", "temp"} :
     /\ \A m \in LatestOf(k) : m <= StatusResponse.shown[k]
     /\ StatusResponse.shown[k] \in LatestOf(k) \cup {0}

Bad(s) == {i \in DOMAIN s : ~ChecksumOk(s[i])}

CountsAreTrue ==
  /\ StatusResponse.framesSeen = Len(applied)
  /\ StatusResponse.quarantined = Cardinality(Bad(applied))

(* The ring is the end of what was applied, and GET /frames gives the latest  *)
(* of it, newest first, whatever limit is asked for.                          *)
RingIsEnd ==
  /\ Len(ring) = IF Len(applied) < RingCap THEN Len(applied) ELSE RingCap
  /\ \A i \in 1..Len(ring) : ring[i] = applied[Len(applied) - Len(ring) + i]

Least(S)  == CHOOSE n \in S : \A k \in S : n <= k
Newest(n) == [i \in 1..n |-> applied[Len(applied) + 1 - i]]

NewestFirst ==
  /\ RecentFrames(0) = RecentFrames(1)
  /\ \A limit \in 1..RingCap + 1 :
        RecentFrames(limit) = Newest(Least({limit, 128, RingCap, Len(applied)}))

(* What HTTP shows is the history of the frames so far. *)
ViewIsHistory == SnapshotIsLatest /\ CountsAreTrue /\ RingIsEnd /\ NewestFirst
-----------------------------------------------------------------------------
(* Reconnects and shutdown. *)

(* actor.rs hit_max_reconnects: never more reconnects than configured, and an *)
(* Actor that reports it stopped for that reason made exactly that many.      *)
ReconnectBudget ==
  MaxReconnects # NoLimit =>
    /\ reconnects <= MaxReconnects
    /\ stoppedOnMax => reconnects = MaxReconnects /\ phase \in {"final", "stopped"}

(* "Sleeps backoff delay unless shutdown is signaled" (actor.rs:347): the     *)
(* Actor leaves the delay early only to stop.                                 *)
SleepsUnlessSignalled == [][phase = "sleeping" => phase' # "top"]_vars

(* A call that waits for its answer gets one, or its client leaves, provided  *)
(* the Actor is connected again and again or has stopped for good.            *)
Answered ==
  ([]<>(phase \in InSession \cup {"stopped"})) =>
    \A c \in Calls : (call[c] \in {"gated", "awaiting"})
                      ~> (call[c] \notin {"gated", "awaiting"})

(* The gate is never held for ever under the same proviso. *)
GateFreed ==
  ([]<>(phase \in InSession \cup {"stopped"})) => []<>(lock = NoCall)

(* A signalled shutdown stops the Actor whatever it is waiting for.           *)
ShutdownStops == (shutdown = "signalled") ~> (phase = "stopped")

(* Every frame sent to the drain is applied, also after the Actor has stopped. *)
EveryFrameApplied ==
  \A n \in 1..Len(Stream) : (Len(emitted) >= n) ~> (Len(applied) >= n)
=============================================================================
