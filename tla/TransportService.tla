-------------------------- MODULE TransportService --------------------------
(***************************************************************************)
(* The service with the transport that its Actor owns: each step of        *)
(* BusActor that awaits a method of the transport is taken together with   *)
(* that method, so that what the Actor leaves open in PentairService (does *)
(* open fail, does read end, does write succeed) is what the strategy      *)
(* answers.                                                                *)
(*                                                                         *)
(* For a replay the wire is the recording over and over: `Stream` is the   *)
(* recording a number of times, and rewinding goes to the start of the     *)
(* next copy.                                                              *)
(***************************************************************************)
EXTENDS PentairService, ByteTransport

CONSTANT LivePieces   \* bound: what of Stream a live bus carries

ASSUME RecordingAssumption ==
  /\ LivePieces \in 0..LastPiece
  /\ ReadBuf = MaxRead
  /\ "replay" \in Strategies =>
       RecordingLen > 0 /\ RecordingLen % 2 = 0 /\ LastPiece % RecordingLen = 0

serviceVars == <<vars, transportVars>>

ServiceInit == Init /\ TransportInit

(* Where the wire is when the transport has been opened.  Bound: Stream has   *)
(* what is left of this copy of the recording.                               *)
NextCopy == ((rxPos + RecordingLen - 2) \div RecordingLen) * RecordingLen + 1

WireAt ==
  IF IsReplay
    THEN /\ rxPos' = IF pos' = 0 THEN NextCopy ELSE rxPos
         /\ rxPos' + RecordingLen - pos' <= LastPiece + 1
    ELSE rxPos' <= LivePieces + 1

(* The awaits of actor.rs that call the transport. *)
CallsOpen  == (OpenOk /\ Open /\ WireAt) \/ (OpenErr /\ OpenFails)
CallsClose == (SessionOver \/ Stop) /\ Close
CallsRead  == \/ /\ ReadData /\ ReadBytes(rxPos' - rxPos)
                 /\ IsReplay \/ rxPos' <= LivePieces + 1
              \/ ReadEnds /\ IF ending' = "eof" THEN ReadZero ELSE ReadFails
CallsWrite == WriteDone /\ WriteReturns(txLog'[Len(txLog')].ok)

CallsNothing ==
  /\ \/ LoopHead \/ BackoffStart \/ TimerFires \/ BackoffWakes \/ SessionHead
     \/ DrainRequest \/ DrainEmpty \/ SelectShutdown \/ SelectRequest
     \/ SendFrame \/ SendFrameClosed
  /\ UNCHANGED transportVars

ActorRuns == CallsOpen \/ CallsClose \/ CallsWrite \/ CallsNothing

ServiceNext ==
  \/ (ActorRuns \/ CallsRead) /\ UNCHANGED <<gateVars, drainVars>>
  \/ GateNext  /\ UNCHANGED <<actorVars, drainVars, transportVars>>
  \/ DrainNext /\ UNCHANGED <<gateVars, actorVars, transportVars>>
  \/ RunNext   /\ UNCHANGED <<gateVars, actorVars, drainVars, transportVars>>

ServiceSpec == ServiceInit /\ [][ServiceNext]_serviceVars

(* As in PentairService; and a replay has its answer ready when it is read.  *)
ServiceFairness ==
  /\ WF_serviceVars(ActorRuns /\ UNCHANGED <<gateVars, drainVars>>)
  /\ WF_serviceVars(IsReplay /\ CallsRead /\ UNCHANGED <<gateVars, drainVars>>)
  /\ WF_serviceVars(DrainStep /\ UNCHANGED <<gateVars, actorVars, transportVars>>)
  /\ \A c \in Calls :
       WF_serviceVars(CallStep(c) /\ UNCHANGED <<actorVars, drainVars, transportVars>>)

ServiceFairSpec == ServiceSpec /\ ServiceFairness
-----------------------------------------------------------------------------
(* The type invariant, by module: a recording is not read past its end, and   *)
(* the ring of GET /frames not filled past its capacity.                      *)
ServiceTypes == TypeOK /\ TransportTypes

(* mod.rs:50-52: one open, then reads and writes on the same connection, one *)
(* close.  While the Actor reads, writes or hands on what it read its        *)
(* connection is open, also where a failed write did not end the session;    *)
(* while it waits to connect again or has stopped it holds none.             *)
OnOneConnection ==
  /\ phase \in InSession => opened
  /\ phase \in {"top", "opening", "backoff", "sleeping", "slept", "stopped"} => ~opened

(* The messages of the recording, and those of which no whole frame was sent. *)
Recorded     == 1 .. RecordingLen \div 2
Recording(m) == ((m - 1) % (RecordingLen \div 2)) + 1

Unplayed ==
  Recorded \ {Recording(MessageOf(f)) : f \in {g \in On(emitted) : g.tail = g.head + 1}}

(* A replay that comes to its end has given every message of the recording,  *)
(* whole, to the drain, wherever it was cut, reset and reopened on the way;  *)
(* one that does not rewind has lost at most the message it was cut in.      *)
PlayedWhole ==
  IsReplay /\ phase = "ending" /\ ending = "eof" =>
    /\ rewind => Unplayed = {}
    /\ Cardinality(Unplayed) <= 1

(* With a limit on reconnects, and without a reconnect at the end, a replay  *)
(* is played out and the Actor stops by itself: no read waits for more.      *)
PlayedOut ==
  IsReplay /\ ~ReconnectOnEof /\ MaxReconnects # NoLimit => <>(phase = "stopped")

(* README.md:161 "Plays a recorded hex file once through the framer": no      *)
(* message of the recording is sent to the drain again.                      *)
PlaysOnce ==
  IsReplay => \A i, j \in DOMAIN emitted :
    i < j => Recording(MessageOf(emitted[i])) # Recording(MessageOf(emitted[j]))
=============================================================================
