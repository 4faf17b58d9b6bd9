---------------------------- MODULE DecodeDrain ----------------------------
(***************************************************************************)
(* state.rs: the task that consumes the Actor's frames.  Each frame is     *)
(* appended to the journal, decoded, and applied to the shared BusState    *)
(* under its write lock; the wait for that lock is the step between        *)
(* Receive and Apply, in which GET /status and GET /frames still see the   *)
(* state before the frame.                                                 *)
(***************************************************************************)
EXTENDS BusChannels

CONSTANTS
  RingCap,         \* ring_cap of BusState (128 by default)
  JournalOn,       \* a journal was opened
  JournalMayFail,  \* an append may fail (it is logged and ignored)
  ReceiverMayDie   \* the owner of the frame receiver may drop it early

ASSUME DrainAssumption ==
  /\ RingCap \in Nat \ {0}
  /\ JournalOn \in BOOLEAN /\ JournalMayFail \in BOOLEAN
  /\ ReceiverMayDie \in BOOLEAN

VARIABLES
  held,        \* the frame received and not yet applied
  journal,     \* frames in the journal
  missed,      \* history: frames whose append failed or had no journal
  snapshot,    \* snapshot["sys"], snapshot["temp"]: message shown, 0 for null
  ring,        \* BusState.frames, newest last
  framesSeen,  \* BusState.frames_seen
  quarantined, \* BusState.quarantined
  applied      \* history: frames applied

drainVars == <<held, journal, missed, snapshot, ring, framesSeen, quarantined,
               applied>>
viewVars  == <<snapshot, ring, framesSeen, quarantined, applied>>

DrainInit ==
  /\ held = <<>> /\ journal = <<>> /\ missed = {}
  /\ snapshot = [sys |-> 0, temp |-> 0]
  /\ ring = <<>> /\ framesSeen = 0 /\ quarantined = 0 /\ applied = <<>>

(* Mutant: only frames that pass their checksum are logged. *)
AppendGoodOnly(f) ==
  IF ChecksumOk(f) /\ JournalOn THEN journal' = Append(journal, f) /\ UNCHANGED missed
                                ELSE UNCHANGED <<journal, missed>>

(* append_frame_best_effort *)
AppendBestEffort(f) ==
  \/ JournalOn /\ journal' = Append(journal, f) /\ UNCHANGED missed
  \/ /\ ~JournalOn \/ JournalMayFail
     /\ missed' = missed \cup {f}
     /\ UNCHANGED journal

(* rx.recv().await, the append, and the decode. *)
Receive ==
  /\ held = <<>>
  /\ frameQ # <<>>
  /\ held' = <<Head(frameQ)>>
  /\ frameQ' = Tail(frameQ)
  /\ AppendBestEffort(Head(frameQ))
  /\ UNCHANGED <<viewVars, shutdown, writeQ, reply, dropped>>

(* Mutant: the checksum flag is not looked at. *)
DecodeAnyFrame(f) ==
  IF Stream[MessageOf(f)] \in {"sys", "temp"} THEN Stream[MessageOf(f)] ELSE "unknown"

(* MessageRegistry::decode_frame: the registry's parsers, by kind. *)
DecodeFrame(f) ==
  IF ~ChecksumOk(f) THEN "quarantined"
  ELSE IF Stream[MessageOf(f)] \in {"sys", "temp"} THEN Stream[MessageOf(f)]
  ELSE "unknown"

(* Mutant: off by one in the eviction. *)
PushRingLate(r, f) == Append(IF Len(r) > RingCap THEN Tail(r) ELSE r, f)

PushRing(r, f) == Append(IF Len(r) >= RingCap THEN Tail(r) ELSE r, f)

(* state.write().await and BusState::apply. *)
Apply ==
  /\ held # <<>>
  /\ LET f == Head(held)  outcome == DecodeFrame(f) IN
       /\ framesSeen' = framesSeen + 1
       /\ snapshot' = IF outcome \in {"sys", "temp"}
                        THEN [snapshot EXCEPT ![outcome] = MessageOf(f)]
                        ELSE snapshot
       /\ quarantined' = IF outcome = "quarantined" THEN quarantined + 1
                                                    ELSE quarantined
       /\ ring' = PushRing(ring, f)
       /\ applied' = Append(applied, f)
  /\ held' = <<>>
  /\ UNCHANGED <<journal, missed, channelVars>>

(* Mutant: the drain stops with the Actor, whatever is still queued. *)
DrainEndsEarly ==
  /\ held = <<>>
  /\ "frameTx" \in dropped
  /\ "frameRx" \notin dropped
  /\ dropped' = dropped \cup {"frameRx"}
  /\ frameQ' = <<>>
  /\ UNCHANGED <<drainVars, shutdown, writeQ, reply>>

(* recv returns None: the Actor is gone and its channel is empty. *)
DrainEnds ==
  /\ held = <<>>
  /\ "frameTx" \in dropped /\ frameQ = <<>>
  /\ "frameRx" \notin dropped
  /\ dropped' = dropped \cup {"frameRx"}
  /\ UNCHANGED <<drainVars, shutdown, writeQ, reply, frameQ>>

(* A caller of BusActor::spawn that owns the receiver drops it, with what is *)
(* still in the channel.  The service's own drain never does.                *)
ReceiverDies ==
  /\ ReceiverMayDie
  /\ "frameRx" \notin dropped
  /\ dropped' = dropped \cup {"frameRx"}
  /\ frameQ' = <<>> /\ held' = <<>>
  /\ UNCHANGED <<journal, missed, viewVars, shutdown, writeQ, reply>>

(* GET /status and GET /frames?limit=, under the read lock. *)
StatusResponse == [shown |-> snapshot, framesSeen |-> framesSeen, quarantined |-> quarantined]

Clamp(limit) == IF limit < 1 THEN 1 ELSE IF limit > 128 THEN 128 ELSE limit

RecentFrames(limit) ==
  [i \in 1..(IF Clamp(limit) < Len(ring) THEN Clamp(limit) ELSE Len(ring)) |->
     ring[Len(ring) + 1 - i]]

DrainStep == Receive \/ Apply \/ DrainEnds
DrainNext == DrainStep \/ ReceiverDies

DrainTypes ==
  /\ held \in Seq(Frame) /\ Len(held) <= 1
  /\ journal \in Seq(Frame) /\ missed \subseteq Frame
  /\ snapshot \in [{"sys", "temp"} -> Nat]
  /\ ring \in Seq(Frame) /\ Len(ring) <= RingCap
  /\ framesSeen \in Nat /\ quarantined \in Nat
  /\ applied \in Seq(Frame)
=============================================================================
