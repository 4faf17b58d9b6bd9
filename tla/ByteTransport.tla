--------------------------- MODULE ByteTransport ---------------------------
(***************************************************************************)
(* transport/mod.rs `ByteTransport` and its three strategies (tcp.rs,      *)
(* serial.rs, replay.rs): what open, close, read and write answer and what *)
(* they leave behind.  A TCP or serial connection is a stream that is      *)
(* there or not; a replay is a position in a recording.  Each method is an *)
(* action on the transport alone; TransportService calls them.             *)
(***************************************************************************)
EXTENDS Integers

CONSTANTS
  Strategies,     \* what from_url may have built: "tcp", "serial", "replay"
  RecordingLen,   \* length of the recording, in the unit of the reads
  ReadBuf,        \* BusActorConfig.read_buf, in that unit
  Rewinds,        \* the values of rewind_on_open
  CutsAfter,      \* the values of disconnect_after_reads
  Never,          \* ... its None
  WriteAllowed    \* ReplayTransport.write_allowed

ASSUME TransportAssumption ==
  /\ Strategies \subseteq {"tcp", "serial", "replay"}
  /\ RecordingLen \in Nat /\ ReadBuf \in Nat \ {0}
  /\ Rewinds \subseteq BOOLEAN /\ WriteAllowed \in BOOLEAN
  /\ Never \notin Nat /\ CutsAfter \subseteq Nat \cup {Never}

VARIABLES
  strategy,       \* which strategy the Actor owns
  rewind,         \* ReplayTransport.rewind_on_open
  opened,         \* stream.is_some(), or ReplayTransport.opened
  loaded,         \* the recording is in memory
  pos,            \* ReplayTransport.pos
  readsWithData,  \* ReplayTransport.reads_with_data
  cutAfter        \* ReplayTransport.disconnect_after_reads

transportVars == <<strategy, rewind, opened, loaded, pos, readsWithData, cutAfter>>
replayVars    == <<loaded, pos, readsWithData, cutAfter>>

IsReplay == strategy = "replay"
CutDue   == cutAfter # Never /\ readsWithData >= cutAfter

(* A connection has nothing to rewind and no disconnect to inject. *)
TransportInit ==
  /\ strategy \in Strategies
  /\ IF IsReplay THEN rewind \in Rewinds /\ cutAfter \in CutsAfter
                 ELSE rewind = FALSE /\ cutAfter = Never
  /\ opened = FALSE /\ loaded = FALSE /\ pos = 0 /\ readsWithData = 0

(* Mutant: the recording goes on where it was left. *)
OpenWhereItWas ==
  /\ opened' = TRUE
  /\ loaded' = (IsReplay /\ RecordingLen > 0)
  /\ UNCHANGED <<strategy, rewind, pos, readsWithData, cutAfter>>

(* open succeeds: a replay is loaded, and goes back to its start if it is to *)
(* rewind.                                                                   *)
Open ==
  /\ opened' = TRUE
  /\ loaded' = (IsReplay /\ RecordingLen > 0)
  /\ IF IsReplay /\ rewind THEN pos' = 0 /\ readsWithData' = 0
                           ELSE UNCHANGED <<pos, readsWithData>>
  /\ UNCHANGED <<strategy, rewind, cutAfter>>

(* open fails: no peer, no device, or no file where one has to be loaded.    *)
OpenFails ==
  /\ IsReplay => rewind \/ ~loaded
  /\ UNCHANGED transportVars

(* Mutant: the stream is kept for the next session. *)
CloseKeepsStream == UNCHANGED transportVars

Close ==
  /\ opened' = FALSE
  /\ UNCHANGED <<strategy, rewind, replayVars>>

(* read returns Ok(n), n > 0: a replay fills the buffer as far as it can.    *)
ReadBytes(n) ==
  /\ opened
  /\ IF IsReplay
       THEN /\ ~CutDue
            /\ n = (IF RecordingLen - pos < ReadBuf THEN RecordingLen - pos ELSE ReadBuf)
            /\ pos' = pos + n /\ readsWithData' = readsWithData + 1
       ELSE UNCHANGED <<pos, readsWithData>>
  /\ UNCHANGED <<strategy, rewind, opened, loaded, cutAfter>>

(* Mutant: at its end the replay waits, as a quiet bus does. *)
ReadZeroLiveOnly ==
  /\ opened /\ ~IsReplay
  /\ UNCHANGED transportVars

(* read returns Ok(0): the peer has closed, or the recording is at its end.  *)
ReadZero ==
  /\ opened
  /\ IsReplay => ~CutDue /\ pos >= RecordingLen
  /\ UNCHANGED transportVars

(* read fails: NotConnected, an I/O error, or the injected disconnect.       *)
ReadFails ==
  IF IsReplay /\ opened
    THEN /\ CutDue
         /\ opened' = FALSE /\ cutAfter' = Never
         /\ UNCHANGED <<strategy, rewind, loaded, pos, readsWithData>>
    ELSE UNCHANGED transportVars

(* write returns; a replay does not look at `opened`. *)
WriteReturns(ok) ==
  /\ IF IsReplay THEN ok = WriteAllowed ELSE ok => opened
  /\ UNCHANGED transportVars

TransportTypes ==
  /\ strategy \in Strategies /\ rewind \in BOOLEAN
  /\ opened \in BOOLEAN /\ loaded \in BOOLEAN
  /\ pos \in 0..RecordingLen /\ readsWithData \in Nat
  /\ cutAfter \in CutsAfter \cup {Never}
=============================================================================
