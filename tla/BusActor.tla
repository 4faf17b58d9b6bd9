----------------------------- MODULE BusActor ------------------------------
(***************************************************************************)
(* transport/actor.rs: the one task that owns the transport.  It connects, *)
(* drains write requests, reads, frames what it read, and reconnects after *)
(* a backoff.  `phase` is the await (or the loop head) the task is at, so  *)
(* every other task can run between two steps.                             *)
(*                                                                         *)
(* The wire is abstracted to messages of two pieces: piece 2m-1 is the     *)
(* first half of message m and piece 2m its second half.  A read returns   *)
(* one to MaxRead consecutive pieces; what passes on the bus while no      *)
(* connection is open is never seen.  The framer keeps an unfinished first *)
(* half and takes whatever comes next as the rest of it, as the length     *)
(* byte of the real frame makes it do.                                     *)
(*                                                                         *)
(* Left out: the counters that nothing reads (connects, frames, bytes) and *)
(* the length of the delays, which Backoff computes.                       *)
(***************************************************************************)
EXTENDS BusChannels

CONSTANTS
  Transports,      \* whether from_url succeeds, so that an Actor is spawned
  ReconnectOnEof,  \* BusActorConfig.reconnect_on_eof
  MaxReconnects,   \* BusActorConfig.max_reconnects, or NoLimit
  NoLimit,
  CounterCap,      \* bound: reconnects saturates here
  MaxRead,         \* bound: pieces one read may return
  Nothing          \* no request is in the Actor's hands

ASSUME ActorAssumption ==
  /\ Transports \subseteq BOOLEAN /\ ReconnectOnEof \in BOOLEAN
  /\ CounterCap \in Nat
  /\ NoLimit \notin Nat
  /\ MaxReconnects \in {NoLimit} \cup 0..(CounterCap - 1)
  /\ MaxRead \in Nat \ {0}
  /\ Nothing \notin Calls

VARIABLES
  phase,       \* where the Actor's task is
  current,     \* the request whose bytes are being written
  afterWrite,  \* the phase that follows that write
  ending,      \* SessionEnd of the session being closed
  reconnects,  \* stats.reconnects
  stoppedOnMax,\* stats.stopped_on_max_reconnects
  outbox,      \* frames of the last read not yet sent to the drain
  partial,     \* framer: the first half it holds, 0 when it holds none
  rxPos,       \* next piece of the wire
  sessionFrom, \* history: first piece of this connection
  whole,       \* history: messages received entirely within one connection
  emitted,     \* history: frames sent to the drain
  txLog        \* history: writes made, with their result

actorVars == <<phase, current, afterWrite, ending, reconnects, stoppedOnMax,
               outbox, partial, rxPos, sessionFrom, whole, emitted, txLog>>
linkVars  == <<outbox, partial, rxPos, sessionFrom, whole, emitted>>
loopVars  == <<ending, reconnects, stoppedOnMax>>
writeVars == <<current, afterWrite, txLog>>

InSession == {"head", "drain", "select", "writing", "sending"}
Phases    == InSession \cup {"top", "opening", "ending", "backoff",
                             "sleeping", "slept", "final", "stopped"}
LastPiece == 2 * Len(Stream)

ActorInit(exists) ==
  /\ phase = IF exists THEN "top" ELSE "stopped"
  /\ current = Nothing /\ afterWrite = "head" /\ ending = "none"
  /\ reconnects = 0 /\ stoppedOnMax = FALSE
  /\ outbox = <<>> /\ partial = 0 /\ rxPos = 1 /\ sessionFrom = 1
  /\ whole = <<>> /\ emitted = <<>> /\ txLog = <<>>

Goto(p) == phase' = p
-----------------------------------------------------------------------------
(* The connect loop. *)

LoopHead ==
  /\ phase = "top"
  /\ Goto(IF shutdown = "signalled" THEN "final" ELSE "opening")
  /\ UNCHANGED <<loopVars, linkVars, writeVars, channelVars>>

(* Mutant: the framer is not reset on reconnect. *)
OpenOkKeepsFramer ==
  /\ phase = "opening"
  /\ Goto("head")
  /\ rxPos' \in rxPos .. LastPiece + 1
  /\ sessionFrom' = rxPos'
  /\ UNCHANGED <<partial, outbox, whole, emitted, loopVars, writeVars, channelVars>>

(* open() succeeds: the framer starts empty, at whatever the wire is now. *)
OpenOk ==
  /\ phase = "opening"
  /\ Goto("head")
  /\ rxPos' \in rxPos .. LastPiece + 1
  /\ sessionFrom' = rxPos'
  /\ partial' = 0
  /\ UNCHANGED <<outbox, whole, emitted, loopVars, writeVars, channelVars>>

(* Mutant: off by one in the reconnect limit. *)
HitMaxLate == MaxReconnects # NoLimit /\ reconnects > MaxReconnects

HitMax == MaxReconnects # NoLimit /\ reconnects >= MaxReconnects

GiveUp ==
  /\ HitMax
  /\ stoppedOnMax' = TRUE
  /\ Goto("final")
  /\ UNCHANGED <<ending, reconnects>>

Retry ==
  /\ ~HitMax
  /\ reconnects' = IF reconnects < CounterCap THEN reconnects + 1 ELSE reconnects
  /\ Goto("backoff")
  /\ UNCHANGED <<ending, stoppedOnMax>>

OpenErr ==
  /\ phase = "opening"
  /\ GiveUp \/ Retry
  /\ UNCHANGED <<linkVars, writeVars, channelVars>>

(* After read_session: close(), then the match on SessionEnd. *)
SessionOver ==
  /\ phase = "ending"
  /\ IF ending = "shutdown" \/ (ending = "eof" /\ ~ReconnectOnEof)
       THEN Goto("final") /\ UNCHANGED loopVars
       ELSE GiveUp \/ Retry
  /\ UNCHANGED <<linkVars, writeVars, channelVars>>

(* sleep_backoff_or_shutdown: a test of the flag, then a select that is not *)
(* biased.  A receiver whose sender is gone is ready at once.               *)
BackoffStart ==
  /\ phase = "backoff"
  /\ Goto(IF shutdown = "signalled" THEN "final" ELSE "sleeping")
  /\ UNCHANGED <<loopVars, linkVars, writeVars, channelVars>>

TimerFires ==
  /\ phase = "sleeping"
  /\ Goto("slept")
  /\ UNCHANGED <<loopVars, linkVars, writeVars, channelVars>>

(* Mutant: the select returns *borrow instead of !*borrow. *)
BackoffWakesInverted ==
  /\ \/ phase = "slept" /\ Goto("top")
     \/ phase \in {"sleeping", "slept"} /\ shutdown = "signalled" /\ Goto("top")
     \/ phase \in {"sleeping", "slept"} /\ shutdown = "dropped" /\ Goto("final")
  /\ UNCHANGED <<loopVars, linkVars, writeVars, channelVars>>

BackoffWakes ==
  /\ \/ phase = "slept" /\ Goto("top")
     \/ phase \in {"sleeping", "slept"} /\ shutdown = "signalled" /\ Goto("final")
     \/ phase \in {"sleeping", "slept"} /\ shutdown = "dropped" /\ Goto("top")
  /\ UNCHANGED <<loopVars, linkVars, writeVars, channelVars>>

(* Mutant: the receiver outlives the Actor, undrained. *)
StopLeavesQueue ==
  /\ phase = "final"
  /\ Goto("stopped")
  /\ dropped' = dropped \cup {"writeRx", "frameTx"}
  /\ UNCHANGED <<writeQ, reply, shutdown, frameQ, loopVars, linkVars, writeVars>>

(* The last close(), then `self` and `frame_tx` go out of scope: requests    *)
(* still in the channel are dropped and their reply senders with them.       *)
Stop ==
  /\ phase = "final"
  /\ Goto("stopped")
  /\ dropped' = dropped \cup {"writeRx", "frameTx"}
  /\ writeQ' = <<>>
  /\ reply' = [c \in Calls |-> IF \E i \in DOMAIN writeQ : writeQ[i] = c
                                 THEN "dropped" ELSE reply[c]]
  /\ UNCHANGED <<shutdown, frameQ, loopVars, linkVars, writeVars>>
-----------------------------------------------------------------------------
(* read_session. *)

EndSession(how) == Goto("ending") /\ ending' = how
                   /\ UNCHANGED <<reconnects, stoppedOnMax>>

SessionHead ==
  /\ phase = "head"
  /\ IF shutdown = "signalled" THEN EndSession("shutdown")
                               ELSE Goto("drain") /\ UNCHANGED loopVars
  /\ UNCHANGED <<linkVars, writeVars, channelVars>>

(* Mutant: the reply sender is dropped as soon as the bytes are taken. *)
TakeRequestDropsReply(next) ==
  /\ writeQ # <<>>
  /\ current' = Head(writeQ)
  /\ writeQ' = Tail(writeQ)
  /\ reply' = [reply EXCEPT ![Head(writeQ)] = "dropped"]
  /\ afterWrite' = next
  /\ Goto("writing")
  /\ UNCHANGED <<txLog, shutdown, frameQ, dropped, loopVars, linkVars>>

(* A request is received by try_recv in the drain loop, or by recv in the    *)
(* select; its bytes go to transport.write.                                  *)
TakeRequest(next) ==
  /\ writeQ # <<>>
  /\ current' = Head(writeQ)
  /\ writeQ' = Tail(writeQ)
  /\ afterWrite' = next
  /\ Goto("writing")
  /\ UNCHANGED <<txLog, shutdown, reply, frameQ, dropped, loopVars, linkVars>>

DrainRequest == phase = "drain" /\ TakeRequest("drain")

DrainEmpty ==
  /\ phase = "drain"
  /\ writeQ = <<>>
  /\ Goto("select")
  /\ UNCHANGED <<loopVars, linkVars, writeVars, channelVars>>

(* Mutant: the result of the write is not looked at. *)
WriteDoneAlwaysOk ==
  /\ phase = "writing"
  /\ \E ok \in BOOLEAN : txLog' = Append(txLog, [call |-> current, ok |-> ok])
  /\ reply' = [reply EXCEPT ![current] = "ok"]
  /\ current' = Nothing
  /\ Goto(afterWrite)
  /\ UNCHANGED <<afterWrite, shutdown, writeQ, frameQ, dropped, loopVars, linkVars>>

(* Mutant: a failed write goes back to the end of the queue. *)
WriteDoneRetries ==
  /\ phase = "writing"
  /\ \E ok \in BOOLEAN :
       /\ txLog' = Append(txLog, [call |-> current, ok |-> ok])
       /\ reply' = [reply EXCEPT ![current] = IF ok THEN "ok" ELSE "err"]
       /\ writeQ' = IF ok \/ Len(writeQ) >= WriteCap THEN writeQ
                                                     ELSE Append(writeQ, current)
  /\ current' = Nothing
  /\ Goto(afterWrite)
  /\ UNCHANGED <<afterWrite, shutdown, frameQ, dropped, loopVars, linkVars>>

(* transport.write completes and its result is sent to the request's owner,  *)
(* who may have gone.                                                        *)
WriteDone ==
  /\ phase = "writing"
  /\ \E ok \in BOOLEAN :
       /\ txLog' = Append(txLog, [call |-> current, ok |-> ok])
       /\ reply' = [reply EXCEPT ![current] = IF ok THEN "ok" ELSE "err"]
  /\ current' = Nothing
  /\ Goto(afterWrite)
  /\ UNCHANGED <<afterWrite, shutdown, writeQ, frameQ, dropped, loopVars, linkVars>>

(* Mutant: the read loop does not watch for a shutdown while it waits. *)
SelectIgnoresShutdown ==
  /\ phase = "select"
  /\ shutdown = "dropped" /\ Goto("head")
  /\ UNCHANGED <<loopVars, linkVars, writeVars, channelVars>>

(* The select is biased: shutdown, then a request, then the read.  A watch   *)
(* without a sender makes the first branch ready for ever.                   *)
SelectShutdown ==
  /\ phase = "select"
  /\ \/ shutdown = "signalled" /\ EndSession("shutdown")
     \/ shutdown = "dropped" /\ Goto("head") /\ UNCHANGED loopVars
  /\ UNCHANGED <<linkVars, writeVars, channelVars>>

SelectRequest ==
  /\ phase = "select" /\ shutdown = "running"
  /\ TakeRequest("head")

SelectsRead == phase = "select" /\ shutdown = "running" /\ writeQ = <<>>

(* Framer::feed of pieces a..b when the framer holds the first half p.       *)
Feed(p, a, b) ==
  LET a1    == IF p = 0 THEN a ELSE a + 1
      sync  == IF a1 % 2 = 1 THEN a1 ELSE a1 + 1
      first == IF p = 0 THEN <<>> ELSE <<[head |-> p, tail |-> a]>>
      rest  == [k \in 1..((b - sync + 1) \div 2) |->
                  [head |-> sync + 2*k - 2, tail |-> sync + 2*k - 1]]
  IN  [frames |-> first \o rest,
       partial |-> IF b >= sync /\ b % 2 = 1 THEN b ELSE 0]

(* The messages whose second half is in a..b and whose first half is not     *)
(* older than the connection.                                                *)
CompletedBy(a, b) ==
  LET lo == IF sessionFrom > a - 1 THEN (sessionFrom + 2) \div 2
                                   ELSE (a + 1) \div 2
  IN  [k \in 1..((b \div 2) - lo + 1) |-> lo + k - 1]

ReadData ==
  /\ SelectsRead
  /\ \E b \in rxPos .. (rxPos + MaxRead - 1) :
       /\ b <= LastPiece
       /\ rxPos' = b + 1
       /\ LET fed == Feed(partial, rxPos, b) IN
            /\ partial' = fed.partial
            /\ outbox' = fed.frames
            /\ Goto(IF fed.frames = <<>> THEN "head" ELSE "sending")
       /\ whole' = whole \o CompletedBy(rxPos, b)
  /\ UNCHANGED <<sessionFrom, emitted, loopVars, writeVars, channelVars>>

(* read returns 0, or an error. *)
ReadEnds ==
  /\ SelectsRead
  /\ \E how \in {"eof", "error"} : EndSession(how)
  /\ UNCHANGED <<linkVars, writeVars, channelVars>>

(* Mutant: try_send, which loses the frame when the channel is full. *)
SendFrameLossy ==
  /\ phase = "sending"
  /\ "frameRx" \notin dropped
  /\ frameQ' = IF Len(frameQ) < FrameCap THEN Append(frameQ, Head(outbox)) ELSE frameQ
  /\ emitted' = Append(emitted, Head(outbox))
  /\ outbox' = Tail(outbox)
  /\ Goto(IF Len(outbox) = 1 THEN "head" ELSE "sending")
  /\ UNCHANGED <<partial, rxPos, sessionFrom, whole, shutdown, writeQ, reply,
                 dropped, loopVars, writeVars>>

(* frame_tx.send(frame).await, once per frame of the read. *)
SendFrame ==
  /\ phase = "sending"
  /\ "frameRx" \notin dropped
  /\ Len(frameQ) < FrameCap
  /\ frameQ' = Append(frameQ, Head(outbox))
  /\ emitted' = Append(emitted, Head(outbox))
  /\ outbox' = Tail(outbox)
  /\ Goto(IF Len(outbox) = 1 THEN "head" ELSE "sending")
  /\ UNCHANGED <<partial, rxPos, sessionFrom, whole, shutdown, writeQ, reply,
                 dropped, loopVars, writeVars>>

SendFrameClosed ==
  /\ phase = "sending"
  /\ "frameRx" \in dropped
  /\ outbox' = <<>>
  /\ EndSession("shutdown")
  /\ UNCHANGED <<partial, rxPos, sessionFrom, whole, emitted, writeVars, channelVars>>

(* What the task does by itself or with an I/O call that completes in some   *)
(* way; a read may stay pending for ever.                                    *)
ActorStep ==
  \/ LoopHead \/ OpenOk \/ OpenErr \/ SessionOver \/ BackoffStart \/ TimerFires
  \/ BackoffWakes \/ Stop \/ SessionHead \/ DrainRequest \/ DrainEmpty
  \/ WriteDone \/ SelectShutdown \/ SelectRequest \/ SendFrame \/ SendFrameClosed

ActorNext == ActorStep \/ ReadData \/ ReadEnds

ActorTypes ==
  /\ phase \in Phases
  /\ current \in Calls \cup {Nothing}
  /\ phase = "writing" <=> current # Nothing
  /\ afterWrite \in {"head", "drain"}
  /\ ending \in {"none", "shutdown", "eof", "error"}
  /\ reconnects \in Nat /\ stoppedOnMax \in BOOLEAN
  /\ outbox \in Seq(Frame)
  /\ phase = "sending" <=> outbox # <<>>
  /\ partial \in Nat
  /\ rxPos \in Nat \ {0} /\ sessionFrom \in Nat \ {0}
  /\ whole \in Seq(Nat)
  /\ emitted \in Seq(Frame)
  /\ txLog \in Seq([call : Calls, ok : BOOLEAN])
=============================================================================
