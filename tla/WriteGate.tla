----------------------------- MODULE WriteGate -----------------------------
(***************************************************************************)
(* write.rs: the gate that lets one write at a time reach the bus Actor.   *)
(* A call is one HTTP request running WriteGate::execute.  The guard of    *)
(* the mutex lives in the call's future: it is released when execute       *)
(* returns on any path, and also when the server drops the future because  *)
(* the client went away (Cancel), at whichever await the call had reached. *)
(***************************************************************************)
EXTENDS BusChannels

CONSTANTS
  Modes,           \* the kinds of gate to consider, see `mode`
  NoCall           \* the mutex is free

ASSUME GateAssumption == /\ Modes \subseteq {"dryRun", "noHandle", "live"}
                         /\ NoCall \notin Calls

VARIABLES
  mode,       \* what WriteGate::new was given: writes_enabled = FALSE, or TRUE
              \* without or with a write handle
  lock,       \* the call that holds the gate's mutex
  call,       \* call[c]: the await the call is at, or how it ended
  tickets,    \* history: how many calls have taken the mutex
  ticket      \* history: ticket[c] = k when c was the k-th of them, else 0

gateVars == <<mode, lock, call, tickets, ticket>>

InFlight  == {"gated", "awaiting", "listening"}
Refusals  == {"badCommand", "busy", "dryRun", "noHandle", "closed", "dropped"}
CallState == {"new", "ioError", "sent", "gone"} \cup InFlight \cup Refusals

GateInit ==
  /\ mode \in Modes
  /\ lock = NoCall
  /\ call = [c \in Calls |-> "new"]
  /\ tickets = 0
  /\ ticket = [c \in Calls |-> 0]

End(c, how) == /\ call' = [call EXCEPT ![c] = how]
               /\ lock' = NoCall
               /\ UNCHANGED <<mode, tickets, ticket, shutdown, frameQ, dropped>>

(* dispatch, raw_hex or a builder fails (CommandRequests says when): the     *)
(* call returns before it touches the mutex.                                 *)
BadCommand(c) ==
  /\ call[c] = "new"
  /\ call' = [call EXCEPT ![c] = "badCommand"]
  /\ UNCHANGED <<mode, lock, tickets, ticket, channelVars>>

(* try_lock fails: HTTP 409. *)
Busy(c) ==
  /\ call[c] = "new"
  /\ lock # NoCall
  /\ call' = [call EXCEPT ![c] = "busy"]
  /\ UNCHANGED <<mode, lock, tickets, ticket, channelVars>>

(* try_lock succeeds.  On a multi-threaded runtime the rest of execute is   *)
(* another step even when it awaits nothing: a second call may find the     *)
(* mutex taken by a dry run.                                                *)
Admit(c) ==
  /\ call[c] = "new"
  /\ lock = NoCall
  /\ lock' = c
  /\ call' = [call EXCEPT ![c] = "gated"]
  /\ tickets' = tickets + 1
  /\ ticket' = [ticket EXCEPT ![c] = tickets + 1]
  /\ UNCHANGED <<mode, channelVars>>

(* writes_enabled = false: classify the fixture frames and return. *)
DryRun(c) ==
  /\ call[c] = "gated"
  /\ mode = "dryRun"
  /\ End(c, "dryRun")
  /\ UNCHANGED <<writeQ, reply>>

(* HTTP 503. *)
NoHandle(c) ==
  /\ call[c] = "gated"
  /\ mode = "noHandle"
  /\ End(c, "noHandle")
  /\ UNCHANGED <<writeQ, reply>>

Live == mode = "live"

(* Mutant: the guard is released once the request is queued. *)
SendReleasesGuard(c) ==
  /\ call[c] = "gated"
  /\ Live
  /\ "writeRx" \notin dropped
  /\ Len(writeQ) < WriteCap
  /\ writeQ' = Append(writeQ, c)
  /\ call' = [call EXCEPT ![c] = "awaiting"]
  /\ lock' = NoCall
  /\ UNCHANGED <<mode, tickets, ticket, shutdown, reply, frameQ, dropped>>

(* BusWriteHandle::write, `self.tx.send(..).await`: waits for room. *)
Send(c) ==
  /\ call[c] = "gated"
  /\ Live
  /\ "writeRx" \notin dropped
  /\ Len(writeQ) < WriteCap
  /\ writeQ' = Append(writeQ, c)
  /\ call' = [call EXCEPT ![c] = "awaiting"]
  /\ UNCHANGED <<mode, lock, tickets, ticket, shutdown, reply, frameQ, dropped>>

(* The receiver is gone: "bus Actor write channel closed". *)
SendClosed(c) ==
  /\ call[c] = "gated"
  /\ Live
  /\ "writeRx" \in dropped
  /\ End(c, "closed")
  /\ UNCHANGED <<writeQ, reply>>

(* `reply_rx.await`: Ok opens the listen window, an error ends the call. *)
ReplyOk(c) ==
  /\ call[c] = "awaiting"
  /\ reply[c] = "ok"
  /\ call' = [call EXCEPT ![c] = "listening"]
  /\ UNCHANGED <<mode, lock, tickets, ticket, channelVars>>

ReplyError(c) ==
  /\ call[c] = "awaiting"
  /\ \/ reply[c] = "err" /\ End(c, "ioError")
     \/ reply[c] = "dropped" /\ End(c, "dropped")
  /\ UNCHANGED <<writeQ, reply>>

(* The listen window has elapsed: execute returns Ok, HTTP 200. *)
WindowEnds(c) ==
  /\ call[c] = "listening"
  /\ End(c, "sent")
  /\ UNCHANGED <<writeQ, reply>>

(* Mutant: the mutex is not tied to the future, so a dropped call keeps it. *)
CancelKeepsGuard(c) ==
  /\ call[c] \in InFlight
  /\ Live
  /\ call' = [call EXCEPT ![c] = "gone"]
  /\ UNCHANGED <<mode, lock, tickets, ticket, channelVars>>

(* The client disconnects and the server drops the future: the guard goes    *)
(* with it, a request already in the channel stays there.                    *)
Cancel(c) ==
  /\ call[c] \in InFlight
  /\ Live
  /\ End(c, "gone")
  /\ UNCHANGED <<writeQ, reply>>

CallStep(c) == \/ DryRun(c) \/ NoHandle(c) \/ Send(c) \/ SendClosed(c)
               \/ ReplyOk(c) \/ ReplyError(c) \/ WindowEnds(c)

GateNext ==
  \E c \in Calls : \/ BadCommand(c) \/ Busy(c) \/ Admit(c)
                   \/ CallStep(c) \/ Cancel(c)

GateTypes ==
  /\ mode \in Modes
  /\ lock \in Calls \cup {NoCall}
  /\ call \in [Calls -> CallState]
  /\ tickets \in Nat
  /\ ticket \in [Calls -> Nat]
=============================================================================
