---------------------------- MODULE BusChannels ----------------------------
(***************************************************************************)
(* The channels that join the tasks of pentair-rust-service, as lib.rs     *)
(* `run` and transport/actor.rs `spawn_from_url` create them:              *)
(*                                                                         *)
(*   write gate  --- writeQ (bounded mpsc) -------->  bus Actor            *)
(*   write gate  <-- reply  (oneshot per request) --  bus Actor            *)
(*   bus Actor   --- frameQ (bounded mpsc) -------->  decode drain         *)
(*   run()       --- shutdown (watch<bool>) ------->  bus Actor            *)
(*                                                                         *)
(* An end of a channel that has been dropped is a member of `dropped`: the *)
(* only thing tokio tells the other end is that its peer is gone.          *)
(***************************************************************************)
EXTENDS Integers, Sequences, FiniteSets

CONSTANTS
  Calls,       \* the POST /command requests; each runs WriteGate::execute once
  WriteCap,    \* capacity of the write channel (8 in lib.rs)
  FrameCap,    \* capacity of the frame channel (256 in spawn_from_url)
  Stream       \* bound: the kinds of the messages that pass on the bus

Kinds == {"sys", "temp", "other", "corrupt"}

ASSUME ChannelAssumption == /\ WriteCap \in Nat \ {0}
                            /\ FrameCap \in Nat \ {0}
                            /\ Stream \in Seq(Kinds)

VARIABLES
  shutdown,    \* the watch value, or "dropped" when its sender is gone
  writeQ,      \* requests sent and not yet received by the Actor
  reply,       \* reply[c]: what the oneshot of request c holds
  frameQ,      \* frames sent and not yet received by the decode drain
  dropped      \* channel ends that no longer exist

channelVars == <<shutdown, writeQ, reply, frameQ, dropped>>

ChannelEnds == {"writeRx", "frameTx", "frameRx"}
Replies     == {"pending", "ok", "err", "dropped"}

(* A frame of the bus: the first and the last piece of wire it was cut from. *)
(* Piece 2m-1 is the first half of message m and piece 2m its second half.   *)
Frame == [head : Nat, tail : Nat]
MessageOf(f) == (f.head + 1) \div 2

(* Frame.checksum_ok: both halves of one message that was sent intact. *)
ChecksumOk(f) == f.tail = f.head + 1 /\ Stream[MessageOf(f)] # "corrupt"

(* What `run` has built when it starts the tasks. `actorExists` is FALSE when *)
(* no transport could be created: write_rx is then dropped unused.           *)
ChannelsInit(actorExists) ==
  /\ shutdown = "running"
  /\ writeQ = <<>>
  /\ reply = [c \in Calls |-> "pending"]
  /\ frameQ = <<>>
  /\ dropped = IF actorExists THEN {} ELSE ChannelEnds

ChannelTypes ==
  /\ shutdown \in {"running", "signalled", "dropped"}
  /\ writeQ \in Seq(Calls) /\ Len(writeQ) <= WriteCap
  /\ reply \in [Calls -> Replies]
  /\ frameQ \in Seq(Frame) /\ Len(frameQ) <= FrameCap
  /\ dropped \subseteq ChannelEnds
=============================================================================
