----------------------- MODULE PentairServiceProofs -----------------------
(* Type correctness of PentairService, its reconnect limit and backoff, and   *)
(* the way of a frame from the Actor to the shared state: for every channel   *)
(* capacity, every traffic and every order of the two tasks.                 *)
EXTENDS PentairService, SequenceTheorems, FiniteSetTheorems, TLAPS

(* Facts about sequences. *)

(* A singleton is a sequence of length one. *)
LEMMA SingletonSeq == ASSUME NEW S, NEW x \in S
                      PROVE  <<x>> \in Seq(S) /\ Len(<<x>>) = 1
  OBVIOUS

(* A function on 1..n is a sequence. *)
LEMMA FunctionIsSeq == ASSUME NEW S, NEW n \in Nat, NEW f \in [1..n -> S]
                       PROVE  f \in Seq(S)
  BY SeqDef

(* A sequence that is not empty is its head followed by its tail. *)
LEMMA HeadThenTail ==
  ASSUME NEW S, NEW s \in Seq(S), s # <<>>
  PROVE  /\ Head(s) \in S /\ Tail(s) \in Seq(S) /\ <<Head(s)>> \in Seq(S)
         /\ <<Head(s)>> \o Tail(s) = s
<1>1. /\ Head(s) \in S /\ Tail(s) \in Seq(S) /\ Len(Tail(s)) = Len(s) - 1
      /\ \A i \in 1..Len(Tail(s)) : Tail(s)[i] = s[i + 1]
      /\ Len(s) \in Nat /\ Head(s) = s[1]
  BY HeadTailProperties, LenProperties
<1>2. <<Head(s)>> \in Seq(S) /\ Len(<<Head(s)>>) = 1 /\ <<Head(s)>>[1] = s[1]
  BY <1>1, SingletonSeq
<1> DEFINE t == <<Head(s)>> \o Tail(s)
<1>3. /\ t \in Seq(S) /\ Len(t) = Len(s)
      /\ \A i \in 1..Len(s) : t[i] = IF i <= 1 THEN <<Head(s)>>[i] ELSE Tail(s)[i - 1]
  BY <1>1, <1>2, ConcatProperties
<1>4. \A i \in 1..Len(s) : t[i] = s[i]
  BY <1>1, <1>2, <1>3
<1> HIDE DEF t
<1>5. t = s
  BY <1>3, <1>4, SeqEqual
<1> QED BY <1>1, <1>2, <1>5 DEF t

(* A sequence of at most one element that is not empty is its head. *)
LEMMA HeadOnly ==
  ASSUME NEW S, NEW s \in Seq(S), s # <<>>, Len(s) <= 1
  PROVE  s = <<Head(s)>> /\ Head(s) \in S
<1>1. Len(s) = 1 /\ Head(s) = s[1] /\ Head(s) \in S
  <2>1. Len(s) \in Nat /\ Len(s) # 0
    BY EmptySeq, LenProperties
  <2>2. Head(s) \in S /\ Head(s) = s[1]
    BY HeadTailProperties
  <2>3. Len(s) = 1
    BY <2>1
  <2> QED BY <2>2, <2>3
<1>2. <<Head(s)>> \in Seq(S) /\ Len(<<Head(s)>>) = 1 /\ <<Head(s)>>[1] = Head(s)
  BY <1>1, SingletonSeq
<1> QED BY <1>1, <1>2, SeqEqual

-----------------------------------------------------------------------------
(* The channels, locals and counters that `run` creates have their types. *)
LEMMA InitTyped == Init => TypeOK
<1> SUFFICES ASSUME Init PROVE TypeOK
  OBVIOUS
<1>1. ChannelTypes
  BY ChannelAssumption DEF Init, ChannelsInit, ChannelTypes, Replies, ChannelEnds
<1>2. GateTypes
  BY DEF Init, GateInit, GateTypes, CallState
<1>3. ActorTypes
  <2>1. phase \in {"top", "stopped"} /\ current = Nothing /\ outbox = <<>>
    BY DEF Init, ActorInit
  <2>2. phase \in Phases /\ phase # "writing" /\ phase # "sending"
    BY <2>1 DEF Phases, InSession
  <2>3. /\ outbox \in Seq(Frame) /\ emitted \in Seq(Frame) /\ whole \in Seq(Nat)
        /\ txLog \in Seq([call : Calls, ok : BOOLEAN])
    BY DEF Init, ActorInit
  <2>4. /\ current \in Calls \cup {Nothing}
        /\ phase = "writing" <=> current # Nothing
        /\ phase = "sending" <=> outbox # <<>>
    BY <2>1, <2>2
  <2>5. /\ afterWrite \in {"head", "drain"}
        /\ ending \in {"none", "shutdown", "eof", "error"}
        /\ reconnects \in Nat
        /\ partial \in Nat /\ rxPos \in Nat \ {0} /\ sessionFrom \in Nat \ {0}
    BY DEF Init, ActorInit
  <2>6. stoppedOnMax \in BOOLEAN
    BY Zenon DEF Init, ActorInit
  <2> QED BY <2>2, <2>3, <2>4, <2>5, <2>6 DEF ActorTypes
<1>4. DrainTypes
  BY DrainAssumption DEF Init, DrainInit, DrainTypes
<1> QED BY <1>1, <1>2, <1>3, <1>4 DEF TypeOK

(* No step of a call through the gate leaves the types. *)
LEMMA GateTyped ==
  ASSUME TypeOK, GateNext, UNCHANGED <<actorVars, drainVars>>
  PROVE  TypeOK'
<1>1. PICK c \in Calls : \/ BadCommand(c) \/ Busy(c) \/ Admit(c)
                         \/ CallStep(c) \/ Cancel(c)
  BY DEF GateNext
<1>2. ActorTypes' /\ DrainTypes'
  BY DEF TypeOK, ActorTypes, DrainTypes, actorVars, drainVars
<1>3. GateTypes'
  <2> USE DEF TypeOK, GateTypes, CallState, InFlight, Refusals
  <2>1. CASE BadCommand(c) \/ Busy(c)
    BY <2>1 DEF BadCommand, Busy
  <2>2. CASE Admit(c)
    BY <2>2 DEF Admit
  <2>3. CASE Send(c) \/ ReplyOk(c)
    BY <2>3 DEF Send, ReplyOk
  <2>4. CASE DryRun(c) \/ NoHandle(c) \/ SendClosed(c) \/ ReplyError(c)
             \/ WindowEnds(c) \/ Cancel(c)
    <3>1. \E how \in CallState : End(c, how)
      BY <2>4 DEF DryRun, NoHandle, SendClosed, ReplyError, WindowEnds, Cancel
    <3> QED BY <3>1 DEF End
  <2> QED BY <1>1, <2>1, <2>2, <2>3, <2>4 DEF CallStep
<1>4. ChannelTypes'
  <2> USE DEF TypeOK, ChannelTypes
  <2>1. CASE Send(c)
    BY <2>1, ChannelAssumption DEF Send
  <2>2. CASE ~Send(c)
    <3>1. UNCHANGED channelVars
      BY <1>1, <2>2 DEF BadCommand, Busy, Admit, CallStep, Cancel, DryRun, NoHandle,
         SendClosed, ReplyOk, ReplyError, WindowEnds, End, channelVars
    <3> QED BY <3>1 DEF channelVars
  <2> QED BY <2>1, <2>2
<1> QED BY <1>2, <1>3, <1>4 DEF TypeOK

(* No step of the decode drain leaves the types. *)
LEMMA DrainTyped ==
  ASSUME TypeOK, DrainNext, UNCHANGED <<gateVars, actorVars>>
  PROVE  TypeOK'
<1>1. GateTypes' /\ ActorTypes'
  BY DEF TypeOK, GateTypes, ActorTypes, gateVars, actorVars
<1>2. CASE Receive
  <2>1. Head(frameQ) \in Frame /\ Tail(frameQ) \in Seq(Frame)
        /\ Len(Tail(frameQ)) = Len(frameQ) - 1 /\ Len(frameQ) \in Nat
    BY <1>2, HeadTailProperties DEF TypeOK, ChannelTypes, Receive
  <2>2. journal' \in Seq(Frame) /\ missed' \subseteq Frame
    <3>1. CASE journal' = Append(journal, Head(frameQ)) /\ UNCHANGED missed
      BY <2>1, <3>1 DEF TypeOK, DrainTypes
    <3>2. CASE missed' = missed \cup {Head(frameQ)} /\ UNCHANGED journal
      BY <2>1, <3>2 DEF TypeOK, DrainTypes
    <3> QED BY <1>2, <3>1, <3>2 DEF Receive, AppendBestEffort
  <2>3. held' \in Seq(Frame) /\ Len(held') <= 1
    BY <1>2, <2>1, SingletonSeq DEF Receive
  <2>4. DrainTypes'
    BY <1>2, <2>2, <2>3 DEF TypeOK, DrainTypes, Receive, viewVars
  <2>5. ChannelTypes'
    BY <1>2, <2>1, ChannelAssumption DEF TypeOK, ChannelTypes, Receive
  <2> QED BY <1>1, <2>4, <2>5 DEF TypeOK
<1>3. CASE Apply
  <2>1. Head(held) \in Frame
    BY <1>3, HeadTailProperties DEF TypeOK, DrainTypes, Apply
  <2>2. MessageOf(Head(held)) \in Nat
    BY <2>1 DEF MessageOf, Frame
  <2>3. PushRing(ring, Head(held)) \in Seq(Frame)
        /\ Len(PushRing(ring, Head(held))) <= RingCap
    <3>1. CASE Len(ring) >= RingCap
      <4>1. ring # <<>>
        BY <3>1, DrainAssumption DEF TypeOK, DrainTypes
      <4>2. Tail(ring) \in Seq(Frame) /\ Len(Tail(ring)) = Len(ring) - 1
        BY <4>1, HeadTailProperties DEF TypeOK, DrainTypes
      <4> QED BY <2>1, <3>1, <4>2, DrainAssumption DEF TypeOK, DrainTypes, PushRing
    <3>2. CASE ~(Len(ring) >= RingCap)
      BY <2>1, <3>2, DrainAssumption DEF TypeOK, DrainTypes, PushRing
    <3> QED BY <3>1, <3>2
  <2>4. snapshot' \in [{"sys", "temp"} -> Nat]
    BY <1>3, <2>2 DEF TypeOK, DrainTypes, Apply
  <2>5. framesSeen' \in Nat /\ quarantined' \in Nat
        /\ applied' \in Seq(Frame)
    BY <1>3, <2>1 DEF TypeOK, DrainTypes, Apply
  <2>6. ring' = PushRing(ring, Head(held)) /\ held' = <<>>
        /\ UNCHANGED <<journal, missed, channelVars>>
    BY <1>3 DEF Apply
  <2>7. DrainTypes'
    BY <2>3, <2>4, <2>5, <2>6 DEF TypeOK, DrainTypes
  <2> QED BY <1>1, <2>6, <2>7 DEF TypeOK, ChannelTypes, channelVars
<1>4. CASE DrainEnds
  BY <1>1, <1>4 DEF TypeOK, DrainEnds, drainVars, ChannelTypes, DrainTypes, ChannelEnds
<1>5. CASE ReceiverDies
  <2>1. DrainTypes'
    BY <1>5 DEF TypeOK, ReceiverDies, viewVars, DrainTypes
  <2>2. ChannelTypes'
    BY <1>5, ChannelAssumption DEF TypeOK, ReceiverDies, ChannelTypes, ChannelEnds
  <2> QED BY <1>1, <2>1, <2>2 DEF TypeOK
<1> QED BY <1>2, <1>3, <1>4, <1>5 DEF DrainNext, DrainStep

(* Steps that move the Actor between phases without a write in its hands and *)
(* without frames to send.                                                   *)
LEMMA ControlTyped ==
  ASSUME TypeOK,
         phase \notin {"writing", "sending"},
         phase' \in Phases \ {"writing", "sending"},
         ending' \in {"none", "shutdown", "eof", "error"},
         reconnects' \in Nat,
         stoppedOnMax' \in BOOLEAN,
         UNCHANGED <<linkVars, writeVars>>
  PROVE  ActorTypes'
  BY DEF TypeOK, ActorTypes, linkVars, writeVars

(* Framer::feed returns frames, and a buffer that holds a piece or nothing. *)
LEMMA FeedTyped ==
  ASSUME NEW p \in Nat, NEW a \in Nat \ {0}, NEW b \in Nat, a <= b
  PROVE  /\ Feed(p, a, b).frames \in Seq(Frame)
         /\ Feed(p, a, b).partial \in Nat
<1> DEFINE a1    == IF p = 0 THEN a ELSE a + 1
           sync  == IF a1 % 2 = 1 THEN a1 ELSE a1 + 1
           first == IF p = 0 THEN <<>> ELSE <<[head |-> p, tail |-> a]>>
           n     == (b - sync + 1) \div 2
           rest  == [k \in 1..n |-> [head |-> sync + 2*k - 2, tail |-> sync + 2*k - 1]]
<1>1. Feed(p, a, b) = [frames |-> first \o rest,
                       partial |-> IF b >= sync /\ b % 2 = 1 THEN b ELSE 0]
  BY DEF Feed
<1>2. sync \in Nat \ {0} /\ n \in Int
  OBVIOUS
<1>3. first \in Seq(Frame)
  <2>1. [head |-> p, tail |-> a] \in Frame
    BY DEF Frame
  <2> QED BY <2>1, SingletonSeq
<1>4. rest \in Seq(Frame)
  <2> HIDE DEF sync, n
  <2>1. CASE n \in Nat
    <3>1. \A k \in 1..n : [head |-> sync + 2*k - 2, tail |-> sync + 2*k - 1] \in Frame
      BY <1>2 DEF Frame
    <3>2. rest \in [1..n -> Frame]
      BY <3>1
    <3> HIDE DEF rest
    <3> QED BY <2>1, <3>2, FunctionIsSeq
  <2>2. CASE n \notin Nat
    <3>1. 1..n = {}
      BY <1>2, <2>2
    <3>2. rest = <<>>
      BY <3>1
    <3> HIDE DEF rest
    <3> QED BY <3>2, EmptySeq
  <2> QED BY <2>1, <2>2
<1>5. first \o rest \in Seq(Frame)
  <2> HIDE DEF first, rest
  <2> QED BY <1>3, <1>4
<1>6. (IF b >= sync /\ b % 2 = 1 THEN b ELSE 0) \in Nat
  BY <1>2
<1> HIDE DEF first, rest, sync
<1> QED BY <1>1, <1>5, <1>6

(* The messages a read completes. *)
LEMMA CompletedTyped ==
  ASSUME sessionFrom \in Nat \ {0}, NEW a \in Nat \ {0}, NEW b \in Nat
  PROVE  CompletedBy(a, b) \in Seq(Nat)
<1> DEFINE lo == IF sessionFrom > a - 1 THEN (sessionFrom + 2) \div 2
                                        ELSE (a + 1) \div 2
           n  == (b \div 2) - lo + 1
           s  == [k \in 1..n |-> lo + k - 1]
<1>1. lo \in Nat \ {0} /\ n \in Int
  OBVIOUS
<1>2. s \in Seq(Nat)
  <2> HIDE DEF lo, n
  <2>1. CASE n \in Nat
    <3>1. s \in [1..n -> Nat]
      BY <1>1
    <3> HIDE DEF s
    <3> QED BY <2>1, <3>1, FunctionIsSeq
  <2>2. CASE n \notin Nat
    <3>1. 1..n = {}
      BY <1>1, <2>2
    <3>2. s = <<>>
      BY <3>1
    <3> HIDE DEF s
    <3> QED BY <3>2, EmptySeq
  <2> QED BY <2>1, <2>2
<1> QED BY <1>2 DEF CompletedBy

(* No step of the Actor's task leaves the types. *)
LEMMA ActorTyped ==
  ASSUME TypeOK, ActorNext, UNCHANGED <<gateVars, drainVars>>
  PROVE  TypeOK'
<1>1. GateTypes' /\ DrainTypes'
  BY DEF TypeOK, GateTypes, DrainTypes, gateVars, drainVars
<1> DEFINE Quiet     == phase' \in Phases \ {"writing", "sending"}
           LoopTyped == /\ ending' \in {"none", "shutdown", "eof", "error"}
                        /\ reconnects' \in Nat
                        /\ stoppedOnMax' \in BOOLEAN
           Counts    == \/ GiveUp \/ Retry
                        \/ \E how \in {"shutdown", "eof", "error"} : EndSession(how)
<1>2. ASSUME phase \notin {"writing", "sending"}, Quiet, LoopTyped,
             UNCHANGED <<linkVars, writeVars, channelVars>>
      PROVE  TypeOK'
  <2>1. ActorTypes'
    BY <1>2, ControlTyped
  <2> QED BY <1>1, <1>2, <2>1 DEF TypeOK, ChannelTypes, channelVars
<1>3. ASSUME UNCHANGED loopVars PROVE LoopTyped
  BY <1>3 DEF TypeOK, ActorTypes, loopVars
<1>4. ASSUME Counts PROVE Quiet /\ LoopTyped
  <2>1. Quiet
    BY <1>4 DEF GiveUp, Retry, EndSession, Goto, Phases, InSession
  <2>2. ending' \in {"none", "shutdown", "eof", "error"} /\ reconnects' \in Nat
    BY <1>4 DEF GiveUp, Retry, EndSession, TypeOK, ActorTypes
  <2>3. stoppedOnMax' \in BOOLEAN
    BY <1>4, Zenon DEF GiveUp, Retry, EndSession, TypeOK, ActorTypes
  <2> QED BY <2>1, <2>2, <2>3
<1>5. CASE LoopHead \/ BackoffStart \/ TimerFires \/ BackoffWakes \/ DrainEmpty
  <2>1. Quiet /\ phase \notin {"writing", "sending"}
    BY <1>5 DEF LoopHead, BackoffStart, TimerFires, BackoffWakes, DrainEmpty,
       Goto, Phases, InSession
  <2>2. UNCHANGED <<loopVars, linkVars, writeVars, channelVars>>
    BY <1>5 DEF LoopHead, BackoffStart, TimerFires, BackoffWakes, DrainEmpty
  <2> QED BY <1>2, <1>3, <2>1, <2>2
<1>6. CASE OpenErr \/ SessionOver \/ SessionHead \/ SelectShutdown \/ ReadEnds
  <2>1. /\ phase \notin {"writing", "sending"}
        /\ UNCHANGED <<linkVars, writeVars, channelVars>>
    BY <1>6 DEF OpenErr, SessionOver, SessionHead, SelectShutdown, ReadEnds, SelectsRead
  <2>2. Counts \/ (UNCHANGED loopVars /\ Quiet)
    BY <1>6 DEF OpenErr, SessionOver, SessionHead, SelectShutdown, ReadEnds, Goto,
       Phases, InSession
  <2> QED BY <1>2, <1>3, <1>4, <2>1, <2>2
<1>7. CASE SendFrameClosed
  <2>1. Quiet /\ LoopTyped
    BY <1>4, <1>7 DEF SendFrameClosed
  <2>2. ActorTypes'
    BY <1>7, <2>1 DEF SendFrameClosed, TypeOK, ActorTypes, writeVars
  <2> QED BY <1>1, <1>7, <2>2 DEF SendFrameClosed, TypeOK, ChannelTypes, channelVars
<1>8. CASE OpenOk
  <2>1. rxPos' \in Nat \ {0} /\ sessionFrom' \in Nat \ {0} /\ partial' \in Nat
    BY <1>8, ChannelAssumption DEF OpenOk, LastPiece, TypeOK, ActorTypes
  <2>2. Quiet /\ LoopTyped /\ phase \notin {"writing", "sending"}
    BY <1>3, <1>8 DEF OpenOk, Goto, Phases, InSession
  <2>3. ActorTypes'
    BY <1>8, <2>1, <2>2 DEF OpenOk, TypeOK, ActorTypes, writeVars
  <2> QED BY <1>1, <1>8, <2>3 DEF OpenOk, TypeOK, ChannelTypes, channelVars
<1>9. CASE Stop
  <2>1. ActorTypes'
    <3>1. Quiet /\ LoopTyped /\ phase \notin {"writing", "sending"}
      BY <1>3, <1>9 DEF Stop, Goto, Phases, InSession
    <3> QED BY <1>9, <3>1, ControlTyped DEF Stop
  <2>2. ChannelTypes'
    BY <1>9, ChannelAssumption DEF Stop, TypeOK, ChannelTypes, ChannelEnds, Replies
  <2> QED BY <1>1, <2>1, <2>2 DEF TypeOK
<1>10. CASE \E next \in {"drain", "head"} : TakeRequest(next) /\ phase \in {"drain", "select"}
  <2>1. PICK next \in {"drain", "head"} : TakeRequest(next) /\ phase \in {"drain", "select"}
    BY <1>10
  <2>2. /\ Head(writeQ) \in Calls /\ Tail(writeQ) \in Seq(Calls)
        /\ Len(Tail(writeQ)) = Len(writeQ) - 1 /\ Len(writeQ) \in Nat
    BY <2>1, HeadTailProperties DEF TakeRequest, TypeOK, ChannelTypes
  <2>3. LoopTyped
    BY <1>3, <2>1 DEF TakeRequest
  <2>4. current' \in Calls /\ current' # Nothing /\ phase' = "writing" /\ "writing" \in Phases
    BY <2>1, <2>2, ActorAssumption DEF TakeRequest, Goto, Phases, InSession
  <2>5. ActorTypes'
    BY <2>1, <2>3, <2>4 DEF TakeRequest, TypeOK, ActorTypes, linkVars
  <2>6. ChannelTypes'
    BY <2>1, <2>2, ChannelAssumption DEF TakeRequest, TypeOK, ChannelTypes
  <2> QED BY <1>1, <2>5, <2>6 DEF TypeOK
<1>11. CASE WriteDone
  <2>1. PICK ok \in BOOLEAN :
          /\ txLog' = Append(txLog, [call |-> current, ok |-> ok])
          /\ reply' = [reply EXCEPT ![current] = IF ok THEN "ok" ELSE "err"]
    BY <1>11 DEF WriteDone
  <2>2. current \in Calls
    BY <1>11 DEF WriteDone, TypeOK, ActorTypes
  <2>3. txLog' \in Seq([call : Calls, ok : BOOLEAN])
    <3>1. [call |-> current, ok |-> ok] \in [call : Calls, ok : BOOLEAN]
      BY <2>1, <2>2
    <3> QED BY <2>1, <3>1, AppendProperties DEF TypeOK, ActorTypes
  <2>4. reply' \in [Calls -> Replies]
    <3>1. (IF ok THEN "ok" ELSE "err") \in Replies
      BY DEF Replies
    <3> QED BY <2>1, <3>1 DEF TypeOK, ChannelTypes
  <2>5. Quiet /\ LoopTyped
    BY <1>3, <1>11 DEF WriteDone, Goto, Phases, InSession, TypeOK, ActorTypes
  <2>6. ActorTypes'
    BY <1>11, <2>3, <2>5 DEF WriteDone, TypeOK, ActorTypes, linkVars
  <2>7. ChannelTypes'
    BY <1>11, <2>4 DEF WriteDone, TypeOK, ChannelTypes
  <2> QED BY <1>1, <2>6, <2>7 DEF TypeOK
<1>12. CASE ReadData
  <2>1. PICK b \in rxPos .. (rxPos + MaxRead - 1) :
          LET fed == Feed(partial, rxPos, b) IN
          /\ rxPos' = b + 1
          /\ partial' = fed.partial
          /\ outbox' = fed.frames
          /\ Goto(IF fed.frames = <<>> THEN "head" ELSE "sending")
          /\ whole' = whole \o CompletedBy(rxPos, b)
    BY <1>12 DEF ReadData
  <2>2. rxPos \in Nat \ {0} /\ b \in Nat /\ rxPos <= b /\ partial \in Nat
        /\ sessionFrom \in Nat \ {0} /\ rxPos' \in Nat \ {0}
    BY <2>1, ActorAssumption DEF TypeOK, ActorTypes
  <2>3. partial' \in Nat /\ outbox' \in Seq(Frame)
    BY <2>1, <2>2, FeedTyped
  <2>4. whole' \in Seq(Nat)
    BY <2>1, <2>2, CompletedTyped, ConcatProperties DEF TypeOK, ActorTypes
  <2>5. /\ phase' \in Phases /\ phase' # "writing" /\ (phase' = "sending" <=> outbox' # <<>>)
        /\ phase # "writing"
    BY <1>12, <2>1 DEF ReadData, SelectsRead, Goto, Phases, InSession
  <2>6. LoopTyped
    BY <1>3, <1>12 DEF ReadData
  <2>7. ActorTypes'
    BY <1>12, <2>2, <2>3, <2>4, <2>5, <2>6 DEF ReadData, TypeOK, ActorTypes, writeVars
  <2> QED BY <1>1, <1>12, <2>7 DEF ReadData, TypeOK, ChannelTypes, channelVars
<1>13. CASE SendFrame
  <2>1. /\ Head(outbox) \in Frame /\ Tail(outbox) \in Seq(Frame)
        /\ Len(Tail(outbox)) = Len(outbox) - 1 /\ Len(outbox) \in Nat
    BY <1>13, HeadTailProperties DEF SendFrame, TypeOK, ActorTypes
  <2>2. Tail(outbox) = <<>> <=> Len(outbox) = 1
    BY <2>1, EmptySeq
  <2>3. /\ phase' \in Phases /\ phase' # "writing" /\ (phase' = "sending" <=> outbox' # <<>>)
        /\ phase # "writing"
    BY <1>13, <2>2 DEF SendFrame, Goto, Phases, InSession
  <2>4. LoopTyped
    BY <1>3, <1>13 DEF SendFrame
  <2>5. emitted' \in Seq(Frame) /\ outbox' \in Seq(Frame)
    BY <1>13, <2>1, AppendProperties DEF SendFrame, TypeOK, ActorTypes
  <2>6. ActorTypes'
    BY <1>13, <2>3, <2>4, <2>5 DEF SendFrame, TypeOK, ActorTypes, writeVars
  <2>7. ChannelTypes'
    BY <1>13, <2>1, ChannelAssumption, AppendProperties DEF SendFrame, TypeOK, ChannelTypes
  <2> QED BY <1>1, <2>6, <2>7 DEF TypeOK
<1> QED
  BY <1>5, <1>6, <1>7, <1>8, <1>9, <1>10, <1>11, <1>12, <1>13
     DEF ActorNext, ActorStep, DrainRequest, SelectRequest

(* Every step keeps the types. *)
LEMMA NextTyped == TypeOK /\ [Next]_vars => TypeOK'
<1> SUFFICES ASSUME TypeOK, [Next]_vars PROVE TypeOK'
  OBVIOUS
<1>1. CASE RunNext /\ UNCHANGED <<gateVars, actorVars, drainVars>>
  BY <1>1 DEF RunNext, SignalShutdown, DropSender, TypeOK, ChannelTypes, GateTypes,
     ActorTypes, DrainTypes, gateVars, actorVars, drainVars
<1>2. CASE UNCHANGED vars
  BY <1>2 DEF vars, TypeOK, ChannelTypes, GateTypes, ActorTypes, DrainTypes,
     channelVars, gateVars, actorVars, drainVars
<1> QED BY <1>1, <1>2, GateTyped, ActorTyped, DrainTyped DEF Next

(* The types hold in every reachable state, whatever the number of calls, the *)
(* channel capacities, the limits and the traffic (checked by run `together`). *)
THEOREM TypeCorrect == Spec => []TypeOK
  BY InitTyped, NextTyped, PTL DEF Spec
-----------------------------------------------------------------------------
(* The reconnect limit and the backoff. *)

(* The limit holds before the first connection. *)
LEMMA InitBudget == Init => ReconnectBudget
  BY ActorAssumption DEF Init, ActorInit, ReconnectBudget

(* hit_max_reconnects is tested before every increment, so the limit is kept. *)
LEMMA NextBudget == TypeOK /\ ReconnectBudget /\ [Next]_vars => ReconnectBudget'
<1> SUFFICES ASSUME TypeOK, ReconnectBudget, [Next]_vars, MaxReconnects # NoLimit
             PROVE  ReconnectBudget'
  BY DEF ReconnectBudget
<1>1. /\ MaxReconnects \in Nat /\ CounterCap \in Nat /\ reconnects \in Nat
      /\ reconnects <= MaxReconnects
      /\ stoppedOnMax => reconnects = MaxReconnects /\ phase \in {"final", "stopped"}
  BY ActorAssumption DEF ReconnectBudget, TypeOK, ActorTypes
<1>2. ASSUME phase \notin {"final", "stopped"}, GiveUp \/ Retry PROVE ReconnectBudget'
  <2>1. CASE GiveUp
    BY <1>1, <2>1 DEF GiveUp, HitMax, Goto, ReconnectBudget
  <2>2. CASE Retry
    BY <1>1, <1>2, <2>2 DEF Retry, HitMax, Goto, ReconnectBudget
  <2> QED BY <1>2, <2>1, <2>2
<1>3. ASSUME UNCHANGED <<reconnects, stoppedOnMax>>,
             phase \in {"final", "stopped"} => phase' \in {"final", "stopped"}
      PROVE  ReconnectBudget'
  BY <1>1, <1>3 DEF ReconnectBudget
<1>4. CASE OpenErr
  BY <1>2, <1>4 DEF OpenErr
<1>5. CASE SessionOver
  <2>1. CASE Goto("final") /\ UNCHANGED loopVars
    BY <1>3, <2>1 DEF Goto, loopVars
  <2>2. CASE GiveUp \/ Retry
    BY <1>2, <1>5, <2>2 DEF SessionOver
  <2> QED BY <1>5, <2>1, <2>2 DEF SessionOver
<1>6. CASE ActorNext /\ ~OpenErr /\ ~SessionOver
  <2>1. UNCHANGED <<reconnects, stoppedOnMax>>
    BY <1>6 DEF ActorNext, ActorStep, LoopHead, OpenOk, BackoffStart, TimerFires,
       BackoffWakes, Stop, SessionHead, DrainRequest, DrainEmpty, TakeRequest, WriteDone,
       SelectShutdown, SelectRequest, SendFrame, SendFrameClosed, ReadData, ReadEnds,
       EndSession, loopVars
  <2>2. phase = "final" => phase' = "stopped"
    BY <1>6 DEF ActorNext, ActorStep, LoopHead, OpenOk, BackoffStart, TimerFires,
       BackoffWakes, Stop, SessionHead, DrainRequest, DrainEmpty, WriteDone,
       SelectShutdown, SelectRequest, SendFrame, SendFrameClosed, ReadData, ReadEnds,
       SelectsRead, Goto
  <2>3. phase # "stopped"
    BY <1>6 DEF ActorNext, ActorStep, LoopHead, OpenOk, BackoffStart, TimerFires,
       BackoffWakes, Stop, SessionHead, DrainRequest, DrainEmpty, WriteDone,
       SelectShutdown, SelectRequest, SendFrame, SendFrameClosed, ReadData, ReadEnds,
       SelectsRead, Goto
  <2> QED BY <1>3, <2>1, <2>2, <2>3
<1>7. CASE UNCHANGED actorVars
  BY <1>3, <1>7 DEF actorVars
<1>8. UNCHANGED vars => UNCHANGED actorVars
  BY DEF vars
<1> QED BY <1>4, <1>5, <1>6, <1>7, <1>8 DEF Next

(* hit_max_reconnects of actor.rs: the Actor reconnects max_reconnects times  *)
(* at most, and says that it stopped for that reason only then.              *)
THEOREM ReconnectsBounded == Spec => []ReconnectBudget
  BY TypeCorrect, InitBudget, NextBudget, PTL DEF Spec

(* run() keeps the sender of the watch until it has signalled. *)
LEMMA SenderStays == ASSUME ~SenderMayDrop
                     PROVE  Spec => [](shutdown # "dropped")
<1>1. Init => shutdown # "dropped"
  BY DEF Init, ChannelsInit
<1>2. shutdown # "dropped" /\ [Next]_vars => (shutdown # "dropped")'
  <2> SUFFICES ASSUME shutdown # "dropped", [Next]_vars PROVE shutdown' # "dropped"
    OBVIOUS
  <2>1. CASE RunNext
    BY <2>1 DEF RunNext, SignalShutdown, DropSender
  <2>2. CASE GateNext
    BY <2>2 DEF GateNext, BadCommand, Busy, Admit, CallStep, Cancel, DryRun, NoHandle, Send,
       SendClosed, ReplyOk, ReplyError, WindowEnds, End, channelVars
  <2>3. CASE ActorNext
    BY <2>3 DEF ActorNext, ActorStep, LoopHead, OpenOk, OpenErr, SessionOver, BackoffStart,
       TimerFires, BackoffWakes, Stop, SessionHead, DrainRequest, DrainEmpty, TakeRequest,
       WriteDone, SelectShutdown, SelectRequest, SendFrame, SendFrameClosed, ReadData,
       ReadEnds, channelVars
  <2>4. CASE DrainNext
    BY <2>4 DEF DrainNext, DrainStep, Receive, Apply, DrainEnds, ReceiverDies, channelVars
  <2>5. CASE UNCHANGED vars
    BY <2>5 DEF vars, channelVars
  <2> QED BY <2>1, <2>2, <2>3, <2>4, <2>5 DEF Next
<1> QED BY <1>1, <1>2, PTL DEF Spec

(* sleep_backoff_or_shutdown of actor.rs: with its sender alive, the Actor   *)
(* never goes back to connecting before its delay is over.                   *)
THEOREM BackoffSleptOut == ASSUME ~SenderMayDrop
                           PROVE  Spec => SleepsUnlessSignalled
<1>1. shutdown # "dropped" /\ [Next]_vars => [phase = "sleeping" => phase' # "top"]_vars
  <2> SUFFICES ASSUME shutdown # "dropped", [Next]_vars, phase = "sleeping"
               PROVE  phase' # "top"
    OBVIOUS
  <2>1. CASE ActorNext
    BY <2>1 DEF ActorNext, ActorStep, LoopHead, OpenOk, OpenErr, SessionOver, BackoffStart,
       TimerFires, BackoffWakes, Stop, SessionHead, DrainRequest, DrainEmpty,
       WriteDone, SelectShutdown, SelectRequest, SendFrame, SendFrameClosed, ReadData,
       ReadEnds, SelectsRead, Goto
  <2>2. CASE UNCHANGED actorVars
    BY <2>2 DEF actorVars
  <2>3. UNCHANGED vars => UNCHANGED actorVars
    BY DEF vars
  <2> QED BY <2>1, <2>2, <2>3 DEF Next
<1> QED BY <1>1, SenderStays, PTL DEF Spec, SleepsUnlessSignalled
-----------------------------------------------------------------------------
(* The stages that a frame passes through are sequences of frames. *)
LEMMA FrameTypes ==
  ASSUME TypeOK
  PROVE  /\ frameQ \in Seq(Frame) /\ applied \in Seq(Frame) /\ held \in Seq(Frame)
         /\ emitted \in Seq(Frame) /\ Len(held) <= 1
  BY DEF TypeOK, ChannelTypes, DrainTypes, ActorTypes

(* A step hands a frame from one stage to the next, adds one that the Actor   *)
(* sends, or drops the receiver with what has not been applied.               *)
LEMMA ArrivedStep ==
  ASSUME TypeOK, [Next]_vars
  PROVE  \/ UNCHANGED <<Arrived, emitted>> /\ dropped \subseteq dropped'
         \/ /\ "frameRx" \notin dropped
            /\ \E f \in Frame : Arrived' = Append(Arrived, f) /\ emitted' = Append(emitted, f)
         \/ /\ ReceiverMayDie /\ "frameRx" \in dropped'
            /\ Arrived' = applied /\ UNCHANGED emitted
<1>1. /\ frameQ \in Seq(Frame) /\ applied \in Seq(Frame) /\ held \in Seq(Frame)
      /\ emitted \in Seq(Frame) /\ Len(held) <= 1
  BY DEF TypeOK, ChannelTypes, DrainTypes, ActorTypes
<1>2. applied \o held \in Seq(Frame)
  BY <1>1, ConcatProperties
<1> DEFINE Same == UNCHANGED <<Arrived, emitted>> /\ dropped \subseteq dropped'
<1>3. ASSUME UNCHANGED <<emitted, applied, held, frameQ>>, dropped \subseteq dropped' PROVE Same
  BY <1>3 DEF Arrived
<1>4. CASE ActorNext /\ ~SendFrame /\ UNCHANGED <<gateVars, drainVars>>
  <2>1. UNCHANGED <<emitted, frameQ>> /\ dropped \subseteq dropped'
    BY <1>4 DEF ActorNext, ActorStep, LoopHead, OpenOk, OpenErr, SessionOver, BackoffStart,
       TimerFires, BackoffWakes, Stop, SessionHead, DrainRequest, DrainEmpty, TakeRequest,
       WriteDone, SelectShutdown, SelectRequest, SendFrameClosed, ReadData,
       ReadEnds, channelVars, linkVars
  <2>2. UNCHANGED <<applied, held>>
    BY <1>4 DEF drainVars
  <2> QED BY <1>3, <2>1, <2>2
<1>5. CASE SendFrame /\ UNCHANGED <<gateVars, drainVars>>
  <2>1. /\ frameQ' = Append(frameQ, Head(outbox)) /\ emitted' = Append(emitted, Head(outbox))
        /\ phase = "sending" /\ UNCHANGED <<applied, held>> /\ "frameRx" \notin dropped
    BY <1>5 DEF SendFrame, drainVars
  <2>2. outbox \in Seq(Frame) /\ outbox # <<>>
    BY <2>1 DEF TypeOK, ActorTypes
  <2>3. Head(outbox) \in Frame /\ <<Head(outbox)>> \in Seq(Frame)
    BY <2>2, HeadThenTail
  <2>4. frameQ' = frameQ \o <<Head(outbox)>> /\ Arrived \in Seq(Frame)
    BY <1>1, <1>2, <2>1, <2>3, AppendIsConcat, ConcatProperties DEF Arrived
  <2>5. (applied \o held \o frameQ) \o <<Head(outbox)>>
          = (applied \o held) \o (frameQ \o <<Head(outbox)>>)
    BY <1>1, <1>2, <2>3, ConcatAssociative
  <2>6. Append(Arrived, Head(outbox)) = Arrived \o <<Head(outbox)>>
    BY <2>3, <2>4, AppendIsConcat
  <2>7. Arrived' = Append(Arrived, Head(outbox))
    BY <2>1, <2>4, <2>5, <2>6 DEF Arrived
  <2> QED BY <2>1, <2>3, <2>7
<1>6. CASE Receive /\ UNCHANGED <<gateVars, actorVars>>
  <2>1. /\ held = <<>> /\ frameQ # <<>> /\ held' = <<Head(frameQ)>> /\ frameQ' = Tail(frameQ)
        /\ UNCHANGED <<applied, emitted, dropped>>
    BY <1>6 DEF Receive, viewVars, actorVars
  <2>2. /\ <<Head(frameQ)>> \in Seq(Frame) /\ Tail(frameQ) \in Seq(Frame)
        /\ <<Head(frameQ)>> \o Tail(frameQ) = frameQ
    BY <1>1, <2>1, HeadThenTail
  <2>3. (applied \o <<Head(frameQ)>>) \o Tail(frameQ) = applied \o frameQ
    BY <1>1, <2>2, ConcatAssociative
  <2>4. applied \o held = applied
    BY <1>1, <2>1, ConcatEmptySeq
  <2>5. Arrived' = Arrived
    BY <2>1, <2>3, <2>4 DEF Arrived
  <2> QED BY <2>1, <2>5
<1>7. CASE Apply /\ UNCHANGED <<gateVars, actorVars>>
  <2>1. /\ held # <<>> /\ held' = <<>> /\ applied' = Append(applied, Head(held))
        /\ UNCHANGED <<frameQ, emitted, dropped>>
    BY <1>7 DEF Apply, channelVars, actorVars
  <2>2. held = <<Head(held)>> /\ Head(held) \in Frame
    BY <1>1, <2>1, HeadOnly
  <2>3. applied' = applied \o held /\ applied' \in Seq(Frame)
    BY <1>1, <1>2, <2>1, <2>2, AppendIsConcat
  <2>4. applied' \o held' = applied'
    BY <2>1, <2>3, ConcatEmptySeq
  <2>5. Arrived' = Arrived
    BY <2>1, <2>3, <2>4 DEF Arrived
  <2> QED BY <2>1, <2>5
<1>8. CASE DrainEnds /\ UNCHANGED <<gateVars, actorVars>>
  BY <1>3, <1>8 DEF DrainEnds, drainVars, actorVars
<1>9. CASE GateNext /\ UNCHANGED <<actorVars, drainVars>>
  <2>1. UNCHANGED <<frameQ, dropped>>
    BY <1>9 DEF GateNext, BadCommand, Busy, Admit, CallStep, Cancel, DryRun, NoHandle, Send,
       SendClosed, ReplyOk, ReplyError, WindowEnds, End, channelVars
  <2> QED BY <1>3, <1>9, <2>1 DEF actorVars, drainVars
<1>10. CASE RunNext /\ UNCHANGED <<gateVars, actorVars, drainVars>>
  BY <1>3, <1>10 DEF RunNext, SignalShutdown, DropSender, actorVars, drainVars
<1>11. CASE UNCHANGED vars
  BY <1>3, <1>11 DEF vars, channelVars, actorVars, drainVars
<1>12. CASE ReceiverDies /\ UNCHANGED <<gateVars, actorVars>>
  <2>1. /\ ReceiverMayDie /\ "frameRx" \in dropped' /\ frameQ' = <<>> /\ held' = <<>>
        /\ UNCHANGED <<applied, emitted>>
    BY <1>12 DEF ReceiverDies, viewVars, actorVars
  <2>2. applied \o <<>> = applied
    BY <1>1, ConcatEmptySeq
  <2>3. Arrived' = applied
    BY <2>1, <2>2 DEF Arrived
  <2> QED BY <2>1, <2>3
<1> QED BY <1>4, <1>5, <1>6, <1>7, <1>8, <1>9, <1>10, <1>11, <1>12
        DEF Next, DrainNext, DrainStep

(* Where a frame on its way is. *)
LEMMA ArrivedTyped ==
  ASSUME TypeOK
  PROVE  /\ Arrived \in Seq(Frame) /\ Len(Arrived) \in Nat /\ Len(applied) <= Len(Arrived)
         /\ \A i \in 1..Len(applied) : Arrived[i] = applied[i]
         /\ held # <<>> => /\ Len(applied) + 1 \in 1..Len(Arrived)
                           /\ Arrived[Len(applied) + 1] = Head(held)
<1>1. /\ frameQ \in Seq(Frame) /\ applied \in Seq(Frame) /\ held \in Seq(Frame)
      /\ emitted \in Seq(Frame) /\ Len(held) <= 1
  BY DEF TypeOK, ChannelTypes, DrainTypes, ActorTypes
<1>2. Len(frameQ) \in Nat /\ Len(applied) \in Nat /\ Len(held) \in Nat
  BY <1>1, LenProperties
<1> DEFINE a == applied \o held
<1>3. /\ a \in Seq(Frame) /\ Len(a) = Len(applied) + Len(held)
      /\ \A i \in 1..(Len(applied) + Len(held)) :
           a[i] = IF i <= Len(applied) THEN applied[i] ELSE held[i - Len(applied)]
  BY <1>1, ConcatProperties
<1> HIDE DEF a
<1>4. /\ a \o frameQ \in Seq(Frame) /\ Len(a \o frameQ) = Len(a) + Len(frameQ)
      /\ \A i \in 1..(Len(a) + Len(frameQ)) :
           (a \o frameQ)[i] = IF i <= Len(a) THEN a[i] ELSE frameQ[i - Len(a)]
  BY <1>1, <1>3, ConcatProperties
<1>5. Arrived = a \o frameQ
  BY DEF Arrived, a
<1>6. \A i \in 1..Len(a) : Arrived[i] = a[i] /\ i \in 1..Len(Arrived)
  BY <1>2, <1>3, <1>4, <1>5
<1>7. ASSUME NEW i \in 1..Len(applied) PROVE Arrived[i] = applied[i]
  <2>1. i \in 1..(Len(applied) + Len(held)) /\ i <= Len(applied)
    BY <1>2
  <2> QED BY <1>3, <1>6, <2>1
<1>8. ASSUME held # <<>>
      PROVE  Len(applied) + 1 \in 1..Len(Arrived) /\ Arrived[Len(applied) + 1] = Head(held)
  <2>1. Len(held) = 1 /\ Head(held) = held[1]
    <3>1. held = <<Head(held)>> /\ Head(held) \in Frame
      BY <1>1, <1>8, HeadOnly
    <3>2. Len(<<Head(held)>>) = 1 /\ <<Head(held)>>[1] = Head(held)
      OBVIOUS
    <3> QED BY <3>1, <3>2
  <2>2. /\ Len(applied) + 1 \in 1..(Len(applied) + Len(held)) /\ ~(Len(applied) + 1 <= Len(applied))
        /\ Len(applied) + 1 - Len(applied) = 1
    BY <1>2, <2>1
  <2>3. a[Len(applied) + 1] = held[1]
    BY <1>3, <2>2
  <2>4. Len(applied) + 1 \in 1..Len(a)
    BY <1>3, <2>2
  <2> QED BY <1>6, <2>1, <2>3, <2>4
<1> QED BY <1>2, <1>3, <1>4, <1>5, <1>7, <1>8

LEMMA InitArrived == Init => ArrivedIsPrefix
<1> SUFFICES ASSUME Init PROVE ArrivedIsPrefix
  OBVIOUS
<1>1. emitted = <<>> /\ applied = <<>> /\ held = <<>> /\ frameQ = <<>>
  BY DEF Init, ActorInit, DrainInit, ChannelsInit
<1>2. <<>> \o <<>> = <<>> /\ Len(<<>>) = 0 /\ 1..0 = {}
  OBVIOUS
<1>3. Arrived = <<>>
  BY <1>1, <1>2 DEF Arrived
<1> QED BY <1>1, <1>2, <1>3 DEF ArrivedIsPrefix

LEMMA NextArrived == ASSUME TypeOK, ArrivedIsPrefix, [Next]_vars PROVE ArrivedIsPrefix'
<1>1. /\ Arrived \in Seq(Frame) /\ emitted \in Seq(Frame) /\ applied \in Seq(Frame)
      /\ Len(Arrived) \in Nat /\ Len(emitted) \in Nat /\ Len(applied) \in Nat
  BY ArrivedTyped, LenProperties DEF TypeOK, DrainTypes, ActorTypes
<1>2. CASE UNCHANGED <<Arrived, emitted>> /\ dropped \subseteq dropped'
  BY <1>2 DEF ArrivedIsPrefix
<1>3. CASE /\ "frameRx" \notin dropped
           /\ \E f \in Frame : Arrived' = Append(Arrived, f) /\ emitted' = Append(emitted, f)
  <2>1. Arrived = emitted
    BY <1>3 DEF ArrivedIsPrefix
  <2>2. Arrived' = emitted' /\ Len(emitted') \in Nat
    BY <1>1, <1>3, <2>1, AppendProperties
  <2> QED BY <2>2 DEF ArrivedIsPrefix
<1>4. CASE "frameRx" \in dropped' /\ Arrived' = applied /\ UNCHANGED emitted
  <2>1. Len(applied) <= Len(emitted)
    BY <1>1, ArrivedTyped DEF ArrivedIsPrefix
  <2>2. \A i \in 1..Len(applied) : applied[i] = emitted[i]
    BY <1>1, ArrivedTyped DEF ArrivedIsPrefix
  <2> QED BY <1>4, <2>1, <2>2 DEF ArrivedIsPrefix
<1> QED BY <1>2, <1>3, <1>4, ArrivedStep

(* No frame is on its way when the tasks start. *)
LEMMA InitNothingLost == Init => NothingLost
<1>1. Init => emitted = Arrived
  BY DEF Init, ActorInit, DrainInit, ChannelsInit, Arrived
<1> QED BY <1>1, InitArrived DEF NothingLost

(* A step hands a frame from one stage to the next, or touches none. *)
LEMMA NextNothingLost == TypeOK /\ NothingLost /\ [Next]_vars => NothingLost'
<1> SUFFICES ASSUME TypeOK, NothingLost, [Next]_vars PROVE NothingLost'
  OBVIOUS
<1>1. ArrivedIsPrefix'
  BY NextArrived DEF NothingLost
<1>2. ASSUME ~ReceiverMayDie PROVE emitted' = Arrived'
  <2>1. emitted = Arrived
    BY <1>2 DEF NothingLost
  <2>2. CASE UNCHANGED <<Arrived, emitted>>
    BY <2>1, <2>2
  <2>3. CASE \E f \in Frame : Arrived' = Append(Arrived, f) /\ emitted' = Append(emitted, f)
    BY <2>1, <2>3
  <2> QED BY <1>2, <2>2, <2>3, ArrivedStep
<1> QED BY <1>1, <1>2 DEF NothingLost

(* Between Framer and BusState no frame is lost, repeated or reordered, while *)
(* the drain of state.rs owns the receiver.                                  *)
THEOREM FramesArrive == Spec => []NothingLost
  BY TypeCorrect, InitNothingLost, NextNothingLost, PTL DEF Spec
-----------------------------------------------------------------------------
(* GET /status counts the frames that have been applied. *)
SeenIsApplied == framesSeen = Len(applied)

LEMMA NextSeen == TypeOK /\ SeenIsApplied /\ [Next]_vars => SeenIsApplied'
<1> SUFFICES ASSUME TypeOK, SeenIsApplied, [Next]_vars PROVE framesSeen' = Len(applied')
  BY DEF SeenIsApplied
<1>1. ASSUME UNCHANGED <<framesSeen, applied>> PROVE framesSeen' = Len(applied')
  BY <1>1 DEF SeenIsApplied
<1>2. CASE Apply
  <2>1. framesSeen' = framesSeen + 1 /\ applied' = Append(applied, Head(held)) /\ held # <<>>
    BY <1>2 DEF Apply
  <2>2. Len(applied') = Len(applied) + 1
    BY <2>1, FrameTypes, HeadOnly, AppendProperties
  <2> QED BY <2>1, <2>2 DEF SeenIsApplied
<1>3. CASE Receive \/ DrainEnds \/ ReceiverDies
  BY <1>1, <1>3 DEF Receive, DrainEnds, ReceiverDies, drainVars, viewVars
<1>4. CASE UNCHANGED drainVars
  BY <1>1, <1>4 DEF drainVars
<1>5. CASE UNCHANGED vars
  BY <1>4, <1>5 DEF vars
<1> QED BY <1>2, <1>3, <1>4, <1>5 DEF Next, DrainNext, DrainStep

FeedState == <<emitted, journal, missed, framesSeen + Len(held), framesSeen>>

(* The Actor's send is a frame of the bus. *)
LEMMA SendIsHear == ASSUME TypeOK, SendFrame, UNCHANGED drainVars PROVE Reader!Hear
<1>1. outbox \in Seq(Frame) /\ outbox # <<>> /\ emitted' = Append(emitted, Head(outbox))
  BY DEF SendFrame, TypeOK, ActorTypes
<1>2. Head(outbox) \in Frame /\ emitted \in Seq(Frame)
  BY <1>1, HeadThenTail, FrameTypes
<1>3. /\ Len(emitted) + 1 \in DOMAIN emitted'
      /\ emitted'[Len(emitted) + 1] = Head(outbox)
  BY <1>1, <1>2, AppendProperties
<1> QED BY <1>1, <1>3 DEF Reader!Hear, drainVars

(* What the drain receives is the next frame that is not on record yet. *)
LEMMA ReceiveIsRecord ==
  ASSUME TypeOK, NothingLost, SeenIsApplied, ~ReceiverMayDie, Receive, UNCHANGED actorVars
  PROVE  Reader!Record
<1>1. /\ held = <<>> /\ frameQ # <<>> /\ held' = <<Head(frameQ)>>
      /\ AppendBestEffort(Head(frameQ)) /\ UNCHANGED <<emitted, applied, framesSeen>>
  BY DEF Receive, viewVars, actorVars
<1>2. /\ frameQ \in Seq(Frame) /\ applied \in Seq(Frame)
      /\ emitted = applied \o frameQ
  <2>1. applied \o held = applied
    BY <1>1, FrameTypes, ConcatEmptySeq
  <2> QED BY <2>1, FrameTypes DEF NothingLost, Arrived
<1>3. /\ Len(frameQ) \in Nat \ {0} /\ Head(frameQ) = frameQ[1] /\ Head(frameQ) \in Frame
      /\ Len(applied) \in Nat
  BY <1>1, <1>2, HeadTailProperties, EmptySeq, LenProperties
<1>4. /\ Len(emitted) = Len(applied) + Len(frameQ)
      /\ emitted[Len(applied) + 1] = Head(frameQ)
  BY <1>2, <1>3, ConcatProperties
<1>5. Len(held) = 0 /\ Len(held') = 1
  BY <1>1, <1>3, SingletonSeq
<1>6. /\ framesSeen + Len(held) = Len(applied)
      /\ framesSeen' + Len(held') = Len(applied) + 1 /\ framesSeen' = framesSeen
  BY <1>1, <1>3, <1>5 DEF SeenIsApplied
<1>7. /\ Len(applied) < Len(emitted) /\ UNCHANGED emitted
      /\ \/ journal' = Append(journal, emitted[Len(applied) + 1]) /\ UNCHANGED missed
         \/ /\ ~JournalOn \/ JournalMayFail
            /\ missed' = missed \cup {emitted[Len(applied) + 1]} /\ UNCHANGED journal
  BY <1>1, <1>3, <1>4 DEF AppendBestEffort
<1> QED BY <1>6, <1>7 DEF Reader!Record

(* What it applies is on record or known to be missing. *)
LEMMA ApplyIsShow == ASSUME TypeOK, Apply, UNCHANGED actorVars PROVE Reader!Show
<1>1. /\ held # <<>> /\ held' = <<>> /\ framesSeen' = framesSeen + 1
      /\ UNCHANGED <<emitted, journal, missed>>
  BY DEF Apply, actorVars
<1>2. Len(held) = 1 /\ Len(held') = 0 /\ framesSeen \in Nat
  <2>1. Len(held) # 0 /\ Len(held) \in Nat /\ Len(held) <= 1
    BY <1>1, FrameTypes, EmptySeq, LenProperties
  <2>2. framesSeen \in Nat
    BY DEF TypeOK, DrainTypes
  <2>3. Len(held') = 0
    BY <1>1
  <2> QED BY <2>1, <2>2, <2>3
<1>3. framesSeen < framesSeen + Len(held) /\ framesSeen' + Len(held') = framesSeen + Len(held)
  BY <1>1, <1>2
<1> QED BY <1>1, <1>3 DEF Reader!Show

(* Every other step leaves the feed alone. *)
LEMMA NextFeed ==
  ASSUME TypeOK, NothingLost, SeenIsApplied, ~ReceiverMayDie, [Next]_vars
  PROVE  [Reader!Next]_FeedState
<1>1. CASE ActorNext /\ ~SendFrame /\ UNCHANGED <<gateVars, drainVars>>
  <2>1. UNCHANGED emitted
    BY <1>1 DEF ActorNext, ActorStep, LoopHead, OpenOk, OpenErr, SessionOver, BackoffStart,
       TimerFires, BackoffWakes, Stop, SessionHead, DrainRequest, DrainEmpty, TakeRequest,
       WriteDone, SelectShutdown, SelectRequest, SendFrameClosed, ReadData,
       ReadEnds, channelVars, linkVars
  <2> QED BY <1>1, <2>1 DEF drainVars, FeedState
<1>2. CASE SendFrame /\ UNCHANGED <<gateVars, drainVars>>
  BY <1>2, SendIsHear DEF Reader!Next
<1>3. CASE Receive /\ UNCHANGED <<gateVars, actorVars>>
  BY <1>3, ReceiveIsRecord DEF Reader!Next
<1>4. CASE Apply /\ UNCHANGED <<gateVars, actorVars>>
  BY <1>4, ApplyIsShow DEF Reader!Next
<1>5. CASE \/ DrainEnds /\ UNCHANGED <<gateVars, actorVars>>
           \/ GateNext /\ UNCHANGED <<actorVars, drainVars>>
           \/ RunNext /\ UNCHANGED <<gateVars, actorVars, drainVars>>
           \/ UNCHANGED vars
  BY <1>5 DEF DrainEnds, vars, actorVars, drainVars, FeedState
<1>6. ~ReceiverDies
  BY DEF ReceiverDies
<1> QED BY <1>1, <1>2, <1>3, <1>4, <1>5, <1>6 DEF Next, DrainNext, DrainStep

(* The frame path implements BusFeed while the drain of state.rs owns the    *)
(* receiver, with or without a journal and whichever appends fail: every     *)
(* frame is recorded or known to be missing, in bus order, before HTTP shows *)
(* it, and none is passed over.                                              *)
THEOREM ServiceImplementsBusFeed == ASSUME ~ReceiverMayDie
                                    PROVE  Spec => ImplementsBusFeed
<1>1. Init => SeenIsApplied /\ Reader!Init
  BY DEF Init, ActorInit, DrainInit, SeenIsApplied, Reader!Init
<1>2. TypeOK /\ NothingLost /\ SeenIsApplied /\ [Next]_vars => [Reader!Next]_FeedState
  BY NextFeed
<1> QED BY <1>1, <1>2, TypeCorrect, FramesArrive, NextSeen, PTL
        DEF Spec, ImplementsBusFeed, Reader!Spec, Reader!feedVars, FeedState
-----------------------------------------------------------------------------
(* The frames cut from the wire from the odd piece x on, up to piece b. *)
CutFrom(x, b) == [k \in 1..((b - x + 1) \div 2) |->
                    [head |-> x + 2*k - 2, tail |-> x + 2*k - 1]]

LEMMA CutFromTyped ==
  ASSUME NEW x \in Nat, NEW b \in Nat, x <= b + 1
  PROVE  /\ CutFrom(x, b) \in Seq(Frame)
         /\ Len(CutFrom(x, b)) = (b - x + 1) \div 2
         /\ (b - x + 1) \div 2 \in Nat
<1> DEFINE n == (b - x + 1) \div 2
<1>1. n \in Nat
  OBVIOUS
<1> HIDE DEF n
<1>2. \A k \in 1..n : [head |-> x + 2*k - 2, tail |-> x + 2*k - 1] \in Frame
  BY <1>1 DEF Frame
<1>3. CutFrom(x, b) = [k \in 1..n |-> [head |-> x + 2*k - 2, tail |-> x + 2*k - 1]]
  BY DEF CutFrom, n
<1>4. CutFrom(x, b) \in [1..n -> Frame]
  BY <1>2, <1>3
<1>5. CutFrom(x, b) \in Seq(Frame)
  BY <1>1, <1>4, FunctionIsSeq
<1>6. Len(CutFrom(x, b)) = n
  BY <1>1, <1>3, <1>5
<1> QED BY <1>1, <1>5, <1>6 DEF n

(* Where the framer starts to cut: at the half it holds, or else at the first  *)
(* first half that the read returns.                                          *)
CutStart == IF partial # 0 THEN partial ELSE IF rxPos % 2 = 1 THEN rxPos ELSE rxPos + 1

(* Framer::feed cuts what it holds and the read at the message boundaries.  *)
LEMMA FeedIsCut ==
  ASSUME TypeOK, FramerAligned, NEW b \in Nat, rxPos <= b
  PROVE  /\ CutStart \in Nat /\ CutStart % 2 = 1
         /\ CutStart <= b + 1 /\ CutStart >= rxPos - 1
         /\ Feed(partial, rxPos, b).frames = CutFrom(CutStart, b)
         /\ Feed(partial, rxPos, b).partial = IF (b + 1) % 2 = 0 THEN b ELSE 0
<1>1. rxPos \in Nat \ {0} /\ sessionFrom \in Nat \ {0} /\ partial \in Nat
  BY DEF TypeOK, ActorTypes
<1>2. /\ sessionFrom <= rxPos
      /\ partial = IF sessionFrom < rxPos /\ rxPos % 2 = 0 THEN rxPos - 1 ELSE 0
  BY DEF FramerAligned
<1>3. CASE partial = 0
  <2> DEFINE x == IF rxPos % 2 = 1 THEN rxPos ELSE rxPos + 1
             rest == [k \in 1..((b - x + 1) \div 2) |->
                       [head |-> x + 2*k - 2, tail |-> x + 2*k - 1]]
  <2>1. Feed(partial, rxPos, b) = [frames |-> <<>> \o rest,
                                   partial |-> IF b >= x /\ b % 2 = 1 THEN b ELSE 0]
    BY <1>3 DEF Feed
  <2>2. x \in Nat /\ x % 2 = 1 /\ x <= b + 1 /\ x >= rxPos - 1 /\ CutStart = x
    BY <1>1, <1>3 DEF CutStart
  <2>3. (b >= x /\ b % 2 = 1) <=> (b + 1) % 2 = 0
    BY <1>1, <2>2
  <2>4. rest = CutFrom(x, b)
    BY DEF CutFrom
  <2> HIDE DEF rest, x
  <2>5. <<>> \o rest = rest
    BY <2>2, <2>4, CutFromTyped, ConcatEmptySeq
  <2> QED BY <2>1, <2>2, <2>3, <2>4, <2>5
<1>4. CASE partial # 0
  <2>1. partial = rxPos - 1 /\ rxPos % 2 = 0 /\ rxPos >= 2
    BY <1>1, <1>2, <1>4
  <2> DEFINE x == rxPos - 1
             f == [head |-> x, tail |-> x + 1]
             rest == CutFrom(x + 2, b)
  <2>2. x \in Nat /\ x % 2 = 1 /\ x <= b + 1 /\ x >= rxPos - 1 /\ CutStart = x /\ x + 1 = rxPos
        /\ x # 0
    BY <1>1, <2>1 DEF CutStart
  <2>3. Feed(x, x + 1, b) = [frames |-> <<f>> \o rest,
                             partial |-> IF b >= x + 2 /\ b % 2 = 1 THEN b ELSE 0]
    <3> HIDE DEF x
    <3>1. (x + 1 + 1) % 2 = 1 /\ x + 1 + 1 = x + 2
      BY <2>2
    <3> QED BY <2>2, <3>1 DEF Feed, CutFrom
  <2>4. (b >= x + 2 /\ b % 2 = 1) <=> (b + 1) % 2 = 0
    BY <1>1, <2>2
  <2>5. <<f>> \o rest = CutFrom(x, b)
    <3> HIDE DEF x, rest
    <3>1. x + 2 <= b + 1 /\ x + 2 \in Nat
      BY <2>2
    <3>2. /\ rest \in Seq(Frame) /\ Len(rest) = (b - (x + 2) + 1) \div 2 /\ Len(rest) \in Nat
      BY <3>1, CutFromTyped DEF rest
    <3>3. /\ CutFrom(x, b) \in Seq(Frame) /\ Len(CutFrom(x, b)) = (b - x + 1) \div 2
      BY <2>2, CutFromTyped
    <3>4. Len(CutFrom(x, b)) = 1 + Len(rest)
      BY <2>2, <3>2, <3>3
    <3>5. f \in Frame /\ <<f>> \in Seq(Frame) /\ Len(<<f>>) = 1 /\ <<f>>[1] = f
      BY <2>2, SingletonSeq DEF Frame
    <3>6. /\ <<f>> \o rest \in Seq(Frame)
          /\ Len(<<f>> \o rest) = 1 + Len(rest)
          /\ \A i \in 1..(1 + Len(rest)) :
               (<<f>> \o rest)[i] = IF i <= 1 THEN <<f>>[i] ELSE rest[i - 1]
      <4> HIDE DEF f
      <4> QED BY <3>2, <3>5, ConcatProperties
    <3>7. ASSUME NEW i \in 1..(1 + Len(rest))
          PROVE  (<<f>> \o rest)[i] = CutFrom(x, b)[i]
      <4>1. CutFrom(x, b)[i] = [head |-> x + 2*i - 2, tail |-> x + 2*i - 1]
        BY <3>3, <3>4 DEF CutFrom
      <4>2. CASE i = 1
        BY <2>2, <3>5, <3>6, <4>1, <4>2
      <4>3. CASE i # 1
        <5>1. i - 1 \in 1..Len(rest)
          BY <3>2, <4>3
        <5>2. rest[i - 1] = [head |-> x + 2 + 2*(i - 1) - 2, tail |-> x + 2 + 2*(i - 1) - 1]
          BY <3>2, <5>1 DEF rest, CutFrom
        <5>3. x + 2 + 2*(i - 1) - 2 = x + 2*i - 2 /\ x + 2 + 2*(i - 1) - 1 = x + 2*i - 1
          BY <2>2, <3>2
        <5>4. (<<f>> \o rest)[i] = rest[i - 1]
          BY <3>2, <3>6, <4>3
        <5> QED BY <4>1, <5>2, <5>3, <5>4
      <4> QED BY <4>2, <4>3
    <3> QED BY <3>3, <3>4, <3>6, <3>7, SeqEqual
  <2>6. Feed(partial, rxPos, b) = Feed(x, x + 1, b)
    BY <2>1, <2>2
  <2> HIDE DEF x, f, rest
  <2> QED BY <2>2, <2>3, <2>4, <2>5, <2>6
<1> QED BY <1>3, <1>4

(* The messages that the cut frames hold are those completed within the        *)
(* connection.                                                                *)
LEMMA CutIsCompleted ==
  ASSUME TypeOK, FramerAligned, NEW b \in Nat, rxPos <= b
  PROVE  Messages(CutFrom(CutStart, b)) = CompletedBy(rxPos, b)
<1> DEFINE x == CutStart
           F == CutFrom(x, b)
           lo == IF sessionFrom > rxPos - 1 THEN (sessionFrom + 2) \div 2
                                            ELSE (rxPos + 1) \div 2
<1>1. rxPos \in Nat \ {0} /\ sessionFrom \in Nat \ {0} /\ partial \in Nat
  BY DEF TypeOK, ActorTypes
<1>2. /\ sessionFrom <= rxPos
      /\ partial = IF sessionFrom < rxPos /\ rxPos % 2 = 0 THEN rxPos - 1 ELSE 0
  BY DEF FramerAligned
<1>3. x \in Nat /\ x % 2 = 1 /\ x <= b + 1
  BY FeedIsCut
<1>4. lo = (x + 1) \div 2
  BY <1>1, <1>2 DEF CutStart
<1>5. (b \div 2) - lo + 1 = (b - x + 1) \div 2
  <2> HIDE DEF x, lo
  <2> QED BY <1>3, <1>4
<1> DEFINE n == (b - x + 1) \div 2
<1>6. n \in Nat /\ F \in Seq(Frame) /\ Len(F) = n /\ DOMAIN F = 1..n
  <2> HIDE DEF x
  <2> QED BY <1>3, CutFromTyped DEF CutFrom
<1>7. \A k \in 1..n : MessageOf(F[k]) = lo + k - 1
  <2> SUFFICES ASSUME NEW k \in 1..n PROVE MessageOf(F[k]) = lo + k - 1
    OBVIOUS
  <2>1. F[k] = [head |-> x + 2*k - 2, tail |-> x + 2*k - 1]
    BY DEF CutFrom
  <2>2. MessageOf(F[k]) = (x + 2*k - 2 + 1) \div 2
    BY <2>1 DEF MessageOf
  <2> HIDE DEF x, lo
  <2>3. k \in Nat
    BY <1>6
  <2> QED BY <1>3, <1>4, <2>2, <2>3
<1>8. CompletedBy(rxPos, b) = [k \in 1..n |-> lo + k - 1]
  BY <1>5 DEF CompletedBy
<1>9. Messages(F) = [k \in 1..n |-> MessageOf(F[k])]
  <2> HIDE DEF F, n
  <2> QED BY <1>6 DEF Messages
<1> HIDE DEF F, n, lo, x
<1> QED BY <1>7, <1>8, <1>9 DEF F, x

(* Frames are messages one by one. *)
LEMMA MessagesOfConcat ==
  ASSUME NEW s \in Seq(Frame), NEW t \in Seq(Frame)
  PROVE  Messages(s \o t) = Messages(s) \o Messages(t)
<1>1. /\ s \o t \in Seq(Frame) /\ Len(s \o t) = Len(s) + Len(t)
      /\ Len(s) \in Nat /\ Len(t) \in Nat
      /\ \A i \in 1..(Len(s) + Len(t)) :
           (s \o t)[i] = IF i <= Len(s) THEN s[i] ELSE t[i - Len(s)]
  BY ConcatProperties, LenProperties
<1>2. ASSUME NEW u \in Seq(Frame)
      PROVE  /\ Messages(u) \in Seq(Nat) /\ Len(Messages(u)) = Len(u)
             /\ \A i \in 1..Len(u) : Messages(u)[i] = MessageOf(u[i])
  <2>1. Len(u) \in Nat /\ DOMAIN u = 1..Len(u)
    BY LenProperties
  <2>2. \A i \in 1..Len(u) : MessageOf(u[i]) \in Nat
    <3> SUFFICES ASSUME NEW i \in 1..Len(u) PROVE MessageOf(u[i]) \in Nat
      OBVIOUS
    <3>1. u[i] \in Frame
      BY ElementOfSeq
    <3>2. u[i].head \in Nat
      BY <3>1 DEF Frame
    <3> QED BY <3>2 DEF MessageOf
  <2>3. Messages(u) = [i \in 1..Len(u) |-> MessageOf(u[i])]
    BY <2>1 DEF Messages
  <2>4. Messages(u) \in [1..Len(u) -> Nat]
    BY <2>2, <2>3
  <2>5. Messages(u) \in Seq(Nat)
    BY <2>1, <2>4, FunctionIsSeq
  <2> QED BY <2>1, <2>3, <2>5
<1>3. /\ Messages(s) \in Seq(Nat) /\ Len(Messages(s)) = Len(s)
      /\ Messages(t) \in Seq(Nat) /\ Len(Messages(t)) = Len(t)
      /\ Messages(s \o t) \in Seq(Nat) /\ Len(Messages(s \o t)) = Len(s) + Len(t)
  BY <1>1, <1>2
<1> DEFINE m == Messages(s) \o Messages(t)
<1>4. /\ m \in Seq(Nat) /\ Len(m) = Len(s) + Len(t)
      /\ \A i \in 1..(Len(s) + Len(t)) :
           m[i] = IF i <= Len(s) THEN Messages(s)[i] ELSE Messages(t)[i - Len(s)]
  <2> DEFINE u == Messages(s)
             v == Messages(t)
  <2>1. u \in Seq(Nat) /\ v \in Seq(Nat) /\ Len(u) = Len(s) /\ Len(v) = Len(t)
    BY <1>3
  <2> HIDE DEF u, v
  <2>2. /\ u \o v \in Seq(Nat) /\ Len(u \o v) = Len(u) + Len(v)
        /\ \A i \in 1..(Len(u) + Len(v)) :
             (u \o v)[i] = IF i <= Len(u) THEN u[i] ELSE v[i - Len(u)]
    BY <2>1, ConcatProperties
  <2>3. m = u \o v
    BY DEF u, v
  <2> QED BY <2>1, <2>2, <2>3 DEF u, v
<1>5. ASSUME NEW i \in 1..(Len(s) + Len(t)) PROVE Messages(s \o t)[i] = m[i]
  <2>1. Messages(s \o t)[i] = MessageOf((s \o t)[i])
    BY <1>1, <1>2
  <2>2. CASE i <= Len(s)
    <3> HIDE DEF m
    <3>1. i \in 1..Len(s) /\ (s \o t)[i] = s[i] /\ m[i] = Messages(s)[i]
      <4>1. i \in 1..Len(s)
        BY <1>1, <2>2
      <4> QED BY <1>1, <1>4, <2>2, <4>1
    <3>2. Messages(s)[i] = MessageOf(s[i])
      BY <1>2, <3>1
    <3> QED BY <2>1, <3>1, <3>2
  <2>3. CASE ~(i <= Len(s))
    <3> HIDE DEF m
    <3>1. /\ i - Len(s) \in 1..Len(t) /\ (s \o t)[i] = t[i - Len(s)]
          /\ m[i] = Messages(t)[i - Len(s)]
      <4>1. i - Len(s) \in 1..Len(t)
        BY <1>1, <2>3
      <4> QED BY <1>1, <1>4, <2>3, <4>1
    <3>2. Messages(t)[i - Len(s)] = MessageOf(t[i - Len(s)])
      BY <1>2, <3>1
    <3> QED BY <2>1, <3>1, <3>2
  <2> QED BY <2>2, <2>3
<1> HIDE DEF m
<1>6. Messages(s \o t) = m
  BY <1>3, <1>4, <1>5, SeqEqual
<1> QED BY <1>6 DEF m

(* The frames cut so far, sent or not. *)
LEMMA ProducedTyped ==
  ASSUME TypeOK
  PROVE  /\ emitted \in Seq(Frame) /\ outbox \in Seq(Frame) /\ Produced \in Seq(Frame)
         /\ Len(Produced) = Len(emitted) + Len(outbox)
         /\ Len(emitted) \in Nat /\ Len(outbox) \in Nat
         /\ \A i \in 1..(Len(emitted) + Len(outbox)) :
              Produced[i] = IF i <= Len(emitted) THEN emitted[i] ELSE outbox[i - Len(emitted)]
<1>1. emitted \in Seq(Frame) /\ outbox \in Seq(Frame)
  BY DEF TypeOK, ActorTypes
<1> QED BY <1>1, ConcatProperties, LenProperties DEF Produced

LEMMA InitWhole == Init => WholeFramesOnly
<1> SUFFICES ASSUME Init PROVE WholeFramesOnly
  OBVIOUS
<1>1. emitted = <<>> /\ outbox = <<>> /\ whole = <<>> /\ partial = 0 /\ rxPos = 1 /\ sessionFrom = 1
  BY DEF Init, ActorInit
<1>2. Produced = <<>>
  <2>1. <<>> \o <<>> = <<>>
    OBVIOUS
  <2> QED BY <1>1, <2>1 DEF Produced
<1>3. Len(<<>>) = 0 /\ 1..0 = {} /\ DOMAIN <<>> = {}
  OBVIOUS
<1>4. CutInOrder
  BY <1>2, <1>3 DEF CutInOrder
<1>5. Messages(Produced) = whole
  BY <1>1, <1>2, <1>3 DEF Messages
<1>6. FramerAligned
  BY <1>1 DEF FramerAligned
<1> QED BY <1>4, <1>5, <1>6 DEF WholeFramesOnly

(* A step that moves frames and reads nothing. *)
LEMMA WholeMoves ==
  ASSUME TypeOK, WholeFramesOnly, UNCHANGED <<partial, rxPos, sessionFrom, whole, Produced>>,
         dropped \subseteq dropped'
  PROVE  WholeFramesOnly'
<1>1. FramerAligned' /\ CutInOrder'
  BY DEF WholeFramesOnly, FramerAligned, CutInOrder
<1>2. ("frameRx" \notin dropped') => Messages(Produced)' = whole'
  <2>1. Messages(Produced)' = Messages(Produced)
    BY DEF Messages
  <2> QED BY <2>1 DEF WholeFramesOnly
<1> QED BY <1>1, <1>2 DEF WholeFramesOnly

(* Framer::feed and the messages that the connection carried. *)
LEMMA ReadDataCuts == ASSUME TypeOK, WholeFramesOnly, ReadData PROVE WholeFramesOnly'
<1>1. PICK b \in rxPos .. (rxPos + MaxRead - 1) :
        LET fed == Feed(partial, rxPos, b) IN
        /\ rxPos' = b + 1
        /\ partial' = fed.partial
        /\ outbox' = fed.frames
        /\ whole' = whole \o CompletedBy(rxPos, b)
  BY DEF ReadData
<1>2. UNCHANGED <<sessionFrom, emitted, dropped>> /\ phase = "select"
  BY DEF ReadData, SelectsRead, channelVars
<1>3. rxPos \in Nat \ {0} /\ sessionFrom \in Nat \ {0} /\ b \in Nat /\ rxPos <= b
  BY ActorAssumption, <1>1 DEF TypeOK, ActorTypes
<1> DEFINE x == CutStart
           F == CutFrom(x, b)
<1>4. FramerAligned /\ CutInOrder
  BY DEF WholeFramesOnly
<1>5. x \in Nat /\ x % 2 = 1 /\ x <= b + 1 /\ x >= rxPos - 1
  BY <1>3, <1>4, FeedIsCut
<1>6. outbox' = F /\ partial' = (IF (b + 1) % 2 = 0 THEN b ELSE 0)
  BY <1>1, <1>3, <1>4, FeedIsCut
<1>7. outbox = <<>> /\ Produced = emitted
  <2>1. outbox = <<>>
    BY <1>2 DEF TypeOK, ActorTypes
  <2> QED BY <2>1, ProducedTyped, ConcatEmptySeq DEF Produced
<1>8. FramerAligned'
  <2>1. sessionFrom' <= rxPos' /\ sessionFrom' < rxPos'
    BY <1>1, <1>2, <1>3, <1>4 DEF FramerAligned
  <2>2. partial' = IF rxPos' % 2 = 0 THEN rxPos' - 1 ELSE 0
    BY <1>1, <1>3, <1>6
  <2> QED BY <2>1, <2>2 DEF FramerAligned
<1>9. /\ Produced' \in Seq(Frame) /\ Len(Produced') = Len(emitted) + Len(F)
      /\ emitted \in Seq(Frame) /\ Len(emitted) \in Nat /\ Len(F) \in Nat /\ F \in Seq(Frame)
      /\ \A i \in 1..(Len(emitted) + Len(F)) :
           Produced'[i] = IF i <= Len(emitted) THEN emitted[i] ELSE F[i - Len(emitted)]
  <2>1. Produced' = emitted \o F
    BY <1>2, <1>6 DEF Produced
  <2>2. F \in Seq(Frame) /\ emitted \in Seq(Frame)
    <3> HIDE DEF x
    <3> QED BY <1>3, <1>5, ProducedTyped, CutFromTyped
  <2> HIDE DEF F
  <2> QED BY <2>1, <2>2, ConcatProperties, LenProperties
<1>10. \A i \in 1..Len(emitted) : /\ emitted[i].head \in Nat
                                  /\ emitted[i].head % 2 = 1
                                  /\ emitted[i].tail = emitted[i].head + 1
                                  /\ emitted[i].tail < rxPos
  <2>1. \A i \in 1..Len(emitted) : emitted[i] \in Frame
    BY <1>9, ElementOfSeq
  <2>2. \A i \in 1..Len(emitted) : emitted[i].head \in Nat
    BY <2>1 DEF Frame
  <2> QED BY <1>4, <1>7, <2>2 DEF CutInOrder
<1>11. \A i \in 1..Len(F) : F[i].head = x + 2*i - 2 /\ F[i].tail = x + 2*i - 1 /\ x + 2*i - 1 <= b
  <2> SUFFICES ASSUME NEW i \in 1..Len(F)
               PROVE  F[i].head = x + 2*i - 2 /\ F[i].tail = x + 2*i - 1 /\ x + 2*i - 1 <= b
    OBVIOUS
  <2> HIDE DEF x
  <2>1. Len(F) = (b - x + 1) \div 2
    BY <1>3, <1>5, CutFromTyped
  <2>2. F[i] = [head |-> x + 2*i - 2, tail |-> x + 2*i - 1]
    BY <2>1 DEF CutFrom
  <2>3. i \in Nat /\ 1 <= i /\ i <= (b - x + 1) \div 2
    BY <1>9, <2>1
  <2>4. 2*i <= b - x + 1
    BY <1>3, <1>5, <2>3
  <2> QED BY <1>3, <1>5, <2>2, <2>3, <2>4
<1> HIDE DEF F, x
<1>12. CutInOrder'
  <2>1. ASSUME NEW i \in 1..Len(Produced')
        PROVE  /\ Produced'[i].head % 2 = 1
               /\ Produced'[i].tail = Produced'[i].head + 1
               /\ Produced'[i].tail < rxPos'
    <3>1. CASE i <= Len(emitted)
      <4>1. i \in 1..Len(emitted) /\ Produced'[i] = emitted[i]
        BY <1>9, <3>1
      <4>2. emitted[i].tail < rxPos'
        BY <1>1, <1>3, <1>10, <4>1
      <4> QED BY <1>10, <4>1, <4>2
    <3>2. CASE ~(i <= Len(emitted))
      <4>1. i - Len(emitted) \in 1..Len(F) /\ Produced'[i] = F[i - Len(emitted)]
        BY <1>9, <3>2
      <4> DEFINE k == i - Len(emitted)
      <4>2. /\ k \in Nat /\ F[k].head = x + 2*k - 2 /\ F[k].tail = x + 2*k - 1
            /\ x + 2*k - 1 <= b
        BY <1>9, <1>11, <4>1
      <4>3. (x + 2*k - 2) % 2 = 1 /\ x + 2*k - 1 < rxPos'
        <5> HIDE DEF k
        <5> QED BY <1>1, <1>3, <1>5, <4>2
      <4>4. F[k].tail = F[k].head + 1
        <5> HIDE DEF k
        <5> QED BY <1>5, <4>2
      <4> QED BY <4>1, <4>2, <4>3, <4>4
    <3> QED BY <3>1, <3>2
  <2>2. ASSUME NEW i \in 1..Len(Produced'), NEW j \in 1..Len(Produced'), i < j
        PROVE  Produced'[i].head < Produced'[j].head
    <3>1. CASE j <= Len(emitted)
      <4>1. /\ i \in 1..Len(emitted) /\ j \in 1..Len(emitted)
            /\ Produced'[i] = emitted[i] /\ Produced'[j] = emitted[j]
        BY <1>9, <2>2, <3>1
      <4> QED BY <1>4, <1>7, <2>2, <4>1 DEF CutInOrder
    <3>2. CASE i <= Len(emitted) /\ ~(j <= Len(emitted))
      <4>1. /\ i \in 1..Len(emitted) /\ j - Len(emitted) \in 1..Len(F)
            /\ Produced'[i] = emitted[i] /\ Produced'[j] = F[j - Len(emitted)]
        BY <1>9, <2>2, <3>2
      <4> DEFINE k == j - Len(emitted)
      <4>2. F[k].head = x + 2*k - 2 /\ k \in Nat /\ k >= 1
        BY <1>9, <1>11, <4>1
      <4>3. emitted[i].head \in Nat /\ emitted[i].head + 1 < rxPos
        BY <1>10, <4>1
      <4>4. emitted[i].head < x + 2*k - 2
        <5> HIDE DEF k
        <5> QED BY <1>3, <1>5, <4>2, <4>3
      <4> QED BY <4>1, <4>2, <4>4
    <3>3. CASE ~(i <= Len(emitted))
      <4>1. /\ i - Len(emitted) \in 1..Len(F) /\ j - Len(emitted) \in 1..Len(F)
            /\ Produced'[i] = F[i - Len(emitted)] /\ Produced'[j] = F[j - Len(emitted)]
        <5>1. i - Len(emitted) \in 1..Len(F) /\ j - Len(emitted) \in 1..Len(F) /\ ~(j <= Len(emitted))
          BY <1>9, <2>2, <3>3
        <5> QED BY <1>9, <2>2, <3>3, <5>1
      <4>2. /\ F[i - Len(emitted)].head = x + 2*(i - Len(emitted)) - 2
            /\ F[j - Len(emitted)].head = x + 2*(j - Len(emitted)) - 2
        BY <1>11, <4>1
      <4>3. x + 2*(i - Len(emitted)) - 2 < x + 2*(j - Len(emitted)) - 2
        BY <1>5, <1>9, <2>2
      <4> QED BY <4>1, <4>2, <4>3
    <3> QED BY <1>9, <2>2, <3>1, <3>2, <3>3
  <2> QED BY <2>1, <2>2 DEF CutInOrder
<1>13. ("frameRx" \notin dropped') => Messages(Produced)' = whole'
  <2> SUFFICES ASSUME "frameRx" \notin dropped' PROVE Messages(Produced)' = whole'
    OBVIOUS
  <2>1. Messages(emitted) = whole
    BY <1>2, <1>7 DEF WholeFramesOnly
  <2>2. Messages(F) = CompletedBy(rxPos, b)
    BY <1>3, <1>4, CutIsCompleted DEF F, x
  <2>3. Produced' = emitted \o F
    BY <1>2, <1>6 DEF Produced
  <2>4. Messages(emitted \o F) = Messages(emitted) \o Messages(F)
    BY <1>9, MessagesOfConcat
  <2>5. Messages(Produced)' = Messages(emitted \o F)
    BY <2>3 DEF Messages
  <2> QED BY <1>1, <2>1, <2>2, <2>4, <2>5
<1> QED BY <1>8, <1>12, <1>13 DEF WholeFramesOnly

(* SendFrame moves the first frame of the outbox to the end of emitted. *)
LEMMA SendKeepsProduced == ASSUME TypeOK, SendFrame PROVE Produced' = Produced
<1>1. /\ emitted' = Append(emitted, Head(outbox)) /\ outbox' = Tail(outbox)
      /\ outbox # <<>>
  BY DEF SendFrame, TypeOK, ActorTypes
<1>2. /\ Head(outbox) \in Frame /\ Tail(outbox) \in Seq(Frame) /\ <<Head(outbox)>> \in Seq(Frame)
      /\ <<Head(outbox)>> \o Tail(outbox) = outbox
  BY <1>1, ProducedTyped, HeadThenTail
<1>3. emitted' = emitted \o <<Head(outbox)>>
  BY <1>1, <1>2, ProducedTyped, AppendIsConcat
<1>4. (emitted \o <<Head(outbox)>>) \o Tail(outbox) = emitted \o (<<Head(outbox)>> \o Tail(outbox))
  BY <1>2, ProducedTyped, ConcatAssociative
<1> QED BY <1>1, <1>2, <1>3, <1>4 DEF Produced

(* Without a receiver the rest of a read is dropped. *)
LEMMA SendClosedCuts == ASSUME TypeOK, WholeFramesOnly, SendFrameClosed PROVE WholeFramesOnly'
<1>1. /\ UNCHANGED <<partial, rxPos, sessionFrom, whole, emitted, dropped>> /\ outbox' = <<>>
      /\ "frameRx" \in dropped
  BY DEF SendFrameClosed, channelVars
<1>2. Produced' = emitted
  BY <1>1, ProducedTyped, ConcatEmptySeq DEF Produced
<1>3. /\ Len(emitted) <= Len(Produced) /\ Len(emitted) \in Nat
      /\ \A i \in 1..Len(emitted) : Produced[i] = emitted[i] /\ i \in 1..Len(Produced)
  BY ProducedTyped
<1>4. CutInOrder'
  BY <1>1, <1>2, <1>3 DEF WholeFramesOnly, CutInOrder
<1>5. FramerAligned'
  BY <1>1 DEF WholeFramesOnly, FramerAligned
<1> QED BY <1>1, <1>4, <1>5 DEF WholeFramesOnly

(* Framer::reset: a new connection starts with nothing held. *)
LEMMA OpenCuts == ASSUME TypeOK, WholeFramesOnly, OpenOk PROVE WholeFramesOnly'
<1>1. /\ UNCHANGED <<outbox, whole, emitted, dropped>> /\ partial' = 0
      /\ rxPos' \in rxPos .. LastPiece + 1 /\ sessionFrom' = rxPos'
  BY DEF OpenOk, channelVars
<1>2. rxPos \in Nat /\ rxPos' \in Nat /\ rxPos <= rxPos'
  BY <1>1 DEF TypeOK, ActorTypes
<1>3. FramerAligned'
  <2>1. sessionFrom' <= rxPos' /\ ~(sessionFrom' < rxPos')
    BY <1>1, <1>2
  <2> QED BY <1>1, <2>1 DEF FramerAligned
<1>4. Produced' = Produced
  BY <1>1 DEF Produced
<1>5. CutInOrder'
  <2>1. \A i \in 1..Len(Produced) : Produced[i].tail \in Nat
    <3>1. \A i \in 1..Len(Produced) : Produced[i] \in Frame
      BY ProducedTyped, ElementOfSeq
    <3> QED BY <3>1 DEF Frame
  <2>2. \A i \in 1..Len(Produced) : Produced[i].tail < rxPos'
    BY <1>2, <2>1 DEF WholeFramesOnly, CutInOrder
  <2> QED BY <1>4, <2>2 DEF WholeFramesOnly, CutInOrder
<1>6. ("frameRx" \notin dropped') => Messages(Produced)' = whole'
  <2>1. Messages(Produced)' = Messages(Produced)
    BY <1>4 DEF Messages
  <2> QED BY <1>1, <2>1 DEF WholeFramesOnly
<1> QED BY <1>3, <1>5, <1>6 DEF WholeFramesOnly

LEMMA NextWhole == ASSUME TypeOK, WholeFramesOnly, [Next]_vars PROVE WholeFramesOnly'
<1>1. ASSUME UNCHANGED linkVars, dropped \subseteq dropped' PROVE WholeFramesOnly'
  BY <1>1, WholeMoves DEF linkVars, Produced
<1>2. CASE ReadData
  BY <1>2, ReadDataCuts
<1>3. CASE SendFrame
  <2>1. UNCHANGED <<partial, rxPos, sessionFrom, whole, dropped>>
    BY <1>3 DEF SendFrame
  <2> QED BY <1>3, <2>1, SendKeepsProduced, WholeMoves
<1>4. CASE SendFrameClosed
  BY <1>4, SendClosedCuts
<1>5. CASE OpenOk
  BY <1>5, OpenCuts
<1>6. CASE ActorNext /\ ~ReadData /\ ~SendFrame /\ ~SendFrameClosed /\ ~OpenOk
  BY <1>1, <1>6 DEF ActorNext, ActorStep, LoopHead, OpenErr, SessionOver, BackoffStart,
     TimerFires, BackoffWakes, Stop, SessionHead, DrainRequest, DrainEmpty, TakeRequest,
     WriteDone, SelectShutdown, SelectRequest, ReadEnds, channelVars
<1>7. CASE GateNext /\ UNCHANGED <<actorVars, drainVars>>
  <2>1. UNCHANGED dropped
    BY <1>7 DEF GateNext, BadCommand, Busy, Admit, CallStep, Cancel, DryRun, NoHandle, Send,
       SendClosed, ReplyOk, ReplyError, WindowEnds, End, channelVars
  <2> QED BY <1>1, <1>7, <2>1 DEF actorVars, linkVars
<1>8. CASE DrainNext /\ UNCHANGED <<gateVars, actorVars>>
  <2>1. dropped \subseteq dropped'
    BY <1>8 DEF DrainNext, DrainStep, Receive, Apply, DrainEnds, ReceiverDies, channelVars
  <2> QED BY <1>1, <1>8, <2>1 DEF actorVars, linkVars
<1>9. CASE RunNext /\ UNCHANGED <<gateVars, actorVars, drainVars>>
  BY <1>1, <1>9 DEF RunNext, SignalShutdown, DropSender, actorVars, linkVars
<1>10. CASE UNCHANGED vars
  BY <1>1, <1>10 DEF vars, channelVars, actorVars, linkVars
<1> QED BY <1>2, <1>3, <1>4, <1>5, <1>6, <1>7, <1>8, <1>9, <1>10 DEF Next

(* The frames given to the drain are the messages received within one        *)
(* connection, wherever the reads cut them, whenever the Actor reconnects and *)
(* however full the channel is.                                              *)
THEOREM FramesAreWhole == Spec => []WholeFramesOnly
<1>1. TypeOK /\ WholeFramesOnly /\ [Next]_vars => WholeFramesOnly'
  BY NextWhole
<1> QED BY <1>1, TypeCorrect, InitWhole, PTL DEF Spec
-----------------------------------------------------------------------------
(* What is applied next comes later on the wire than all that was applied.   *)
LEMMA AppliedInOrder ==
  ASSUME TypeOK, CutInOrder, ArrivedIsPrefix, held # <<>>
  PROVE  \A g \in On(applied) : MessageOf(g) <= MessageOf(Head(held))
<1> SUFFICES ASSUME NEW i \in 1..Len(applied)
             PROVE  MessageOf(applied[i]) <= MessageOf(Head(held))
  <2>1. DOMAIN applied = 1..Len(applied)
    BY LenProperties DEF TypeOK, DrainTypes
  <2> QED BY <2>1 DEF On
<1>1. Len(applied) \in Nat /\ Len(Arrived) \in Nat /\ Len(emitted) \in Nat /\ i \in Nat
  BY LenProperties, ArrivedTyped DEF TypeOK, DrainTypes, ActorTypes
<1> DEFINE j == Len(applied) + 1
<1>2. /\ Arrived[i] = applied[i] /\ Arrived[j] = Head(held) /\ j \in 1..Len(Arrived)
      /\ i \in 1..Len(Arrived)
  BY <1>1, ArrivedTyped
<1>3. i < j
  BY <1>1
<1> HIDE DEF j
<1>4. /\ applied[i] = emitted[i] /\ Head(held) = emitted[j]
      /\ i \in 1..Len(emitted) /\ j \in 1..Len(emitted)
  BY <1>1, <1>2 DEF ArrivedIsPrefix
<1>5. /\ Produced[i] = emitted[i] /\ Produced[j] = emitted[j]
      /\ i \in 1..Len(Produced) /\ j \in 1..Len(Produced)
  BY <1>4, ProducedTyped
<1>6. Produced[i].head < Produced[j].head
  BY <1>3, <1>5 DEF CutInOrder
<1>7. applied[i].head \in Nat /\ Head(held).head \in Nat /\ applied[i].head < Head(held).head
  <2>1. emitted[i] \in Frame /\ emitted[j] \in Frame
    BY <1>4, ElementOfSeq, ProducedTyped
  <2> QED BY <1>4, <1>5, <1>6, <2>1 DEF Frame
<1> QED BY <1>7 DEF MessageOf
-----------------------------------------------------------------------------
(* What of the view the steps of the drain keep; GET /frames follows from it. *)
ViewInv == SnapshotIsLatest /\ CountsAreTrue /\ RingIsEnd

(* A sequence has the elements it had and the one that is appended. *)
LEMMA OnAppend ==
  ASSUME NEW S, NEW s \in Seq(S), NEW e \in S
  PROVE  On(Append(s, e)) = On(s) \cup {e}
<1>1. /\ Len(s) \in Nat /\ DOMAIN s = 1..Len(s) /\ DOMAIN Append(s, e) = 1..(Len(s) + 1)
      /\ \A i \in 1..Len(s) : Append(s, e)[i] = s[i]
      /\ Append(s, e)[Len(s) + 1] = e
  BY AppendProperties, LenProperties
<1>2. \A i \in 1..(Len(s) + 1) : i \in 1..Len(s) \/ i = Len(s) + 1
  BY <1>1
<1>3. \A i \in 1..Len(s) : i \in 1..(Len(s) + 1)
  BY <1>1
<1>4. Len(s) + 1 \in 1..(Len(s) + 1)
  BY <1>1
<1>5. On(Append(s, e)) \subseteq On(s) \cup {e}
  BY <1>1, <1>2, Zenon DEF On
<1>6. On(s) \subseteq On(Append(s, e))
  <2>1. \A i \in DOMAIN s : i \in DOMAIN Append(s, e) /\ Append(s, e)[i] = s[i]
    BY <1>1, <1>3
  <2> QED BY <2>1 DEF On
<1>7. e \in On(Append(s, e))
  BY <1>1, <1>4 DEF On
<1> QED BY <1>5, <1>6, <1>7

(* One more bad frame, or as many as before. *)
LEMMA BadAppend ==
  ASSUME NEW s \in Seq(Frame), NEW f \in Frame
  PROVE  Cardinality(Bad(Append(s, f)))
           = Cardinality(Bad(s)) + (IF ChecksumOk(f) THEN 0 ELSE 1)
         /\ Cardinality(Bad(s)) \in Nat
<1>1. /\ Len(s) \in Nat /\ DOMAIN s = 1..Len(s) /\ DOMAIN Append(s, f) = 1..(Len(s) + 1)
      /\ \A i \in 1..Len(s) : Append(s, f)[i] = s[i]
      /\ Append(s, f)[Len(s) + 1] = f
  BY AppendProperties, LenProperties
<1>2. /\ \A i \in 1..(Len(s) + 1) : i \in 1..Len(s) \/ i = Len(s) + 1
      /\ \A i \in 1..Len(s) : i \in 1..(Len(s) + 1)
      /\ Len(s) + 1 \in 1..(Len(s) + 1) /\ Len(s) + 1 \notin 1..Len(s)
  BY <1>1
<1>3. IsFiniteSet(Bad(s)) /\ Len(s) + 1 \notin Bad(s)
  <2>1. IsFiniteSet(1..Len(s))
    <3>1. 1 \in Int /\ Len(s) \in Int
      BY <1>1
    <3> QED BY <3>1, FS_Interval, Zenon
  <2>2. Bad(s) \subseteq 1..Len(s)
    BY <1>1 DEF Bad
  <2> QED BY <1>2, <2>1, <2>2, FS_Subset
<1>4. CASE ChecksumOk(f)
  <2>1. Bad(Append(s, f)) = Bad(s)
    BY <1>1, <1>2, <1>4, Zenon DEF Bad
  <2> QED BY <1>3, <1>4, <2>1, FS_CardinalityType
<1>5. CASE ~ChecksumOk(f)
  <2>1. Bad(Append(s, f)) \subseteq Bad(s) \cup {Len(s) + 1}
    BY <1>1, <1>2, Zenon DEF Bad
  <2>2. \A i \in Bad(s) : i \in Bad(Append(s, f))
    <3>1. \A i \in Bad(s) : i \in DOMAIN Append(s, f) /\ ~ChecksumOk(Append(s, f)[i])
      BY <1>1, <1>2, Zenon DEF Bad
    <3> QED BY <3>1 DEF Bad
  <2>3. Len(s) + 1 \in Bad(Append(s, f))
    BY <1>1, <1>2, <1>5 DEF Bad
  <2>4. Bad(Append(s, f)) = Bad(s) \cup {Len(s) + 1}
    BY <2>1, <2>2, <2>3
  <2> QED BY <1>3, <1>5, <2>4, FS_AddElement, FS_CardinalityType
<1> QED BY <1>4, <1>5

LEMMA InitView == Init => ViewInv
<1> SUFFICES ASSUME Init PROVE ViewInv
  OBVIOUS
<1>1. /\ applied = <<>> /\ ring = <<>> /\ quarantined = 0 /\ framesSeen = 0
      /\ snapshot = [sys |-> 0, temp |-> 0]
  BY DEF Init, DrainInit
<1>2. Len(<<>>) = 0 /\ 1..0 = {} /\ DOMAIN <<>> = {}
  OBVIOUS
<1>3. On(applied) = {} /\ Bad(applied) = {}
  BY <1>1, <1>2 DEF On, Bad
<1>4. SnapshotIsLatest
  BY <1>1, <1>3 DEF SnapshotIsLatest, LatestOf, StatusResponse
<1>5. CountsAreTrue
  BY <1>1, <1>2, <1>3, FS_EmptySet DEF CountsAreTrue, StatusResponse
<1>6. RingIsEnd
  BY <1>1, <1>2, DrainAssumption DEF RingIsEnd
<1> QED BY <1>4, <1>5, <1>6 DEF ViewInv

(* BusState::apply shows a good frame of its kind, counts a bad one, and      *)
(* pushes every frame to the ring.                                           *)
LEMMA ApplyView ==
  ASSUME TypeOK, CutInOrder, ArrivedIsPrefix, ViewInv, Apply
  PROVE  ViewInv'
<1> DEFINE f == Head(held)
<1>1. /\ held # <<>>
      /\ snapshot' = IF DecodeFrame(f) \in {"sys", "temp"}
                       THEN [snapshot EXCEPT ![DecodeFrame(f)] = MessageOf(f)]
                       ELSE snapshot
      /\ quarantined' = IF DecodeFrame(f) = "quarantined" THEN quarantined + 1 ELSE quarantined
      /\ ring' = PushRing(ring, f)
      /\ applied' = Append(applied, f) /\ framesSeen' = framesSeen + 1
  BY DEF Apply
<1>2. /\ f \in Frame /\ applied \in Seq(Frame) /\ ring \in Seq(Frame)
      /\ snapshot \in [{"sys", "temp"} -> Nat] /\ quarantined \in Nat
  BY <1>1, HeadTailProperties DEF TypeOK, DrainTypes
<1>3. \A g \in On(applied) : MessageOf(g) <= MessageOf(f)
  BY <1>1, AppliedInOrder
<1>4. \A k \in {"sys", "temp"} :
        DecodeFrame(f) = k <=> ChecksumOk(f) /\ Stream[MessageOf(f)] = k
  BY DEF DecodeFrame
<1>5. (DecodeFrame(f) = "quarantined") <=> ~ChecksumOk(f)
  BY DEF DecodeFrame
<1>6. MessageOf(f) \in Nat
  BY <1>2 DEF MessageOf, Frame
<1> HIDE DEF f
<1>7. SnapshotIsLatest'
  <2> SUFFICES ASSUME NEW k \in {"sys", "temp"}
               PROVE  /\ \A m \in LatestOf(k)' : m <= snapshot'[k]
                      /\ snapshot'[k] \in LatestOf(k)' \cup {0}
    BY DEF SnapshotIsLatest, StatusResponse
  <2>1. On(applied') = On(applied) \cup {f}
    BY <1>1, <1>2, OnAppend
  <2>2. \A m \in LatestOf(k) : m <= MessageOf(f)
    BY <1>3 DEF LatestOf
  <2>3. CASE DecodeFrame(f) = k
    <3>1. snapshot'[k] = MessageOf(f)
      BY <1>1, <1>2, <2>3
    <3>2. LatestOf(k)' = LatestOf(k) \cup {MessageOf(f)}
      BY <1>4, <2>1, <2>3 DEF LatestOf
    <3> QED BY <1>6, <2>2, <3>1, <3>2
  <2>4. CASE DecodeFrame(f) # k
    <3>1. snapshot'[k] = snapshot[k]
      BY <1>1, <1>2, <2>4
    <3>2. LatestOf(k)' = LatestOf(k)
      BY <1>4, <2>1, <2>4 DEF LatestOf
    <3> QED BY <3>1, <3>2 DEF ViewInv, SnapshotIsLatest, StatusResponse
  <2> QED BY <2>3, <2>4
<1>8. CountsAreTrue'
  <2>1. Cardinality(Bad(applied'))
          = Cardinality(Bad(applied)) + (IF ChecksumOk(f) THEN 0 ELSE 1)
    BY <1>1, <1>2, BadAppend
  <2>2. quarantined' = quarantined + (IF ChecksumOk(f) THEN 0 ELSE 1)
    BY <1>1, <1>2, <1>5
  <2>3. framesSeen' = Len(applied')
    BY <1>1, <1>2, AppendProperties DEF ViewInv, CountsAreTrue, StatusResponse
  <2>4. quarantined' = Cardinality(Bad(applied'))
    BY <2>1, <2>2 DEF ViewInv, CountsAreTrue, StatusResponse
  <2> QED BY <2>3, <2>4 DEF CountsAreTrue, StatusResponse, Bad
<1>9. RingIsEnd'
  <2>1. /\ Len(ring) \in Nat /\ Len(applied) \in Nat /\ RingCap \in Nat \ {0}
        /\ Len(ring) = IF Len(applied) < RingCap THEN Len(applied) ELSE RingCap
        /\ \A i \in 1..Len(ring) : ring[i] = applied[Len(applied) - Len(ring) + i]
    BY <1>2, DrainAssumption, LenProperties DEF ViewInv, RingIsEnd
  <2>2. /\ Len(applied') = Len(applied) + 1
        /\ \A i \in 1..Len(applied) : applied'[i] = applied[i]
        /\ applied'[Len(applied) + 1] = f
    BY <1>1, <1>2, AppendProperties
  <2> DEFINE r == IF Len(ring) >= RingCap THEN Tail(ring) ELSE ring
             off == Len(applied) - Len(r)
  <2>3. r \in Seq(Frame) /\ Len(r) \in Nat /\ off \in Nat
        /\ Len(r) + 1 = (IF Len(applied) + 1 < RingCap THEN Len(applied) + 1 ELSE RingCap)
        /\ \A i \in 1..Len(r) : r[i] = applied[off + i]
    <3>1. CASE Len(ring) >= RingCap
      <4>1. ring # <<>>
        BY <2>1, <3>1
      <4>2. /\ Tail(ring) \in Seq(Frame) /\ Len(Tail(ring)) = Len(ring) - 1
            /\ \A i \in 1..Len(Tail(ring)) : Tail(ring)[i] = ring[i + 1]
        BY <1>2, <4>1, HeadTailProperties
      <4>3. r = Tail(ring) /\ Len(r) = RingCap - 1 /\ Len(ring) = RingCap
        BY <2>1, <3>1, <4>2
      <4>4. ASSUME NEW i \in 1..Len(r) PROVE r[i] = applied[off + i]
        <5>1. Len(r) = Len(ring) - 1 /\ Len(ring) \in Nat /\ Len(applied) \in Nat
          BY <2>1, <4>3
        <5> HIDE DEF r
        <5>2. i \in Nat /\ i + 1 \in 1..Len(ring)
          BY <5>1
        <5>3. r[i] = ring[i + 1]
          BY <4>2, <4>3
        <5>4. Len(applied) - Len(ring) + (i + 1) = off + i
          BY <5>1, <5>2
        <5> QED BY <2>1, <5>2, <5>3, <5>4
      <4>5. Len(r) \in Nat /\ off \in Nat
            /\ Len(r) + 1 = (IF Len(applied) + 1 < RingCap THEN Len(applied) + 1 ELSE RingCap)
        <5> HIDE DEF r
        <5> QED BY <2>1, <4>3
      <4> QED BY <4>2, <4>3, <4>4, <4>5
    <3>2. CASE ~(Len(ring) >= RingCap)
      <4>1. r = ring /\ Len(ring) = Len(applied) /\ off = 0
        BY <2>1, <3>2
      <4>2. Len(ring) + 1 = IF Len(applied) + 1 < RingCap THEN Len(applied) + 1 ELSE RingCap
        BY <2>1, <3>2
      <4>3. \A i \in 1..Len(ring) : Len(applied) - Len(ring) + i = 0 + i
        BY <2>1, <4>1
      <4>4. \A i \in 1..Len(ring) : ring[i] = applied[0 + i]
        BY <2>1, <4>3
      <4> HIDE DEF r, off
      <4> QED BY <1>2, <2>1, <4>1, <4>2, <4>4
    <3> QED BY <3>1, <3>2
  <2>4. ring' = Append(r, f)
    BY <1>1 DEF PushRing
  <2> HIDE DEF r
  <2>5. /\ Len(ring') = Len(r) + 1
        /\ \A i \in 1..Len(r) : ring'[i] = r[i]
        /\ ring'[Len(r) + 1] = f
    BY <1>2, <2>3, <2>4, AppendProperties
  <2>6. ASSUME NEW i \in 1..Len(ring')
        PROVE  ring'[i] = applied'[Len(applied') - Len(ring') + i]
    <3>1. Len(applied') - Len(ring') + i = off + i
      BY <2>1, <2>2, <2>3, <2>5
    <3>2. CASE i = Len(r) + 1
      <4>1. off + i = Len(applied) + 1
        BY <2>1, <2>3, <3>2
      <4> QED BY <2>2, <2>5, <3>1, <3>2, <4>1
    <3>3. CASE i # Len(r) + 1
      <4>1. i \in 1..Len(r) /\ off + i \in 1..Len(applied)
        BY <2>1, <2>3, <2>5, <3>3
      <4> QED BY <2>2, <2>3, <2>5, <3>1, <4>1
    <3> QED BY <3>2, <3>3
  <2>7. Len(ring') = IF Len(applied') < RingCap THEN Len(applied') ELSE RingCap
    BY <2>2, <2>3, <2>5
  <2> QED BY <2>6, <2>7 DEF RingIsEnd
<1> QED BY <1>7, <1>8, <1>9 DEF ViewInv

LEMMA NextView ==
  ASSUME TypeOK, CutInOrder, ArrivedIsPrefix, ViewInv, [Next]_vars
  PROVE  ViewInv'
<1>1. ASSUME UNCHANGED viewVars PROVE ViewInv'
  BY <1>1 DEF viewVars, ViewInv, SnapshotIsLatest, CountsAreTrue, RingIsEnd, LatestOf, Bad,
     StatusResponse
<1>2. CASE Apply
  BY <1>2, ApplyView
<1>3. CASE Receive \/ DrainEnds \/ ReceiverDies
  BY <1>1, <1>3 DEF Receive, DrainEnds, ReceiverDies, drainVars, viewVars
<1>4. CASE UNCHANGED drainVars
  BY <1>1, <1>4 DEF drainVars, viewVars
<1>5. CASE UNCHANGED vars
  BY <1>4, <1>5 DEF vars
<1> QED BY <1>2, <1>3, <1>4, <1>5 DEF Next, DrainNext, DrainStep

(* GET /frames gives the end of the history, newest first. *)
LEMMA RecentIsNewest ==
  ASSUME TypeOK, RingIsEnd, NEW limit \in Nat \ {0}
  PROVE  RecentFrames(limit) = Newest(Least({limit, 128, RingCap, Len(applied)}))
<1>1. /\ Len(ring) \in Nat /\ Len(applied) \in Nat /\ RingCap \in Nat \ {0}
      /\ Len(ring) = IF Len(applied) < RingCap THEN Len(applied) ELSE RingCap
      /\ \A i \in 1..Len(ring) : ring[i] = applied[Len(applied) - Len(ring) + i]
  BY DrainAssumption, LenProperties DEF RingIsEnd, TypeOK, DrainTypes
<1> DEFINE n == IF Clamp(limit) < Len(ring) THEN Clamp(limit) ELSE Len(ring)
           T == {limit, 128, RingCap, Len(applied)}
<1>2. n \in T /\ n \in Nat /\ n <= Len(ring) /\ \A k \in T : n <= k
  BY <1>1 DEF Clamp
<1>3. Least(T) = n
  <2>1. T \subseteq Nat
    BY <1>1
  <2> HIDE DEF n, T
  <2>2. Least(T) \in T /\ \A k \in T : Least(T) <= k
    BY <1>2 DEF Least
  <2>3. Least(T) \in Nat /\ Least(T) <= n /\ n <= Least(T)
    BY <1>2, <2>1, <2>2
  <2> QED BY <1>2, <2>3
<1>4. RecentFrames(limit) = [i \in 1..n |-> ring[Len(ring) + 1 - i]]
  BY DEF RecentFrames
<1> HIDE DEF n, T
<1>5. ASSUME NEW i \in 1..n PROVE ring[Len(ring) + 1 - i] = applied[Len(applied) + 1 - i]
  <2>0. Len(ring) \in Nat /\ Len(applied) \in Nat /\ n \in Nat /\ n <= Len(ring) /\ i \in 1..n
    BY <1>1, <1>2
  <2>1. Len(ring) + 1 - i \in 1..Len(ring)
    BY <2>0
  <2>2. Len(applied) - Len(ring) + (Len(ring) + 1 - i) = Len(applied) + 1 - i
    BY <2>0
  <2> QED BY <1>1, <2>1, <2>2
<1>6. Newest(n) = [i \in 1..n |-> applied[Len(applied) + 1 - i]]
  BY DEF Newest
<1> QED BY <1>3, <1>4, <1>5, <1>6 DEF T

(* What GET /frames gives, whatever limit is asked for. *)
LEMMA ViewShown == ASSUME TypeOK, ViewInv PROVE ViewIsHistory
<1>1. RecentFrames(0) = RecentFrames(1)
  <2>1. Clamp(0) = Clamp(1)
    BY DEF Clamp
  <2> QED BY <2>1 DEF RecentFrames
<1>2. \A limit \in 1..RingCap + 1 :
        RecentFrames(limit) = Newest(Least({limit, 128, RingCap, Len(applied)}))
  <2>1. \A limit \in 1..RingCap + 1 : limit \in Nat \ {0}
    BY DrainAssumption
  <2> QED BY <2>1, RecentIsNewest DEF ViewInv
<1> QED BY <1>1, <1>2 DEF ViewInv, ViewIsHistory, NewestFirst

(* GET /status and GET /frames show the history of the frames applied: the   *)
(* latest good message of each kind, the number of all frames and of the bad  *)
(* ones, and the end of the history, whatever the ring's capacity, the limit  *)
(* asked for, the traffic and the order of the tasks.                         *)
THEOREM ViewShowsHistory == Spec => []ViewIsHistory
<1>1. TypeOK /\ WholeFramesOnly /\ NothingLost /\ ViewInv /\ [Next]_vars => ViewInv'
  <2>1. WholeFramesOnly /\ NothingLost => CutInOrder /\ ArrivedIsPrefix
    BY DEF WholeFramesOnly, NothingLost
  <2> QED BY <2>1, NextView
<1>2. TypeOK /\ ViewInv => ViewIsHistory
  BY ViewShown
<1> QED BY <1>1, <1>2, TypeCorrect, FramesAreWhole, FramesArrive, InitView, PTL DEF Spec
=============================================================================
