--------------------- MODULE TransportServiceConnections ---------------------
(* What the transport adds to the service: nothing that the Actor alone could *)
(* not do, a connection that is open when it is used, and a recording played *)
(* to its end, for every strategy, recording and configuration.              *)
EXTENDS TransportService, PentairServiceProofs

(* Every step that calls a method of the transport is the Actor's step. *)
LEMMA LinkedIsActor == ActorRuns \/ CallsRead => ActorNext
  BY DEF ActorRuns, CallsRead, CallsOpen, CallsClose, CallsWrite, CallsNothing,
         ActorNext, ActorStep

LEMMA LinkedStep == [ServiceNext]_serviceVars => [Next]_vars
<1>1. ServiceNext => Next
  BY LinkedIsActor DEF ServiceNext, Next
<1>2. UNCHANGED serviceVars => UNCHANGED vars
  BY DEF serviceVars
<1> QED BY <1>1, <1>2

(* actor.rs sees its transport through the four methods of mod.rs only: with  *)
(* any of the strategies the service behaves as PentairService says, and what *)
(* is proved of that holds with a TCP, a serial and a replay transport.       *)
THEOREM ServiceImplementsSpec == ServiceSpec => Spec
<1>1. ServiceInit => Init
  BY DEF ServiceInit
<1> QED BY <1>1, LinkedStep, PTL DEF ServiceSpec, Spec

(* No method moves the position of a replay out of its recording. *)
LEMMA TransportStep ==
  ASSUME TransportTypes, [ServiceNext]_serviceVars
  PROVE  TransportTypes'
<1> USE TransportAssumption DEF TransportTypes, transportVars, replayVars
<1>1. CASE CallsOpen
  <2>1. CASE Open
    <3>1. opened' \in BOOLEAN /\ loaded' \in BOOLEAN
      BY <2>1 DEF Open, IsReplay
    <3>2. pos' \in 0..RecordingLen /\ readsWithData' \in Nat
      BY <2>1 DEF Open
    <3> QED BY <2>1, <3>1, <3>2 DEF Open
  <2>2. CASE OpenFails
    BY <2>2 DEF OpenFails
  <2> QED BY <1>1, <2>1, <2>2 DEF CallsOpen
<1>2. CASE CallsClose
  BY <1>2 DEF CallsClose, Close
<1>3. CASE CallsRead
  <2>1. CASE \E n : ReadBytes(n)
    BY <2>1 DEF ReadBytes
  <2>2. CASE ReadZero \/ ReadFails
    BY <2>2 DEF ReadZero, ReadFails
  <2> QED BY <1>3, <2>1, <2>2 DEF CallsRead
<1>4. CASE UNCHANGED transportVars
  BY <1>4
<1> QED BY <1>1, <1>2, <1>3, <1>4 DEF ServiceNext, ActorRuns, CallsWrite, WriteReturns,
                                     CallsNothing, serviceVars

(* The type invariant holds for every strategy, recording and buffer size.   *)
THEOREM ServiceTypeCorrect == ServiceSpec => []ServiceTypes
<1>1. ServiceInit => TransportTypes
  <2> SUFFICES ASSUME TransportInit PROVE TransportTypes
    BY DEF ServiceInit
  <2>1. rewind \in BOOLEAN /\ opened \in BOOLEAN /\ loaded \in BOOLEAN
    BY TransportAssumption, Zenon DEF TransportInit
  <2>2. pos \in 0..RecordingLen /\ cutAfter \in CutsAfter \cup {Never}
    BY TransportAssumption DEF TransportInit
  <2> QED BY <2>1, <2>2 DEF TransportInit, TransportTypes
<1>2. TransportTypes /\ [ServiceNext]_serviceVars => TransportTypes'
  BY TransportStep
<1>3. TypeOK /\ TransportTypes => ServiceTypes
  BY DEF ServiceTypes
<1> QED BY <1>1, <1>2, <1>3, ServiceImplementsSpec, TypeCorrect, PTL DEF ServiceSpec

(* One step of the Actor leaves its connection open, or closed, as the phase  *)
(* that it goes to needs it.                                                 *)
LEMMA ConnectionStep ==
  ASSUME TypeOK, OnOneConnection, [ServiceNext]_serviceVars
  PROVE  OnOneConnection'
<1> USE DEF InSession
<1>1. CASE CallsOpen
  BY <1>1 DEF CallsOpen, OpenOk, Open, OpenErr, OpenFails, GiveUp, Retry, Goto,
              OnOneConnection, transportVars
<1>2. CASE CallsClose
  BY <1>2 DEF CallsClose, SessionOver, Stop, Close, GiveUp, Retry, Goto, OnOneConnection
<1>3. CASE CallsRead
  <2>1. CASE ReadData /\ ReadBytes(rxPos' - rxPos)
    <3>1. opened' = opened
      BY <2>1 DEF ReadBytes
    <3>2. phase \in InSession /\ phase' \in InSession
      BY <2>1 DEF ReadData, SelectsRead, Goto
    <3> QED BY <3>1, <3>2 DEF OnOneConnection
  <2>2. CASE ReadEnds
    BY <2>2 DEF ReadEnds, EndSession, Goto, OnOneConnection
  <2> QED BY <1>3, <2>1, <2>2 DEF CallsRead
<1>4. CASE CallsWrite
  <2>1. afterWrite \in {"drain", "head"} /\ opened' = opened
    BY <1>4 DEF CallsWrite, WriteReturns, TypeOK, ActorTypes, transportVars
  <2>2. phase = "writing" /\ phase' = afterWrite
    BY <1>4 DEF CallsWrite, WriteDone, Goto
  <2> QED BY <2>1, <2>2 DEF OnOneConnection
<1>5. CASE CallsNothing
  <2>1. opened' = opened
    BY <1>5 DEF CallsNothing, transportVars
  <2>2. CASE LoopHead \/ BackoffStart \/ TimerFires \/ BackoffWakes
    BY <2>1, <2>2 DEF LoopHead, BackoffStart, TimerFires, BackoffWakes, Goto, OnOneConnection
  <2>3. CASE SessionHead \/ DrainRequest \/ DrainEmpty \/ SelectShutdown \/ SelectRequest
    BY <2>1, <2>3 DEF SessionHead, DrainRequest, DrainEmpty, SelectShutdown, SelectRequest,
       TakeRequest, EndSession, Goto, OnOneConnection
  <2>4. CASE SendFrame \/ SendFrameClosed
    BY <2>1, <2>4 DEF SendFrame, SendFrameClosed, EndSession, Goto, OnOneConnection
  <2> QED BY <1>5, <2>2, <2>3, <2>4 DEF CallsNothing
<1>6. CASE UNCHANGED <<phase, opened>>
  BY <1>6 DEF OnOneConnection
<1>7. CASE UNCHANGED actorVars /\ UNCHANGED transportVars
  BY <1>6, <1>7 DEF actorVars, transportVars
<1>8. CASE UNCHANGED serviceVars
  BY <1>7, <1>8 DEF serviceVars, vars
<1> QED BY <1>1, <1>2, <1>3, <1>4, <1>5, <1>7, <1>8 DEF ServiceNext, ActorRuns

(* mod.rs "One open, then reads and writes": the Actor never reads or writes  *)
(* without the connection it opened, and never waits to connect while it      *)
(* still holds the one before.                                               *)
THEOREM OneConnection == ServiceSpec => []OnOneConnection
<1>1. ServiceInit => OnOneConnection
  BY DEF ServiceInit, Init, ActorInit, TransportInit, OnOneConnection, InSession
<1>2. TypeOK /\ OnOneConnection /\ [ServiceNext]_serviceVars => OnOneConnection'
  BY ConnectionStep
<1> QED BY <1>1, <1>2, ServiceImplementsSpec, TypeCorrect, PTL DEF ServiceSpec
-----------------------------------------------------------------------------
(* What of an outage or a session the Actor is in.  When it is over there is  *)
(* no further session.                                                       *)
Waiting == {"top", "opening", "backoff", "sleeping", "slept"}

Where ==
  IF phase \in InSession THEN "session"
  ELSE IF phase = "ending" /\ ending # "shutdown" THEN "ended"
  ELSE IF phase \in Waiting THEN "waiting"
  ELSE "over"

(* A whole frame of the message was sent to the drain, or is about to be.    *)
SentWhole(m) == [head |-> 2*m - 1, tail |-> 2*m] \in On(Produced)

(* Everything that was received within this connection was sent on.          *)
SessionSent ==
  Where # "over" =>
    \A m \in Nat : sessionFrom <= 2*m - 1 /\ 2*m < rxPos => SentWhole(m)

(* With a rewind every session plays a copy from its start.                  *)
PlaysCopy ==
  IsReplay /\ rewind /\ Where \in {"session", "ended"} =>
    /\ rxPos = sessionFrom + pos
    /\ \E q \in Nat : sessionFrom = q * RecordingLen + 1

(* Without one the replay is where the wire is.  Until the disconnect that is *)
(* injected there is one connection, and between it and the next all that     *)
(* came before has been sent on.                                             *)
AllBefore(p) == \A m \in Nat \ {0} : 2*m < p => SentWhole(m)

PlaysOn ==
  IsReplay /\ ~rewind =>
    /\ rxPos = pos + 1
    /\ Where # "over" /\ pos < RecordingLen =>
         /\ AllBefore(sessionFrom)
         /\ cutAfter # Never => sessionFrom = 1
         /\ Where # "session" => AllBefore(rxPos)
         /\ Where # "session" /\ cutAfter # Never => pos = 0
    /\ Where # "over" =>
         \E lost \in Nat : \A m \in Nat \ {0} : 2*m < rxPos /\ m # lost => SentWhole(m)

EndsAtEnd == IsReplay /\ Where = "ended" /\ ending = "eof" => pos = RecordingLen

PlayInv == SessionSent /\ PlaysCopy /\ PlaysOn /\ EndsAtEnd

(* Where a step of ServiceNext that neither opens nor reads may lead.        *)
Quiet ==
  /\ UNCHANGED <<strategy, rewind, pos, rxPos>>
  /\ Where' # "over" =>
       /\ Where # "over" /\ UNCHANGED <<cutAfter, sessionFrom, Produced>>
       /\ Where' # Where => Where = "ended" /\ Where' = "waiting"
       /\ Where' = "ended" => ending' = ending

LEMMA ActorIsQuiet ==
  ASSUME TypeOK, ActorRuns, ~OpenOk
  PROVE  Quiet
<1> USE DEF InSession, Waiting
<1>1. UNCHANGED <<strategy, rewind, pos, cutAfter>>
  BY DEF ActorRuns, CallsOpen, OpenFails, CallsClose, Close, CallsWrite, WriteReturns,
         CallsNothing, transportVars, replayVars
<1>2. CASE SendFrame
  <2>1. Produced' = Produced /\ UNCHANGED <<rxPos, sessionFrom>>
    BY <1>2, SendKeepsProduced DEF SendFrame
  <2>2. Where = "session" /\ Where' = "session"
    BY <1>2 DEF SendFrame, Goto, Where
  <2> QED BY <1>1, <2>1, <2>2 DEF Quiet
<1>3. CASE SendFrameClosed
  <2>1. Where' = "over" /\ UNCHANGED rxPos
    BY <1>3 DEF SendFrameClosed, EndSession, Goto, Where
  <2> QED BY <1>1, <2>1 DEF Quiet
<1>4. CASE ~SendFrame /\ ~SendFrameClosed
  <2>1. UNCHANGED linkVars
    BY <1>4 DEF ActorRuns, CallsOpen, CallsClose, CallsWrite, CallsNothing, OpenErr, SessionOver,
           Stop, WriteDone, LoopHead, BackoffStart, TimerFires, BackoffWakes, SessionHead,
           DrainRequest, DrainEmpty, SelectShutdown, SelectRequest, TakeRequest
  <2>2. UNCHANGED <<rxPos, sessionFrom, Produced>>
    BY <2>1 DEF linkVars, Produced
  <2>3. CASE OpenErr \/ SessionOver \/ Stop
    <3>1. /\ Where # "over" \/ Where' = "over"
          /\ Where' # "over" => Where' = "waiting" /\ Where \in {"waiting", "ended"}
      BY <2>3 DEF OpenErr, SessionOver, Stop, GiveUp, Retry, Goto, Where, loopVars
    <3> QED BY <1>1, <2>2, <3>1 DEF Quiet
  <2>4. CASE LoopHead \/ BackoffStart \/ TimerFires \/ BackoffWakes
    <3>1. Where = "waiting" /\ Where' \in {"waiting", "over"}
      BY <2>4 DEF LoopHead, BackoffStart, TimerFires, BackoffWakes, Goto, Where
    <3> QED BY <1>1, <2>2, <3>1 DEF Quiet
  <2>5. CASE WriteDone \/ SessionHead \/ DrainRequest \/ DrainEmpty \/ SelectShutdown \/ SelectRequest
    <3>1. afterWrite \in {"head", "drain"}
      BY DEF TypeOK, ActorTypes
    <3>2. Where = "session" /\ Where' \in {"session", "over"}
      BY <2>5, <3>1 DEF WriteDone, SessionHead, DrainRequest, DrainEmpty, SelectShutdown, SelectRequest,
             TakeRequest, EndSession, Goto, Where
    <3> QED BY <1>1, <2>2, <3>2 DEF Quiet
  <2> QED BY <1>4, <2>3, <2>4, <2>5 DEF ActorRuns, CallsOpen, CallsClose, CallsWrite, CallsNothing
<1> QED BY <1>2, <1>3, <1>4

LEMMA QuietKeeps == ASSUME PlayInv, Quiet PROVE PlayInv'
<1>1. CASE Where' = "over"
  BY <1>1 DEF Quiet, PlayInv, SessionSent, PlaysCopy, PlaysOn, EndsAtEnd, IsReplay
<1>2. CASE Where' # "over"
  <2>1. /\ UNCHANGED <<strategy, rewind, pos, rxPos, cutAfter, sessionFrom, Produced>>
        /\ Where # "over"
        /\ Where' # Where => Where = "ended" /\ Where' = "waiting"
        /\ Where' = "ended" => ending' = ending
    BY <1>2 DEF Quiet
  <2>2. (\A m : SentWhole(m)' <=> SentWhole(m)) /\ IsReplay' = IsReplay
    BY <2>1, Zenon DEF SentWhole, IsReplay, On
  <2>3. \A p : AllBefore(p)' <=> AllBefore(p)
    BY <2>2, Zenon DEF AllBefore
  <2>4. SessionSent'
    BY <2>1, <2>2 DEF PlayInv, SessionSent
  <2>5. PlaysCopy'
    BY <2>1, <2>2 DEF PlayInv, PlaysCopy
  <2>6. PlaysOn'
    BY <2>1, <2>2, <2>3 DEF PlayInv, PlaysOn
  <2>7. EndsAtEnd'
    BY <2>1, <2>2 DEF PlayInv, EndsAtEnd
  <2> QED BY <2>4, <2>5, <2>6, <2>7 DEF PlayInv
<1> QED BY <1>1, <1>2

LEMMA RecordingFacts ==
  ASSUME TransportTypes, IsReplay
  PROVE  /\ RecordingLen \in Nat /\ RecordingLen >= 2 /\ pos \in 0..RecordingLen
         /\ RecordingLen \div 2 \in Nat \ {0} /\ 2 * (RecordingLen \div 2) = RecordingLen
<1>1. RecordingLen \in Nat /\ RecordingLen > 0 /\ RecordingLen % 2 = 0 /\ pos \in 0..RecordingLen
  BY TransportAssumption, RecordingAssumption DEF TransportTypes, IsReplay
<1> QED BY <1>1

(* A session starts with the wire where the transport is. *)
LEMMA OpenKeeps ==
  ASSUME TypeOK, TransportTypes, WholeFramesOnly, PlayInv, OpenOk, Open, WireAt
  PROVE  PlayInv'
<1>1. /\ Where = "waiting" /\ Where' = "session"
      /\ sessionFrom' = rxPos' /\ Produced' = Produced
  BY DEF OpenOk, Goto, Where, InSession, Waiting, Produced
<1>2. rxPos \in Nat \ {0} /\ rxPos' \in Nat /\ sessionFrom \in Nat /\ sessionFrom <= rxPos
  <2>1. rxPos \in Nat \ {0} /\ sessionFrom \in Nat
    BY DEF TypeOK, ActorTypes
  <2>2. rxPos' \in rxPos..(LastPiece + 1)
    BY DEF OpenOk
  <2>3. rxPos' \in Int /\ rxPos <= rxPos'
    BY <2>2
  <2> QED BY <2>1, <2>3 DEF WholeFramesOnly, FramerAligned
<1>3. UNCHANGED <<strategy, rewind, cutAfter>> /\ (IsReplay' <=> IsReplay)
  BY DEF Open, IsReplay
<1>4. \A m : SentWhole(m)' <=> SentWhole(m)
  BY <1>1, Zenon DEF SentWhole, On
<1>5. SessionSent'
  BY <1>1, <1>2 DEF SessionSent
<1>6. PlaysCopy'
  <2> SUFFICES ASSUME IsReplay, rewind
               PROVE  /\ rxPos' = sessionFrom' + pos'
                      /\ \E q \in Nat : sessionFrom' = q * RecordingLen + 1
    BY <1>3 DEF PlaysCopy
  <2>1. pos' = 0 /\ rxPos' = NextCopy
    BY DEF Open, WireAt
  <2>2. (rxPos + RecordingLen - 2) \div RecordingLen \in Nat
    BY <1>2, RecordingFacts
  <2>3. sessionFrom' = ((rxPos + RecordingLen - 2) \div RecordingLen) * RecordingLen + 1
    BY <1>1, <2>1 DEF NextCopy
  <2> QED BY <1>1, <1>2, <2>1, <2>2, <2>3
<1>7. PlaysOn'
  <2> SUFFICES ASSUME IsReplay, ~rewind
               PROVE  /\ rxPos' = pos' + 1
                      /\ pos' < RecordingLen => /\ AllBefore(sessionFrom)'
                                                /\ cutAfter' # Never => sessionFrom' = 1
                      /\ \E lost \in Nat : \A m \in Nat \ {0} :
                           2*m < rxPos' /\ m # lost => SentWhole(m)'
    BY <1>1, <1>3 DEF PlaysOn
  <2>1. pos' = pos /\ rxPos = pos + 1 /\ pos \in Nat
    BY RecordingFacts DEF Open, PlayInv, PlaysOn
  <2>2. rxPos' = rxPos
    <3>1. CASE pos = 0
      <4>1. (rxPos + RecordingLen - 2) \div RecordingLen = 0
        <5>1. rxPos + RecordingLen - 2 = RecordingLen - 1
          BY <2>1, <3>1, RecordingFacts
        <5>2. (RecordingLen - 1) \div RecordingLen = 0
          BY RecordingFacts
        <5> QED BY <5>1, <5>2
      <4>2. NextCopy = 1
        BY <4>1, RecordingFacts DEF NextCopy
      <4> QED BY <2>1, <3>1, <4>2 DEF WireAt
    <3>2. CASE pos # 0
      BY <2>1, <3>2 DEF WireAt
    <3> QED BY <3>1, <3>2
  <2>3. pos' < RecordingLen => AllBefore(rxPos) /\ (cutAfter # Never => pos = 0)
    BY <1>1, <2>1 DEF PlayInv, PlaysOn
  <2>4. AllBefore(rxPos) => AllBefore(sessionFrom)'
    BY <1>1, <1>4, <2>2, Zenon DEF AllBefore
  <2>5. \E lost \in Nat : \A m \in Nat \ {0} : 2*m < rxPos /\ m # lost => SentWhole(m)
    BY <1>1 DEF PlayInv, PlaysOn
  <2>6. \E lost \in Nat : \A m \in Nat \ {0} : 2*m < rxPos' /\ m # lost => SentWhole(m)'
    BY <1>4, <2>2, <2>5, Zenon
  <2> QED BY <1>1, <1>3, <2>1, <2>2, <2>3, <2>4, <2>6
<1>8. EndsAtEnd'
  BY <1>1 DEF EndsAtEnd
<1> QED BY <1>5, <1>6, <1>7, <1>8 DEF PlayInv

(* A read completes every message whose second half it brings, if the first   *)
(* was received on the same connection.                                      *)
LEMMA ReadCompletes ==
  ASSUME TypeOK, WholeFramesOnly, ReadData
  PROVE  /\ \A m : SentWhole(m) => SentWhole(m)'
         /\ \A m \in Nat : rxPos <= 2*m /\ 2*m < rxPos' /\ sessionFrom <= 2*m - 1 => SentWhole(m)'
<1>1. PICK b \in rxPos .. (rxPos + MaxRead - 1) :
        LET fed == Feed(partial, rxPos, b) IN
        /\ rxPos' = b + 1
        /\ outbox' = fed.frames
  BY DEF ReadData
<1>2. UNCHANGED <<sessionFrom, emitted>> /\ phase = "select"
  BY DEF ReadData, SelectsRead
<1>3. rxPos \in Nat \ {0} /\ sessionFrom \in Nat \ {0} /\ b \in Nat /\ rxPos <= b
  BY ActorAssumption, <1>1 DEF TypeOK, ActorTypes
<1>4. FramerAligned
  BY DEF WholeFramesOnly
<1> DEFINE x == CutStart
           F == CutFrom(x, b)
<1>5. x \in Nat /\ x % 2 = 1 /\ x <= b + 1 /\ outbox' = F
  BY <1>1, <1>3, <1>4, FeedIsCut
<1>6. /\ F \in Seq(Frame) /\ emitted \in Seq(Frame)
      /\ Len(F) = (b - x + 1) \div 2 /\ Len(F) \in Nat /\ Len(emitted) \in Nat
  <2>1. F \in Seq(Frame) /\ Len(F) = (b - x + 1) \div 2
    <3> HIDE DEF x
    <3> QED BY <1>3, <1>5, CutFromTyped
  <2>2. emitted \in Seq(Frame)
    BY DEF TypeOK, ActorTypes
  <2> HIDE DEF F
  <2> QED BY <2>1, <2>2
<1>7. Produced' = emitted \o F /\ Produced = emitted
  <2>1. outbox = <<>>
    BY <1>2 DEF TypeOK, ActorTypes
  <2>2. Produced = emitted
    BY <2>1, <1>6, ConcatEmptySeq DEF Produced
  <2> QED BY <1>2, <1>5, <2>2 DEF Produced
<1>8. /\ DOMAIN Produced = 1..Len(emitted)
      /\ DOMAIN Produced' = 1..(Len(emitted) + Len(F))
      /\ \A i \in 1..Len(emitted) : Produced'[i] = Produced[i]
      /\ \A k \in 1..Len(F) : /\ Len(emitted) + k \in DOMAIN Produced'
                              /\ Produced'[Len(emitted) + k] = F[k]
  <2> HIDE DEF F
  <2>1. DOMAIN Produced = 1..Len(emitted)
    BY <1>6, <1>7
  <2>2. /\ Len(emitted \o F) = Len(emitted) + Len(F) /\ emitted \o F \in Seq(Frame)
        /\ \A i \in 1..(Len(emitted) + Len(F)) :
             (emitted \o F)[i] = IF i <= Len(emitted) THEN emitted[i] ELSE F[i - Len(emitted)]
    BY <1>6, ConcatProperties
  <2>3. DOMAIN Produced' = 1..(Len(emitted) + Len(F))
    BY <1>7, <2>2
  <2>4. \A i \in 1..Len(emitted) : Produced'[i] = Produced[i]
    BY <1>6, <1>7, <2>2
  <2>5. ASSUME NEW k \in 1..Len(F)
        PROVE  /\ Len(emitted) + k \in DOMAIN Produced'
               /\ Produced'[Len(emitted) + k] = F[k]
    <3>1. /\ Len(emitted) + k \in 1..(Len(emitted) + Len(F))
          /\ ~(Len(emitted) + k <= Len(emitted)) /\ Len(emitted) + k - Len(emitted) = k
      BY <1>6
    <3> QED BY <1>7, <2>2, <2>3, <3>1
  <2> QED BY <2>1, <2>3, <2>4, <2>5
<1>9. ASSUME NEW m, SentWhole(m) PROVE SentWhole(m)'
  <2>1. PICK i \in DOMAIN Produced : Produced[i] = [head |-> 2*m - 1, tail |-> 2*m]
    BY <1>9, Zenon DEF SentWhole, On
  <2>2. i \in DOMAIN Produced' /\ Produced'[i] = Produced[i]
    <3> HIDE DEF F
    <3> QED BY <1>6, <1>8, <2>1
  <2> QED BY <2>1, <2>2, Zenon DEF SentWhole, On
<1>10. ASSUME NEW m \in Nat, rxPos <= 2*m, 2*m < rxPos', sessionFrom <= 2*m - 1
       PROVE  SentWhole(m)'
  <2>1. x <= 2*m - 1
    BY <1>3, <1>4, <1>10 DEF FramerAligned, CutStart
  <2> HIDE DEF x
  <2> DEFINE y == x \div 2
             k == m - y
  <2>2. y \in Nat /\ x = 2*y + 1
    BY <1>5
  <2>3. k \in 1..((b - x + 1) \div 2)
    BY <1>1, <1>3, <1>10, <2>1, <2>2
  <2>4. x + 2*k - 2 = 2*m - 1 /\ x + 2*k - 1 = 2*m
    BY <2>2
  <2>5. k \in 1..Len(F) /\ F[k] = [head |-> 2*m - 1, tail |-> 2*m]
    BY <1>6, <2>3, <2>4 DEF CutFrom
  <2> HIDE DEF k, F
  <2> QED BY <1>8, <2>5, Zenon DEF SentWhole, On
<1> QED BY <1>9, <1>10

(* Integers that are apart are so by a positive number. *)
LEMMA Difference == \A a, b, c \in Int : a < b /\ c = b - a => c \in Nat /\ c > 0
  OBVIOUS

LEMMA ReadKeeps ==
  ASSUME TypeOK, TransportTypes, WholeFramesOnly, PlayInv,
         ReadData, NEW n, n = rxPos' - rxPos, ReadBytes(n)
  PROVE  PlayInv'
<1>1. Where = "session" /\ Where' = "session" /\ UNCHANGED sessionFrom
  BY DEF ReadData, SelectsRead, Goto, Where, InSession
<1>2. /\ rxPos \in Nat \ {0} /\ rxPos' \in Nat /\ rxPos < rxPos'
      /\ sessionFrom \in Nat /\ sessionFrom <= rxPos
  <2>1. rxPos \in Nat \ {0} /\ sessionFrom \in Nat
    BY DEF TypeOK, ActorTypes
  <2>2. PICK b \in rxPos .. (rxPos + MaxRead - 1) : rxPos' = b + 1
    BY DEF ReadData
  <2>3. b \in Int /\ rxPos <= b
    BY <2>2
  <2> QED BY <2>1, <2>2, <2>3 DEF WholeFramesOnly, FramerAligned
<1>3. UNCHANGED <<strategy, rewind, cutAfter>> /\ (IsReplay' <=> IsReplay)
  BY DEF ReadBytes, IsReplay
<1>4. \A m : SentWhole(m) => SentWhole(m)'
  BY ReadCompletes
<1>5. SessionSent'
  <2> SUFFICES ASSUME NEW m \in Nat, sessionFrom <= 2*m - 1, 2*m < rxPos'
               PROVE  SentWhole(m)'
    BY <1>1 DEF SessionSent
  <2>1. CASE 2*m < rxPos
    <3>1. SentWhole(m)
      BY <1>1, <2>1 DEF PlayInv, SessionSent
    <3> QED BY <1>4, <3>1
  <2>2. CASE rxPos <= 2*m
    BY <2>2, ReadCompletes
  <2> QED BY <1>2, <2>1, <2>2
<1>6. ASSUME IsReplay
      PROVE  pos' = pos + (rxPos' - rxPos) /\ pos \in Nat /\ pos < RecordingLen
  <2>1. n \in Nat /\ n > 0
    <3>1. rxPos \in Int /\ rxPos' \in Int /\ rxPos < rxPos'
      BY <1>2
    <3>2. n \in Int
      BY <3>1
    <3> QED BY <3>1, <3>2, Difference, Zenon
  <2>2. /\ n = (IF RecordingLen - pos < ReadBuf THEN RecordingLen - pos ELSE ReadBuf)
        /\ pos' = pos + n
    BY <1>6 DEF ReadBytes
  <2>3. RecordingLen \in Nat /\ pos \in Nat /\ ReadBuf \in Nat
    BY <1>6, RecordingFacts, TransportAssumption
  <2>4. pos < RecordingLen
    BY <2>1, <2>2, <2>3
  <2> QED BY <2>2, <2>3, <2>4
<1>7. PlaysCopy'
  <2> SUFFICES ASSUME IsReplay, rewind
               PROVE  /\ rxPos' = sessionFrom' + pos'
                      /\ \E q \in Nat : sessionFrom' = q * RecordingLen + 1
    BY <1>3 DEF PlaysCopy
  <2>1. rxPos = sessionFrom + pos /\ \E q \in Nat : sessionFrom = q * RecordingLen + 1
    BY <1>1 DEF PlayInv, PlaysCopy
  <2>2. rxPos' = sessionFrom' + pos'
    BY <1>1, <1>2, <1>6, <2>1
  <2> QED BY <1>1, <2>1, <2>2
<1>8. PlaysOn'
  <2> SUFFICES ASSUME IsReplay, ~rewind
               PROVE  /\ rxPos' = pos' + 1
                      /\ AllBefore(sessionFrom)'
                      /\ cutAfter' # Never => sessionFrom' = 1
                      /\ \E lost \in Nat : \A m \in Nat \ {0} :
                           2*m < rxPos' /\ m # lost => SentWhole(m)'
    BY <1>1, <1>3 DEF PlaysOn
  <2>1. rxPos = pos + 1 /\ AllBefore(sessionFrom) /\ (cutAfter # Never => sessionFrom = 1)
    BY <1>1, <1>6 DEF PlayInv, PlaysOn
  <2>2. rxPos' = pos' + 1
    BY <1>2, <1>6, <2>1
  <2>3. AllBefore(sessionFrom)'
    BY <1>1, <1>4, <2>1, Zenon DEF AllBefore
  <2>4. ASSUME NEW m \in Nat \ {0}, 2*m < rxPos', m # sessionFrom \div 2
        PROVE  SentWhole(m)'
    <3>1. CASE 2*m < sessionFrom
      <4>1. SentWhole(m)
        BY <2>1, <3>1 DEF AllBefore
      <4> QED BY <1>4, <4>1
    <3>2. CASE sessionFrom <= 2*m - 1
      BY <1>1, <1>5, <2>4, <3>2 DEF SessionSent
    <3>3. 2*m < sessionFrom \/ sessionFrom <= 2*m - 1
      BY <1>2, <2>4
    <3> QED BY <3>1, <3>2, <3>3
  <2>5. sessionFrom \div 2 \in Nat
    BY <1>2
  <2> QED BY <1>1, <1>3, <2>1, <2>2, <2>3, <2>4, <2>5
<1>9. EndsAtEnd'
  BY <1>1 DEF EndsAtEnd
<1> QED BY <1>5, <1>7, <1>8, <1>9 DEF PlayInv

LEMMA ReadEndKeeps ==
  ASSUME TypeOK, TransportTypes, WholeFramesOnly, OnOneConnection, PlayInv,
         ReadEnds, IF ending' = "eof" THEN ReadZero ELSE ReadFails
  PROVE  PlayInv'
<1>1. /\ Where = "session" /\ Where' = "ended" /\ opened
      /\ UNCHANGED <<rxPos, sessionFrom, Produced>>
  BY DEF ReadEnds, SelectsRead, EndSession, Goto, Where, InSession, linkVars, Produced,
         OnOneConnection
<1>2. UNCHANGED <<strategy, rewind, pos>> /\ (IsReplay' <=> IsReplay)
  BY DEF ReadZero, ReadFails, IsReplay, transportVars
<1>3. \A m : SentWhole(m)' <=> SentWhole(m)
  BY <1>1, Zenon DEF SentWhole, On
<1>4. SessionSent'
  BY <1>1, <1>3 DEF PlayInv, SessionSent
<1>5. PlaysCopy'
  BY <1>1, <1>2 DEF PlayInv, PlaysCopy
<1>6. IsReplay => (ending' = "eof" => pos = RecordingLen)
  BY RecordingFacts DEF ReadZero
<1>7. EndsAtEnd'
  BY <1>2, <1>6 DEF EndsAtEnd
<1>8. PlaysOn'
  <2> SUFFICES ASSUME IsReplay, ~rewind
               PROVE  /\ rxPos' = pos' + 1
                      /\ pos' < RecordingLen => /\ AllBefore(sessionFrom)'
                                                /\ cutAfter' = Never
                                                /\ AllBefore(rxPos)'
                      /\ \E lost \in Nat : \A m \in Nat \ {0} :
                           2*m < rxPos' /\ m # lost => SentWhole(m)'
    BY <1>1, <1>2 DEF PlaysOn
  <2>2. \E lost \in Nat : \A m \in Nat \ {0} : 2*m < rxPos' /\ m # lost => SentWhole(m)'
    <3>1. \E lost \in Nat : \A m \in Nat \ {0} : 2*m < rxPos /\ m # lost => SentWhole(m)
      BY <1>1 DEF PlayInv, PlaysOn
    <3> QED BY <1>1, <1>3, <3>1, Zenon
  <2>3. ASSUME pos < RecordingLen
        PROVE  AllBefore(sessionFrom) /\ cutAfter' = Never /\ AllBefore(rxPos)
    <3>1. ending' # "eof"
      BY <1>6, <2>3, RecordingFacts
    <3>2. cutAfter # Never /\ cutAfter' = Never
      BY <1>1, <3>1 DEF ReadFails, CutDue
    <3>3. AllBefore(sessionFrom) /\ sessionFrom = 1
      BY <1>1, <2>3, <3>2 DEF PlayInv, PlaysOn
    <3>4. AllBefore(rxPos)
      <4> SUFFICES ASSUME NEW m \in Nat \ {0}, 2*m < rxPos PROVE SentWhole(m)
        BY DEF AllBefore
      <4>1. sessionFrom <= 2*m - 1
        BY <3>3
      <4> QED BY <1>1, <4>1 DEF PlayInv, SessionSent
    <3> QED BY <3>2, <3>3, <3>4
  <2>4. rxPos' = pos' + 1
    BY <1>1, <1>2 DEF PlayInv, PlaysOn
  <2>5. AllBefore(sessionFrom)' <=> AllBefore(sessionFrom)
    BY <1>1, <1>3, Zenon DEF AllBefore
  <2>6. AllBefore(rxPos)' <=> AllBefore(rxPos)
    BY <1>1, <1>3, Zenon DEF AllBefore
  <2> QED BY <1>2, <2>2, <2>3, <2>4, <2>5, <2>6
<1> QED BY <1>4, <1>5, <1>7, <1>8 DEF PlayInv

LEMMA NextPlay ==
  ASSUME TypeOK, TransportTypes, WholeFramesOnly, OnOneConnection, PlayInv,
         [ServiceNext]_serviceVars
  PROVE  PlayInv'
<1>1. CASE ActorRuns /\ ~OpenOk
  BY <1>1, ActorIsQuiet, QuietKeeps
<1>2. CASE ActorRuns /\ OpenOk
  <2>1. phase = "opening" /\ phase' = "head"
    BY <1>2 DEF OpenOk, Goto
  <2>2. ~CallsClose /\ ~CallsWrite /\ ~CallsNothing /\ ~OpenErr
    BY <2>1 DEF CallsClose, CallsWrite, CallsNothing, OpenErr, SessionOver, Stop, WriteDone, LoopHead,
           BackoffStart, TimerFires, BackoffWakes, SessionHead, DrainRequest, DrainEmpty, SelectShutdown,
           SelectRequest, SendFrame, SendFrameClosed, GiveUp, Retry, Goto
  <2>3. Open /\ WireAt
    BY <1>2, <2>2 DEF ActorRuns, CallsOpen
  <2> QED BY <1>2, <2>3, OpenKeeps
<1>3. CASE CallsRead
  <2>1. CASE \E n : n = rxPos' - rxPos /\ ReadData /\ ReadBytes(n)
    BY <2>1, ReadKeeps
  <2> QED BY <1>3, <2>1, ReadEndKeeps DEF CallsRead
<1>4. CASE UNCHANGED actorVars /\ UNCHANGED transportVars
  <2>1. /\ UNCHANGED <<strategy, rewind, pos, rxPos, cutAfter, sessionFrom, Produced, ending>>
        /\ Where' = Where
    BY <1>4 DEF actorVars, transportVars, Produced, Where
  <2>2. Quiet
    BY <2>1 DEF Quiet
  <2> QED BY <2>2, QuietKeeps
<1>5. CASE UNCHANGED serviceVars
  BY <1>4, <1>5 DEF serviceVars, vars
<1> QED BY <1>1, <1>2, <1>3, <1>4, <1>5 DEF ServiceNext
-----------------------------------------------------------------------------
(* The same message of every copy is one message of the recording. *)
LEMMA Division ==
  \A a \in Int, b \in Nat \ {0} :
    a \div b \in Int /\ a % b \in 0..(b - 1) /\ a = b * (a \div b) + (a % b)
  OBVIOUS

LEMMA Multiple == \A h \in Nat, k \in Int : k >= 1 => h * k >= h
  OBVIOUS

LEMMA Remainder ==
  ASSUME NEW h \in Nat \ {0}, NEW q \in Nat, NEW r \in 0..(h - 1)
  PROVE  (q * h + r) % h = r
<1> DEFINE a == q * h + r
           d == a \div h
           s == a % h
<1>1. a \in Int /\ r \in Int /\ h \in Int /\ q \in Int
  OBVIOUS
<1>2. d \in Int /\ s \in 0..(h - 1) /\ a = h * d + s
  BY <1>1, Division
<1>3. h * (q - d) = s - r
  <2> HIDE DEF d, s
  <2>1. q * h + r = h * d + s
    BY <1>2
  <2> QED BY <1>1, <1>2, <2>1
<1> HIDE DEF a, d, s
<1>4. ~(q - d >= 1)
  <2> SUFFICES ASSUME q - d >= 1 PROVE FALSE
    OBVIOUS
  <2>1. h * (q - d) >= h
    BY <1>1, <1>2, Multiple
  <2> DEFINE z == h * (q - d)
  <2>2. z >= h /\ z = s - r
    BY <2>1, <1>3
  <2> HIDE DEF z
  <2> QED BY <2>2, <1>2
<1>5. ~(d - q >= 1)
  <2> SUFFICES ASSUME d - q >= 1 PROVE FALSE
    OBVIOUS
  <2>1. h * (d - q) >= h
    BY <1>1, <1>2, Multiple
  <2>2. h * (d - q) = -(h * (q - d))
    BY <1>1, <1>2
  <2> DEFINE z == h * (d - q)
             y == h * (q - d)
  <2>3. z >= h /\ z = -y /\ y = s - r
    BY <2>1, <2>2, <1>3
  <2>4. y \in Int /\ z \in Int
    BY <1>1, <1>2
  <2> HIDE DEF z, y
  <2> QED BY <2>3, <2>4, <1>2
<1>6. q = d
  BY <1>1, <1>2, <1>4, <1>5
<1>7. s = r
  BY <1>1, <1>2, <1>3, <1>6
<1> QED BY <1>7 DEF s, a

LEMMA RecordingOf ==
  ASSUME NEW h \in Nat \ {0}, h = RecordingLen \div 2, NEW q \in Nat, NEW r \in 1..h
  PROVE  Recording(q * h + r) = r
<1>1. r - 1 \in 0..(h - 1)
  OBVIOUS
<1>2. (q * h + (r - 1)) % h = r - 1
  BY <1>1, Remainder
<1>3. q * h + r - 1 = q * h + (r - 1)
  OBVIOUS
<1> QED BY <1>2, <1>3 DEF Recording

LEMMA InitPlay == ServiceInit => PlayInv
<1> SUFFICES ASSUME ServiceInit PROVE PlayInv
  OBVIOUS
<1>1. Where \in {"waiting", "over"} /\ rxPos = 1 /\ sessionFrom = 1 /\ pos = 0
  <2>1. phase \in {"top", "stopped"} /\ rxPos = 1 /\ sessionFrom = 1
    BY DEF ServiceInit, Init, ActorInit
  <2>2. pos = 0
    BY DEF ServiceInit, TransportInit
  <2>3. Where \in {"waiting", "over"}
    BY <2>1 DEF Where, InSession, Waiting
  <2> QED BY <2>1, <2>2, <2>3
<1>2. \A m \in Nat \ {0} : ~(2*m < 1)
  OBVIOUS
<1>3. \A m \in Nat : ~(1 <= 2*m - 1 /\ 2*m < 1)
  OBVIOUS
<1>4. SessionSent
  BY <1>1, <1>3 DEF SessionSent
<1>5. PlaysCopy
  BY <1>1 DEF PlaysCopy
<1>6. AllBefore(1)
  BY <1>2 DEF AllBefore
<1>7. PlaysOn
  <2>1. \E lost \in Nat : \A m \in Nat \ {0} : 2*m < 1 /\ m # lost => SentWhole(m)
    BY <1>2
  <2> QED BY <1>1, <1>6, <2>1 DEF PlaysOn
<1>8. EndsAtEnd
  BY <1>1 DEF EndsAtEnd
<1> QED BY <1>4, <1>5, <1>7, <1>8 DEF PlayInv

(* At the end of the recording every frame that was cut has been sent. *)
LEMMA PlayedToTheEnd ==
  ASSUME TypeOK, TransportTypes, PlayInv, IsReplay, phase = "ending", ending = "eof"
  PROVE  (rewind => Unplayed = {}) /\ Cardinality(Unplayed) <= 1
<1> DEFINE h == RecordingLen \div 2
<1>1. h \in Nat \ {0} /\ RecordingLen = 2 * h /\ RecordingLen \in Nat
  BY RecordingFacts
<1>2. Where = "ended" /\ pos = RecordingLen
  BY DEF Where, InSession, PlayInv, EndsAtEnd
<1>3. Produced = emitted
  <2>1. outbox = <<>> /\ emitted \in Seq(Frame)
    BY DEF TypeOK, ActorTypes
  <2> QED BY <2>1, EmptySeq, ConcatEmptySeq DEF Produced
<1>4. ASSUME NEW m \in Nat, SentWhole(m), Recording(m) \in Recorded
      PROVE  Recording(m) \notin Unplayed
  <2> DEFINE f == [head |-> 2*m - 1, tail |-> 2*m]
  <2>1. f \in On(emitted)
    BY <1>3, <1>4 DEF SentWhole
  <2>2. f.head = 2*m - 1 /\ f.tail = 2*m
    OBVIOUS
  <2> HIDE DEF f
  <2>3. f.tail = f.head + 1 /\ MessageOf(f) = m
    BY <2>2 DEF MessageOf
  <2> QED BY <2>1, <2>3, Zenon DEF Unplayed
<1>5. Recorded = 1..h /\ Unplayed \subseteq Recorded
  BY DEF Recorded, Unplayed
<1>6. CASE rewind
  <2>1. rxPos = sessionFrom + RecordingLen
    BY <1>2, <1>6 DEF PlayInv, PlaysCopy
  <2>2. PICK q \in Nat : sessionFrom = q * RecordingLen + 1
    BY <1>2, <1>6 DEF PlayInv, PlaysCopy
  <2> HIDE DEF h
  <2>3. ASSUME NEW r \in 1..h PROVE r \notin Unplayed
    <3> DEFINE p == q * h
               m == p + r
    <3>1. p \in Nat /\ sessionFrom = 2 * p + 1
      BY <1>1, <2>2
    <3>2. Recording(m) = r
      BY <1>1, RecordingOf DEF h
    <3> HIDE DEF p
    <3>3. m \in Nat /\ sessionFrom <= 2*m - 1 /\ 2*m < rxPos
      BY <1>1, <2>1, <3>1
    <3> HIDE DEF m
    <3>4. SentWhole(m)
      BY <1>2, <3>3 DEF PlayInv, SessionSent
    <3> QED BY <1>4, <1>5, <3>2, <3>3, <3>4
  <2>4. Unplayed = {}
    BY <1>5, <2>3
  <2> QED BY <2>4, FS_EmptySet
<1>7. CASE ~rewind
  <2>1. rxPos = RecordingLen + 1
    BY <1>2, <1>7 DEF PlayInv, PlaysOn
  <2>2. PICK lost \in Nat : \A m \in Nat \ {0} : 2*m < rxPos /\ m # lost => SentWhole(m)
    BY <1>2, <1>7 DEF PlayInv, PlaysOn
  <2> HIDE DEF h
  <2>3. ASSUME NEW r \in 1..h, r # lost PROVE r \notin Unplayed
    <3>1. r \in Nat \ {0} /\ 2*r < rxPos
      BY <1>1, <2>1
    <3>2. 0 * h + r = r
      BY <1>1
    <3>3. Recording(r) = r
      BY <1>1, <3>2, RecordingOf DEF h
    <3> QED BY <1>4, <1>5, <2>2, <2>3, <3>1, <3>3
  <2>4. Unplayed \subseteq {lost}
    BY <1>5, <2>3
  <2>5. Cardinality({lost}) = 1 /\ IsFiniteSet({lost})
    BY FS_Singleton
  <2>6. Cardinality(Unplayed) <= 1
    BY <2>4, <2>5, FS_Subset
  <2> QED BY <1>7, <2>6
<1> QED BY <1>6, <1>7

(* A replay that is played to its end, through whatever cuts, refusals and    *)
(* reconnects, has given every whole message to the drain, but for the one    *)
(* that the injected disconnect may have cut: for every recording, buffer,    *)
(* moment of the disconnect and limit on reconnects.                         *)
THEOREM RecordingPlayedWhole == ServiceSpec => []PlayedWhole
<1> DEFINE Inv == TypeOK /\ TransportTypes /\ WholeFramesOnly /\ OnOneConnection
<1>1. ServiceInit => PlayInv
  BY InitPlay
<1>2. Inv /\ PlayInv /\ [ServiceNext]_serviceVars => PlayInv'
  BY NextPlay
<1>3. Inv /\ PlayInv => PlayedWhole
  BY PlayedToTheEnd DEF PlayedWhole
<1>4. ServiceTypes => TransportTypes
  BY DEF ServiceTypes
<1> QED BY <1>1, <1>2, <1>3, <1>4, ServiceTypeCorrect, OneConnection, ServiceImplementsSpec,
           TypeCorrect, FramesAreWhole, PTL DEF ServiceSpec
=============================================================================
