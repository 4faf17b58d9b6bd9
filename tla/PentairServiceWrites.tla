------------------------ MODULE PentairServiceWrites ------------------------
(* What the write gate and the Actor guarantee about every request, proved   *)
(* from the inductive invariant WriteInv of PentairService, and that the     *)
(* service implements CommandBus.                                            *)
EXTENDS PentairServiceProofs

(* Facts about the sequences Line and Backlog. *)

(* An interval from 1 has one upper end. *)
LEMMA SameInterval ==
  ASSUME NEW m \in Nat, NEW n \in Nat, 1..m = 1..n
  PROVE  m = n
<1>1. CASE m < n
  <2>1. n \in 1..n /\ n \notin 1..m
    BY <1>1
  <2> QED BY <2>1
<1>2. CASE n < m
  <2>1. m \in 1..m /\ m \notin 1..n
    BY <1>2
  <2> QED BY <2>1
<1> QED BY <1>1, <1>2

(* What is written, in hand and queued are sequences of calls. *)
LEMMA LineTyped ==
  ASSUME TypeOK
  PROVE  /\ Transmitted \in Seq(Calls) /\ Len(Transmitted) = Len(txLog)
         /\ InHand \in Seq(Calls)
         /\ Backlog \in Seq(Calls) /\ Line \in Seq(Calls)
<1>1. txLog \in Seq([call : Calls, ok : BOOLEAN])
  BY DEF TypeOK, ActorTypes
<1>2. DOMAIN txLog = 1..Len(txLog) /\ Len(txLog) \in Nat
      /\ \A i \in 1..Len(txLog) : txLog[i] \in [call : Calls, ok : BOOLEAN]
  BY <1>1, LenProperties, ElementOfSeq
<1>3. Transmitted \in [1..Len(txLog) -> Calls]
  BY <1>2 DEF Transmitted
<1>4. Transmitted \in Seq(Calls) /\ Len(Transmitted) = Len(txLog)
  <2>1. Transmitted \in Seq(Calls)
    BY <1>2, <1>3, FunctionIsSeq
  <2>2. DOMAIN Transmitted = 1..Len(Transmitted) /\ Len(Transmitted) \in Nat
    BY <2>1, LenProperties
  <2>3. DOMAIN Transmitted = 1..Len(txLog)
    BY <1>3
  <2> HIDE DEF Transmitted
  <2>4. Len(Transmitted) = Len(txLog)
    BY <1>2, <2>2, <2>3, SameInterval
  <2> QED BY <2>1, <2>4
<1>5. InHand \in Seq(Calls)
  <2>1. CASE phase = "writing"
    BY <2>1, SingletonSeq DEF InHand, TypeOK, ActorTypes
  <2>2. CASE phase # "writing"
    BY <2>2, EmptySeq DEF InHand
  <2> QED BY <2>1, <2>2
<1>6. Backlog \in Seq(Calls)
  BY <1>5, ConcatProperties DEF Backlog, TypeOK, ChannelTypes
<1> QED BY <1>4, <1>5, <1>6, ConcatProperties DEF Line

(* Who is in a concatenation is in one of its parts. *)
LEMMA OnConcat ==
  ASSUME NEW S, NEW s \in Seq(S), NEW t \in Seq(S)
  PROVE  On(s \o t) = On(s) \cup On(t)
<1>1. /\ s \o t \in Seq(S) /\ Len(s \o t) = Len(s) + Len(t)
      /\ Len(s) \in Nat /\ Len(t) \in Nat
      /\ DOMAIN s = 1..Len(s) /\ DOMAIN t = 1..Len(t)
      /\ DOMAIN (s \o t) = 1..(Len(s) + Len(t))
      /\ \A i \in 1..(Len(s) + Len(t)) :
           (s \o t)[i] = IF i <= Len(s) THEN s[i] ELSE t[i - Len(s)]
  BY ConcatProperties, LenProperties
<1>2. ASSUME NEW x \in On(s) PROVE x \in On(s \o t)
  BY <1>1 DEF On
<1>3. ASSUME NEW x \in On(t) PROVE x \in On(s \o t)
  <2>1. PICK i \in 1..Len(t) : t[i] = x
    BY <1>1 DEF On
  <2>2. Len(s) + i \in 1..(Len(s) + Len(t)) /\ (s \o t)[Len(s) + i] = x
    BY <1>1, <2>1
  <2> QED BY <1>1, <2>2 DEF On
<1>4. ASSUME NEW x \in On(s \o t) PROVE x \in On(s) \cup On(t)
  <2>1. PICK i \in 1..(Len(s) + Len(t)) : (s \o t)[i] = x
    BY <1>1 DEF On
  <2>2. CASE i <= Len(s)
    BY <1>1, <2>1, <2>2 DEF On
  <2>3. CASE ~(i <= Len(s))
    <3>1. i - Len(s) \in 1..Len(t) /\ t[i - Len(s)] = x
      BY <1>1, <2>1, <2>3
    <3> QED BY <1>1, <3>1 DEF On
  <2> QED BY <2>2, <2>3
<1> QED BY <1>2, <1>3, <1>4

(* Who is in a singleton. *)
LEMMA OnSingle == ASSUME NEW x PROVE On(<<x>>) = {x}
  BY DEF On

(* Nobody is in the empty sequence. *)
LEMMA OnEmpty == On(<<>>) = {}
  BY DEF On

(* How each kind of step changes the line of requests. *)

(* A step that neither queues, takes nor writes leaves the line alone. *)
LEMMA LineKept ==
  ASSUME UNCHANGED <<txLog, writeQ, current>>, InHand' = InHand
  PROVE  Line' = Line /\ Backlog' = Backlog
  BY DEF Line, Backlog, Transmitted

(* Sending a request puts it at the end of the line. *)
LEMMA LineSend ==
  ASSUME TypeOK, NEW c \in Calls,
         writeQ' = Append(writeQ, c), UNCHANGED actorVars
  PROVE  /\ Line' = Append(Line, c)
         /\ On(Backlog') = On(Backlog) \cup {c}
         /\ On(Line') = On(Line) \cup {c}
<1>1. Transmitted' = Transmitted /\ InHand' = InHand
  BY DEF actorVars, Transmitted, InHand
<1>2. /\ writeQ \in Seq(Calls) /\ <<c>> \in Seq(Calls)
      /\ Backlog \in Seq(Calls) /\ InHand \in Seq(Calls)
      /\ Transmitted \in Seq(Calls) /\ Line \in Seq(Calls)
  BY LineTyped, SingletonSeq DEF TypeOK, ChannelTypes
<1>3. writeQ' = writeQ \o <<c>>
  BY <1>2, AppendIsConcat
<1>4. Backlog' = Backlog \o <<c>>
  BY <1>1, <1>2, <1>3, ConcatAssociative DEF Backlog
<1>5. Line' = Line \o <<c>>
  BY <1>1, <1>2, <1>4, ConcatAssociative DEF Line
<1>6. On(<<c>>) = {c}
  BY OnSingle
<1> HIDE DEF Line, Backlog
<1>7. Line' = Append(Line, c)
  BY <1>2, <1>5, AppendIsConcat
<1>8. On(Line') = On(Line) \cup {c}
  <2>1. On(Line \o <<c>>) = On(Line) \cup On(<<c>>)
    BY <1>2, OnConcat
  <2> QED BY <1>5, <1>6, <2>1
<1>9. On(Backlog') = On(Backlog) \cup {c}
  <2>1. On(Backlog \o <<c>>) = On(Backlog) \cup On(<<c>>)
    BY <1>2, OnConcat
  <2> QED BY <1>4, <1>6, <2>1
<1> QED BY <1>7, <1>8, <1>9

(* Taking a request from the channel moves it within the line. *)
LEMMA LineTake ==
  ASSUME TypeOK, phase # "writing", phase' = "writing", writeQ # <<>>,
         current' = Head(writeQ), writeQ' = Tail(writeQ), UNCHANGED txLog
  PROVE  Line' = Line /\ Backlog' = Backlog
<1>1. writeQ \in Seq(Calls)
  BY DEF TypeOK, ChannelTypes
<1>2. InHand = <<>> /\ InHand' = <<Head(writeQ)>>
  BY DEF InHand
<1>3. Backlog' = writeQ
  BY <1>1, <1>2, HeadThenTail DEF Backlog
<1>4. Backlog = writeQ
  BY <1>1, <1>2, ConcatEmptySeq DEF Backlog
<1> QED BY <1>3, <1>4 DEF Line, Transmitted

(* Finishing a write moves the request within the line, out of the backlog. *)
LEMMA LineWrite ==
  ASSUME TypeOK, phase = "writing", phase' # "writing", NEW ok \in BOOLEAN,
         txLog' = Append(txLog, [call |-> current, ok |-> ok]), UNCHANGED writeQ
  PROVE  /\ Line' = Line /\ Backlog' = writeQ
         /\ Backlog = <<current>> \o writeQ /\ current \in Calls
<1>1. writeQ \in Seq(Calls) /\ current \in Calls
  BY DEF TypeOK, ChannelTypes, ActorTypes
<1>2. InHand = <<current>> /\ InHand' = <<>>
  BY DEF InHand
<1>3. Backlog' = writeQ /\ Backlog = <<current>> \o writeQ
  BY <1>1, <1>2, ConcatEmptySeq DEF Backlog
<1>4. Transmitted' = Transmitted \o <<current>>
  <2> DEFINE r == [call |-> current, ok |-> ok]
             T == Transmitted \o <<current>>
  <2>1. txLog \in Seq([call : Calls, ok : BOOLEAN]) /\ r \in [call : Calls, ok : BOOLEAN]
    BY <1>1 DEF TypeOK, ActorTypes
  <2>2. r.call = current
    OBVIOUS
  <2> HIDE DEF r
  <2>3. /\ txLog' \in Seq([call : Calls, ok : BOOLEAN]) /\ Len(txLog') = Len(txLog) + 1
        /\ \A i \in 1..Len(txLog) : txLog'[i] = txLog[i]
        /\ txLog'[Len(txLog) + 1] = r
        /\ Len(txLog) \in Nat
    BY <2>1, AppendProperties, LenProperties DEF r
  <2>4. DOMAIN txLog = 1..Len(txLog) /\ DOMAIN txLog' = 1..(Len(txLog) + 1)
    BY <2>1, <2>3, LenProperties
  <2>5. /\ T \in Seq(Calls) /\ Len(T) = Len(txLog) + 1
        /\ \A i \in 1..(Len(txLog) + 1) :
             T[i] = IF i <= Len(txLog) THEN Transmitted[i] ELSE current
    <3>1. <<current>> \in Seq(Calls) /\ Len(<<current>>) = 1 /\ <<current>>[1] = current
      BY <1>1, SingletonSeq
    <3>2. Transmitted \in Seq(Calls) /\ Len(Transmitted) = Len(txLog)
      BY LineTyped
    <3> HIDE DEF Transmitted
    <3> QED BY <2>3, <3>1, <3>2, ConcatProperties
  <2>6. /\ Transmitted' = [i \in 1..(Len(txLog) + 1) |-> txLog'[i].call]
        /\ \A i \in 1..Len(txLog) : Transmitted[i] = txLog[i].call
    BY <2>4 DEF Transmitted
  <2>7. \A i \in 1..(Len(txLog) + 1) : T[i] = Transmitted'[i]
    BY <2>2, <2>3, <2>5, <2>6
  <2>8. T = [i \in 1..(Len(txLog) + 1) |-> T[i]]
    BY <2>5, LenProperties
  <2> HIDE DEF T
  <2>9. Transmitted' = T
    BY <2>6, <2>7, <2>8
  <2> QED BY <2>9 DEF T
<1>5. Line' = Line
  BY <1>1, <1>3, <1>4, LineTyped, SingletonSeq, ConcatAssociative DEF Line
<1> QED BY <1>1, <1>3, <1>5

(* Stopping cuts the channel off the line. *)
LEMMA LineStop ==
  ASSUME TypeOK, phase # "writing", phase' # "writing", writeQ' = <<>>, UNCHANGED txLog
  PROVE  /\ Backlog = writeQ /\ Backlog' = <<>>
         /\ Line = Transmitted \o writeQ /\ Line' = Transmitted
<1>1. writeQ \in Seq(Calls) /\ Transmitted \in Seq(Calls) /\ <<>> \in Seq(Calls)
  BY LineTyped, EmptySeq DEF TypeOK, ChannelTypes
<1>2. InHand = <<>> /\ InHand' = <<>> /\ Transmitted' = Transmitted
  BY DEF InHand, Transmitted
<1> QED BY <1>1, <1>2, ConcatEmptySeq DEF Backlog, Line
-----------------------------------------------------------------------------
(* The invariant. *)

(* Before the first call nobody holds the gate and the line is empty. *)
LEMMA InitWrites == Init => WriteInv
<1> SUFFICES ASSUME Init PROVE WriteInv
  OBVIOUS
<1>1. /\ txLog = <<>> /\ writeQ = <<>> /\ phase # "writing"
      /\ lock = NoCall /\ call = [c \in Calls |-> "new"] /\ tickets = 0
      /\ ticket = [c \in Calls |-> 0] /\ reply = [c \in Calls |-> "pending"]
      /\ phase = "stopped" => "writeRx" \in dropped
  BY DEF Init, ChannelsInit, GateInit, ActorInit, ChannelEnds
<1>2. Backlog = <<>> /\ Line = <<>> /\ Len(<<>>) = 0
  BY <1>1 DEF Backlog, Line, InHand, Transmitted
<1>3. On(Line) = {} /\ On(Backlog) = {} /\ 1..Len(Line) = {}
  BY <1>2, OnEmpty
<1> HIDE DEF Line, Backlog
<1>4. GateExclusive
  BY <1>1, GateAssumption DEF GateExclusive, InFlight
<1>5. TicketsIssued /\ FifoOnce /\ GatedIsNewest
  BY <1>1, <1>3 DEF TicketsIssued, FifoOnce, GatedIsNewest
<1>6. BacklogUnanswered /\ RepliesTrue /\ AnswersMatch /\ RefusedIsNeverSent
  BY <1>1, <1>3 DEF BacklogUnanswered, RepliesTrue, AnswersMatch, RefusedIsNeverSent,
     Refusals
<1>7. AwaitedIsThere
  BY <1>1 DEF AwaitedIsThere
<1> QED BY <1>4, <1>5, <1>6, <1>7 DEF WriteInv

(* A step that leaves the line, the replies and the gate alone. *)
LEMMA SameLine ==
  ASSUME WriteInv, Line' = Line, Backlog' = Backlog,
         UNCHANGED <<txLog, reply, gateVars>>,
         phase' = "stopped" => writeQ' = <<>> /\ "writeRx" \in dropped'
  PROVE  WriteInv'
<1>1. UNCHANGED <<lock, call, tickets, ticket>>
  BY DEF gateVars
<1> HIDE DEF Line, Backlog
<1>2. (GateExclusive /\ TicketsIssued /\ FifoOnce /\ GatedIsNewest)'
  BY <1>1 DEF WriteInv, GateExclusive, TicketsIssued, FifoOnce, GatedIsNewest
<1>3. (BacklogUnanswered /\ RepliesTrue /\ AnswersMatch /\ RefusedIsNeverSent)'
  BY <1>1 DEF WriteInv, BacklogUnanswered, RepliesTrue, AnswersMatch, RefusedIsNeverSent,
     Wrote, On
<1>4. AwaitedIsThere'
  BY <1>1 DEF WriteInv, AwaitedIsThere, On
<1> QED BY <1>2, <1>3, <1>4 DEF WriteInv

(* A member of a sequence has an index. *)
LEMMA OnIndex ==
  ASSUME NEW S, NEW s \in Seq(S), NEW x
  PROVE  x \in On(s) <=> \E i \in 1..Len(s) : s[i] = x
  BY LenProperties DEF On

(* Who is not in line: a call that has no ticket yet, and the gated one. *)
LEMMA NotInLine ==
  ASSUME TypeOK, WriteInv, NEW c \in Calls, call[c] \in {"new", "gated"}
  PROVE  c \notin On(Line) /\ c \notin On(Backlog)
<1>1. Line \in Seq(Calls) /\ Backlog \in Seq(Calls)
  BY LineTyped
<1>2. \A i \in 1..Len(Line) : Line[i] \in Calls
  BY <1>1, ElementOfSeq
<1>3. ticket \in [Calls -> Nat]
  BY DEF TypeOK, GateTypes
<1>4. \A i \in 1..Len(Line) : Line[i] # c
  <2>1. CASE call[c] = "new"
    BY <2>1, <1>2, <1>3 DEF WriteInv, TicketsIssued
  <2>2. CASE call[c] = "gated"
    BY <2>2, <1>2, <1>3 DEF WriteInv, GatedIsNewest
  <2> QED BY <2>1, <2>2
<1>5. c \notin On(Line)
  BY <1>1, <1>4, OnIndex
<1>6. c \notin On(Backlog)
  BY DEF WriteInv, BacklogUnanswered
<1> QED BY <1>5, <1>6

(* A step of the gate that sends nothing leaves the line alone. *)
LEMMA GateKeepsLine ==
  ASSUME UNCHANGED <<writeQ, actorVars>>
  PROVE  Line' = Line /\ Backlog' = Backlog /\ UNCHANGED <<txLog, phase>>
  BY LineKept DEF actorVars, InHand

(* A call that ends gives the gate back and reports what the reply said. *)
LEMMA EndWrites ==
  ASSUME TypeOK, WriteInv, NEW c \in Calls, call[c] \in InFlight,
         NEW how \in (Refusals \ {"badCommand", "busy"}) \cup {"ioError", "sent", "gone"},
         End(c, how), UNCHANGED <<writeQ, reply, actorVars>>,
         how \in Refusals => c \notin On(Line),
         how # "gone" => c \notin On(Backlog),
         how = "sent" => reply[c] = "ok",
         how = "ioError" => reply[c] = "err",
         how = "dropped" => reply[c] = "dropped"
  PROVE  WriteInv'
<1>1. /\ call' = [call EXCEPT ![c] = how] /\ lock' = NoCall
      /\ UNCHANGED <<tickets, ticket, reply, writeQ, dropped>>
      /\ call \in [Calls -> CallState]
  BY DEF End, TypeOK, GateTypes
<1>2. Line' = Line /\ Backlog' = Backlog /\ UNCHANGED <<txLog, phase>>
  BY GateKeepsLine
<1>3. how \notin InFlight /\ how \notin {"new", "badCommand", "busy", "gated", "awaiting"}
      /\ how # "listening"
  BY DEF InFlight, Refusals
<1>4. \A d \in Calls : call'[d] = IF d = c THEN how ELSE call[d]
  BY <1>1
<1>5. lock = c
  BY DEF WriteInv, GateExclusive
<1> HIDE DEF Line, Backlog
<1>6. GateExclusive'
  BY <1>1, <1>3, <1>4, <1>5, GateAssumption DEF WriteInv, GateExclusive
<1>7. TicketsIssued'
  <2>1. call[c] \notin {"new", "badCommand", "busy"}
    BY DEF InFlight
  <2> QED BY <1>1, <1>2, <1>3, <1>4, <2>1 DEF WriteInv, TicketsIssued
<1>8. FifoOnce' /\ GatedIsNewest'
  BY <1>1, <1>2, <1>3, <1>4 DEF WriteInv, FifoOnce, GatedIsNewest
<1>9. On(Line)' = On(Line) /\ On(Backlog)' = On(Backlog)
  BY <1>2 DEF On
<1>10. BacklogUnanswered'
  <2>1. \A d \in On(Backlog) : d # c \/ how = "gone"
    OBVIOUS
  <2> QED BY <1>1, <1>4, <1>9, <2>1, LineTyped, OnIndex, ElementOfSeq
          DEF WriteInv, BacklogUnanswered
<1>11. RepliesTrue'
  BY <1>1, <1>2, <1>3, <1>4, <1>9 DEF WriteInv, RepliesTrue, Wrote
<1>12. AnswersMatch'
  BY <1>1, <1>3, <1>4 DEF WriteInv, AnswersMatch
<1>13. RefusedIsNeverSent'
  BY <1>4, <1>9 DEF WriteInv, RefusedIsNeverSent
<1>14. AwaitedIsThere'
  BY <1>1, <1>2, <1>3, <1>4, <1>9 DEF WriteInv, AwaitedIsThere
<1> QED BY <1>6, <1>7, <1>8, <1>10, <1>11, <1>12, <1>13, <1>14 DEF WriteInv

(* 400 and 409: the call never had the mutex. *)
LEMMA TurnedAwayWrites ==
  ASSUME TypeOK, WriteInv, NEW c \in Calls, call[c] = "new",
         NEW how \in {"badCommand", "busy"}, call' = [call EXCEPT ![c] = how],
         UNCHANGED <<lock, tickets, ticket, channelVars, actorVars>>
  PROVE  WriteInv'
<1>1. /\ UNCHANGED <<lock, tickets, ticket, reply, writeQ, dropped>>
      /\ call \in [Calls -> CallState]
  BY DEF TypeOK, GateTypes, channelVars
<1>2. Line' = Line /\ Backlog' = Backlog /\ UNCHANGED <<txLog, phase>>
  BY <1>1, GateKeepsLine
<1>3. how \notin InFlight /\ "new" \notin InFlight
  BY DEF InFlight
<1>4. \A d \in Calls : call'[d] = IF d = c THEN how ELSE call[d]
  BY <1>1
<1>5. c \notin On(Line) /\ c \notin On(Backlog)
  BY NotInLine
<1> HIDE DEF Line, Backlog
<1>6. GateExclusive'
  BY <1>1, <1>3, <1>4 DEF WriteInv, GateExclusive
<1>7. TicketsIssued'
  BY <1>1, <1>2, <1>4 DEF WriteInv, TicketsIssued
<1>8. FifoOnce' /\ GatedIsNewest'
  BY <1>1, <1>2, <1>4 DEF WriteInv, FifoOnce, GatedIsNewest
<1>9. On(Line)' = On(Line) /\ On(Backlog)' = On(Backlog)
  BY <1>2 DEF On
<1>10. BacklogUnanswered'
  BY <1>1, <1>4, <1>5, <1>9, LineTyped, OnIndex, ElementOfSeq
     DEF WriteInv, BacklogUnanswered
<1>11. RepliesTrue'
  BY <1>1, <1>2, <1>4, <1>9 DEF WriteInv, RepliesTrue, Wrote
<1>12. AnswersMatch' /\ RefusedIsNeverSent'
  BY <1>1, <1>4, <1>5, <1>9 DEF WriteInv, AnswersMatch, RefusedIsNeverSent
<1>13. AwaitedIsThere'
  BY <1>1, <1>2, <1>4, <1>9 DEF WriteInv, AwaitedIsThere
<1> QED BY <1>6, <1>7, <1>8, <1>10, <1>11, <1>12, <1>13 DEF WriteInv

(* try_lock: the new holder has the newest ticket and is not in line. *)
LEMMA AdmitWrites ==
  ASSUME TypeOK, WriteInv, NEW c \in Calls, Admit(c), UNCHANGED actorVars
  PROVE  WriteInv'
<1>1. /\ call[c] = "new" /\ lock = NoCall /\ lock' = c
      /\ UNCHANGED <<reply, writeQ, dropped>>
      /\ tickets' = tickets + 1 /\ tickets \in Nat
      /\ ticket \in [Calls -> Nat] /\ call \in [Calls -> CallState]
  BY DEF Admit, channelVars, TypeOK, GateTypes
<1>2. Line' = Line /\ Backlog' = Backlog /\ UNCHANGED <<txLog, phase>>
  BY <1>1, GateKeepsLine
<1>3. \A d \in Calls : /\ call'[d] = IF d = c THEN "gated" ELSE call[d]
                       /\ ticket'[d] = IF d = c THEN tickets + 1 ELSE ticket[d]
  BY <1>1 DEF Admit
<1>4. c \notin On(Line) /\ c \notin On(Backlog)
  BY <1>1, NotInLine
<1>5. \A i \in 1..Len(Line) : Line[i] \in Calls /\ Line[i] # c
  BY <1>4, LineTyped, ElementOfSeq, OnIndex
<1> HIDE DEF Line, Backlog
<1>6. GateExclusive'
  BY <1>1, <1>3, GateAssumption DEF WriteInv, GateExclusive, InFlight
<1>7. TicketsIssued'
  BY <1>1, <1>2, <1>3, <1>5 DEF WriteInv, TicketsIssued
<1>8. FifoOnce'
  BY <1>2, <1>3, <1>5 DEF WriteInv, FifoOnce
<1>9. GatedIsNewest'
  <2>1. \A d \in Calls : call'[d] = "gated" => d = c
    BY <1>1, <1>3, GateAssumption DEF WriteInv, GateExclusive, InFlight
  <2>2. \A i \in 1..Len(Line) : ticket[Line[i]] < tickets + 1
    BY <1>1, <1>5 DEF WriteInv, TicketsIssued
  <2> QED BY <1>2, <1>3, <1>5, <2>1, <2>2 DEF GatedIsNewest
<1>10. On(Line)' = On(Line) /\ On(Backlog)' = On(Backlog)
  BY <1>2 DEF On
<1>11. BacklogUnanswered'
  <2>1. \A d \in On(Backlog) : d \in Calls /\ d # c
    BY <1>4, LineTyped, OnIndex, ElementOfSeq
  <2> QED BY <1>1, <1>3, <1>10, <2>1 DEF WriteInv, BacklogUnanswered
<1>12. RepliesTrue'
  BY <1>1, <1>2, <1>3, <1>10 DEF WriteInv, RepliesTrue, Wrote
<1>13. AnswersMatch' /\ RefusedIsNeverSent'
  BY <1>1, <1>3, <1>10 DEF WriteInv, AnswersMatch, RefusedIsNeverSent, Refusals
<1>14. AwaitedIsThere'
  BY <1>1, <1>2, <1>3, <1>10 DEF WriteInv, AwaitedIsThere
<1> QED BY <1>6, <1>7, <1>8, <1>9, <1>11, <1>12, <1>13, <1>14 DEF WriteInv

(* The holder's request goes behind all others, whose tickets are older. *)
LEMMA SendWrites ==
  ASSUME TypeOK, WriteInv, NEW c \in Calls, Send(c), UNCHANGED actorVars
  PROVE  WriteInv'
<1>1. /\ call[c] = "gated" /\ writeQ' = Append(writeQ, c)
      /\ "writeRx" \notin dropped
      /\ UNCHANGED <<lock, tickets, ticket, reply, dropped>>
      /\ ticket \in [Calls -> Nat] /\ call \in [Calls -> CallState]
  BY DEF Send, TypeOK, GateTypes
<1>2. \A d \in Calls : call'[d] = IF d = c THEN "awaiting" ELSE call[d]
  BY <1>1 DEF Send
<1>3. /\ Line' = Append(Line, c) /\ On(Line') = On(Line) \cup {c}
      /\ On(Backlog') = On(Backlog) \cup {c}
  BY <1>1, LineSend
<1>4. UNCHANGED <<txLog, phase>>
  BY DEF actorVars
<1>5. Line \in Seq(Calls) /\ Backlog \in Seq(Calls)
  BY LineTyped
<1> HIDE DEF Line, Backlog
<1>6. /\ Len(Line') = Len(Line) + 1 /\ Len(Line) \in Nat
      /\ \A i \in 1..Len(Line) : Line'[i] = Line[i] /\ Line[i] \in Calls
      /\ Line'[Len(Line) + 1] = c
  BY <1>3, <1>5, AppendProperties, LenProperties, ElementOfSeq
<1>7. \A d \in On(Backlog) : d \in Calls
  BY <1>5, OnIndex, ElementOfSeq
<1>8. lock = c
  BY <1>1 DEF WriteInv, GateExclusive, InFlight
<1>9. GateExclusive'
  BY <1>1, <1>2 DEF WriteInv, GateExclusive, InFlight
<1>10. TicketsIssued'
  <2>1. ticket[c] > 0
    BY <1>1 DEF WriteInv, TicketsIssued
  <2>2. \A i \in 1..Len(Line') : ticket'[Line'[i]] > 0
    BY <1>1, <1>6, <2>1 DEF WriteInv, TicketsIssued
  <2> QED BY <1>1, <1>2, <2>2 DEF WriteInv, TicketsIssued
<1>11. FifoOnce'
  <2>1. \A i \in 1..Len(Line) : ticket[Line[i]] < ticket[c]
    BY <1>1 DEF WriteInv, GatedIsNewest
  <2>2. ASSUME NEW i \in 1..Len(Line'), NEW j \in 1..Len(Line'), i < j
        PROVE  ticket[Line'[i]] < ticket[Line'[j]]
    BY <1>6, <2>1, <2>2 DEF WriteInv, FifoOnce
  <2> QED BY <1>1, <2>2 DEF FifoOnce
<1>12. GatedIsNewest'
  BY <1>1, <1>2, <1>8 DEF WriteInv, GateExclusive, GatedIsNewest, InFlight
<1>13. BacklogUnanswered'
  <2>1. reply[c] = "pending"
    BY <1>1 DEF WriteInv, RepliesTrue
  <2>2. ASSUME NEW d \in On(Backlog')
        PROVE  reply'[d] = "pending" /\ call'[d] \in {"awaiting", "gone"}
    <3>1. CASE d = c
      BY <1>1, <1>2, <2>1, <3>1
    <3>2. CASE d # c
      BY <1>1, <1>2, <1>3, <1>7, <3>2 DEF WriteInv, BacklogUnanswered
    <3> QED BY <3>1, <3>2
  <2> QED BY <2>2 DEF BacklogUnanswered
<1>14. RepliesTrue'
  BY <1>1, <1>2, <1>3, <1>4 DEF WriteInv, RepliesTrue, Wrote
<1>15. AnswersMatch'
  BY <1>1, <1>2 DEF WriteInv, AnswersMatch
<1>16. RefusedIsNeverSent'
  BY <1>2, <1>3 DEF WriteInv, RefusedIsNeverSent, Refusals
<1>17. AwaitedIsThere'
  BY <1>1, <1>2, <1>3, <1>4 DEF WriteInv, AwaitedIsThere
<1> QED BY <1>9, <1>10, <1>11, <1>12, <1>13, <1>14, <1>15, <1>16, <1>17 DEF WriteInv

(* No step of a call through the gate breaks the write path. *)
LEMMA GateWrites ==
  ASSUME TypeOK, WriteInv, GateNext, UNCHANGED actorVars
  PROVE  WriteInv'
<1>1. PICK c \in Calls : \/ BadCommand(c) \/ Busy(c) \/ Admit(c)
                         \/ CallStep(c) \/ Cancel(c)
  BY DEF GateNext
<1>2. CASE BadCommand(c)
  BY <1>2, TurnedAwayWrites DEF BadCommand
<1>3. CASE Busy(c)
  BY <1>3, TurnedAwayWrites DEF Busy
<1>4. CASE Admit(c)
  BY <1>4, AdmitWrites
<1>5. CASE Send(c)
  BY <1>5, SendWrites
<1>6. CASE ReplyOk(c)
  <2>1. /\ call[c] = "awaiting" /\ reply[c] = "ok"
        /\ UNCHANGED <<lock, tickets, ticket, reply, writeQ, dropped>>
        /\ call \in [Calls -> CallState]
    BY <1>6 DEF ReplyOk, channelVars, TypeOK, GateTypes
  <2>2. \A d \in Calls : call'[d] = IF d = c THEN "listening" ELSE call[d]
    BY <1>6, <2>1 DEF ReplyOk
  <2>3. Line' = Line /\ Backlog' = Backlog /\ UNCHANGED <<txLog, phase>>
    BY <2>1, GateKeepsLine
  <2>4. \A d \in On(Backlog) : d \in Calls /\ d # c
    BY <2>1, LineTyped, OnIndex, ElementOfSeq DEF WriteInv, BacklogUnanswered
  <2> HIDE DEF Line, Backlog
  <2>5. On(Line)' = On(Line) /\ On(Backlog)' = On(Backlog)
    BY <2>3 DEF On
  <2>6. GateExclusive'
    BY <2>1, <2>2 DEF WriteInv, GateExclusive, InFlight
  <2>7. (TicketsIssued /\ FifoOnce /\ GatedIsNewest)'
    BY <2>1, <2>2, <2>3 DEF WriteInv, TicketsIssued, FifoOnce, GatedIsNewest
  <2>8. BacklogUnanswered'
    BY <2>1, <2>2, <2>4, <2>5 DEF WriteInv, BacklogUnanswered
  <2>9. RepliesTrue'
    BY <2>1, <2>2, <2>3, <2>5 DEF WriteInv, RepliesTrue, Wrote
  <2>10. AnswersMatch' /\ RefusedIsNeverSent'
    BY <2>1, <2>2, <2>5 DEF WriteInv, AnswersMatch, RefusedIsNeverSent, Refusals
  <2>11. AwaitedIsThere'
    BY <2>1, <2>2, <2>3, <2>5 DEF WriteInv, AwaitedIsThere
  <2> QED BY <2>6, <2>7, <2>8, <2>9, <2>10, <2>11 DEF WriteInv
<1>7. CASE DryRun(c) \/ NoHandle(c) \/ SendClosed(c)
  <2>1. call[c] = "gated" /\ UNCHANGED <<writeQ, reply>>
        /\ \E how \in {"dryRun", "noHandle", "closed"} : End(c, how)
    BY <1>7 DEF DryRun, NoHandle, SendClosed
  <2>2. c \notin On(Line) /\ c \notin On(Backlog)
    BY <2>1, NotInLine
  <2> QED BY <2>1, <2>2, EndWrites DEF InFlight, Refusals
<1>8. CASE ReplyError(c)
  <2>1. call[c] = "awaiting" /\ UNCHANGED <<writeQ, reply>>
        /\ \/ reply[c] = "err" /\ End(c, "ioError")
           \/ reply[c] = "dropped" /\ End(c, "dropped")
    BY <1>8 DEF ReplyError
  <2>2. c \notin On(Backlog)
    BY <2>1 DEF WriteInv, BacklogUnanswered
  <2>3. reply[c] = "dropped" => c \notin On(Line)
    BY DEF WriteInv, RepliesTrue
  <2>4. CASE reply[c] = "err" /\ End(c, "ioError")
    BY <2>1, <2>2, <2>4, EndWrites DEF InFlight, Refusals
  <2>5. CASE reply[c] = "dropped" /\ End(c, "dropped")
    BY <2>1, <2>2, <2>3, <2>5, EndWrites DEF InFlight, Refusals
  <2> QED BY <2>1, <2>4, <2>5
<1>9. CASE WindowEnds(c)
  <2>1. call[c] = "listening" /\ End(c, "sent") /\ UNCHANGED <<writeQ, reply>>
    BY <1>9 DEF WindowEnds
  <2>2. c \notin On(Backlog) /\ reply[c] = "ok"
    BY <2>1 DEF WriteInv, BacklogUnanswered, AnswersMatch
  <2> QED BY <2>1, <2>2, EndWrites DEF InFlight, Refusals
<1>10. CASE Cancel(c)
  BY <1>10, EndWrites DEF Cancel, Refusals
<1> QED BY <1>1, <1>2, <1>3, <1>4, <1>5, <1>6, <1>7, <1>8, <1>9, <1>10 DEF CallStep

(* The Actor's steps that touch a request. *)

(* No request is in line twice. *)
LEMMA Apart ==
  ASSUME TypeOK, FifoOnce, NEW s \in Seq(Calls), NEW t \in Seq(Calls),
         Line = s \o t, NEW x \in On(s)
  PROVE  x \notin On(t)
<1> HIDE DEF Line
<1> SUFFICES ASSUME x \in On(t) PROVE FALSE
  OBVIOUS
<1>1. PICK i \in 1..Len(s) : s[i] = x
  BY OnIndex
<1>2. PICK j \in 1..Len(t) : t[j] = x
  BY OnIndex
<1>3. /\ Len(s) \in Nat /\ Len(t) \in Nat
      /\ Len(s \o t) = Len(s) + Len(t)
      /\ \A k \in 1..(Len(s) + Len(t)) :
           (s \o t)[k] = IF k <= Len(s) THEN s[k] ELSE t[k - Len(s)]
  BY ConcatProperties, LenProperties
<1>4. Line[i] = x /\ Line[Len(s) + j] = x
  BY <1>1, <1>2, <1>3
<1>5. i \in 1..Len(Line) /\ Len(s) + j \in 1..Len(Line) /\ i < Len(s) + j
  BY <1>1, <1>2, <1>3
<1>6. ticket[x] < ticket[x]
  BY <1>4, <1>5 DEF FifoOnce
<1>7. x \in Calls
  BY <1>1, ElementOfSeq
<1> QED BY <1>6, <1>7 DEF TypeOK, GateTypes

(* The Actor takes a request: its place in line and its owner stay the same. *)
LEMMA TakeWrites ==
  ASSUME TypeOK, WriteInv, NEW next, TakeRequest(next), phase # "writing",
         UNCHANGED gateVars
  PROVE  WriteInv'
<1>1. /\ writeQ # <<>> /\ current' = Head(writeQ) /\ writeQ' = Tail(writeQ)
      /\ phase' = "writing" /\ UNCHANGED <<txLog, reply>>
  BY DEF TakeRequest, Goto
<1>2. Line' = Line /\ Backlog' = Backlog
  BY <1>1, LineTake
<1> HIDE DEF Line, Backlog
<1> QED BY <1>1, <1>2, SameLine

(* A write has been made: the reply says what the log says. *)
LEMMA WriteDoneWrites ==
  ASSUME TypeOK, WriteInv, WriteDone, UNCHANGED gateVars
  PROVE  WriteInv'
<1>1. PICK ok \in BOOLEAN :
        /\ txLog' = Append(txLog, [call |-> current, ok |-> ok])
        /\ reply' = [reply EXCEPT ![current] = IF ok THEN "ok" ELSE "err"]
  BY DEF WriteDone
<1>2. /\ phase = "writing" /\ phase' \in {"head", "drain"}
      /\ UNCHANGED <<writeQ, dropped, lock, call, tickets, ticket>>
      /\ reply \in [Calls -> Replies]
      /\ txLog \in Seq([call : Calls, ok : BOOLEAN])
  BY DEF WriteDone, Goto, gateVars, TypeOK, ActorTypes, ChannelTypes
<1>3. /\ Line' = Line /\ Backlog' = writeQ
      /\ Backlog = <<current>> \o writeQ /\ current \in Calls
  BY <1>1, <1>2, LineWrite
<1>4. \A d \in Calls : reply'[d] = IF d = current
                                    THEN IF ok THEN "ok" ELSE "err"
                                    ELSE reply[d]
  BY <1>1, <1>2, <1>3
<1>5. /\ \A d \in Calls, b \in BOOLEAN : Wrote(d, b) => Wrote(d, b)'
      /\ \A d \in Calls : d = current => Wrote(d, ok)'
  <2> DEFINE r == [call |-> current, ok |-> ok]
  <2>1. r \in [call : Calls, ok : BOOLEAN]
    BY <1>3
  <2> HIDE DEF r
  <2>2. /\ txLog' \in Seq([call : Calls, ok : BOOLEAN])
        /\ Len(txLog') = Len(txLog) + 1 /\ Len(txLog) \in Nat
        /\ \A i \in 1..Len(txLog) : txLog'[i] = txLog[i]
        /\ txLog'[Len(txLog) + 1] = r
    BY <1>1, <1>2, <2>1, AppendProperties, LenProperties DEF r
  <2>3. DOMAIN txLog = 1..Len(txLog) /\ DOMAIN txLog' = 1..(Len(txLog) + 1)
    BY <1>2, <2>2, LenProperties
  <2>4. ASSUME NEW d \in Calls, NEW b \in BOOLEAN, Wrote(d, b) PROVE Wrote(d, b)'
    <3>1. PICK i \in 1..Len(txLog) : txLog[i] = [call |-> d, ok |-> b]
      BY <2>3, <2>4 DEF Wrote
    <3>2. i \in DOMAIN txLog' /\ txLog'[i] = [call |-> d, ok |-> b]
      BY <2>2, <2>3, <3>1
    <3> QED BY <3>2 DEF Wrote
  <2>5. ASSUME NEW d \in Calls, d = current PROVE Wrote(d, ok)'
    <3>1. Len(txLog) + 1 \in DOMAIN txLog' /\ txLog'[Len(txLog) + 1] = r
      BY <2>2, <2>3
    <3> QED BY <2>5, <3>1 DEF Wrote, r
  <2> QED BY <2>4, <2>5
<1>6. current \in On(Backlog) /\ On(Backlog) = {current} \cup On(writeQ)
  <2>1. <<current>> \in Seq(Calls) /\ writeQ \in Seq(Calls)
    BY <1>3, SingletonSeq DEF TypeOK, ChannelTypes
  <2>2. On(<<current>>) = {current}
    BY OnSingle
  <2>3. On(<<current>> \o writeQ) = On(<<current>>) \cup On(writeQ)
    BY <2>1, OnConcat
  <2> HIDE DEF Backlog
  <2> QED BY <1>3, <2>2, <2>3
<1>7. current \notin On(writeQ)
  <2>1. /\ <<current>> \in Seq(Calls) /\ writeQ \in Seq(Calls)
        /\ Transmitted \in Seq(Calls)
    BY <1>3, LineTyped, SingletonSeq DEF TypeOK, ChannelTypes
  <2>2. Line = (Transmitted \o <<current>>) \o writeQ
    BY <1>3, <2>1, ConcatAssociative DEF Line
  <2>3. current \in On(Transmitted \o <<current>>)
    <3> HIDE DEF Transmitted
    <3>1. On(<<current>>) = {current}
      BY OnSingle
    <3>2. On(Transmitted \o <<current>>) = On(Transmitted) \cup On(<<current>>)
      BY <2>1, OnConcat
    <3> QED BY <3>1, <3>2
  <2>4. Transmitted \o <<current>> \in Seq(Calls)
    BY <2>1, ConcatProperties
  <2> QED BY <2>1, <2>2, <2>3, <2>4, Apart DEF WriteInv
<1>8. \A d \in On(writeQ) : d \in Calls
  BY OnIndex, ElementOfSeq DEF TypeOK, ChannelTypes
<1> HIDE DEF Line, Backlog
<1>9. (GateExclusive /\ TicketsIssued /\ FifoOnce /\ GatedIsNewest)'
  BY <1>2, <1>3 DEF WriteInv, GateExclusive, TicketsIssued, FifoOnce, GatedIsNewest
<1>10. On(Line)' = On(Line) /\ On(Backlog)' = On(writeQ)
  BY <1>3 DEF On
<1>11. BacklogUnanswered'
  BY <1>2, <1>4, <1>6, <1>7, <1>8, <1>10 DEF WriteInv, BacklogUnanswered
<1>12. call[current] \in {"awaiting", "gone"}
  BY <1>6 DEF WriteInv, BacklogUnanswered
<1>13. RepliesTrue'
  <2>1. ASSUME NEW d \in Calls
        PROVE  /\ call'[d] \in {"new", "gated"} => reply'[d] = "pending"
               /\ reply'[d] = "ok" => Wrote(d, TRUE)'
               /\ reply'[d] = "err" => Wrote(d, FALSE)'
               /\ reply'[d] = "dropped" => d \notin On(Line)
    <3>1. CASE d = current
      <4>1. ok \in {TRUE, FALSE}
        OBVIOUS
      <4> QED BY <1>2, <1>4, <1>5, <1>12, <3>1, <4>1
    <3>2. CASE d # current
      BY <1>2, <1>4, <1>5, <3>2 DEF WriteInv, RepliesTrue
    <3> QED BY <3>1, <3>2
  <2> QED BY <1>10, <2>1 DEF RepliesTrue
<1>14. AnswersMatch' /\ RefusedIsNeverSent'
  BY <1>2, <1>4, <1>10, <1>12 DEF WriteInv, AnswersMatch, RefusedIsNeverSent
<1>15. AwaitedIsThere'
  BY <1>2, <1>4, <1>6, <1>10 DEF WriteInv, AwaitedIsThere
<1> QED BY <1>9, <1>11, <1>13, <1>14, <1>15 DEF WriteInv

(* The Actor stops: what it had not taken is answered with "dropped". *)
LEMMA StopWrites ==
  ASSUME TypeOK, WriteInv, Stop, UNCHANGED gateVars
  PROVE  WriteInv'
<1>1. /\ phase = "final" /\ phase' = "stopped" /\ writeQ' = <<>>
      /\ "writeRx" \in dropped' /\ UNCHANGED <<txLog, lock, call, tickets, ticket>>
      /\ \A d \in Calls : reply'[d] = IF d \in On(writeQ) THEN "dropped" ELSE reply[d]
  BY DEF Stop, Goto, writeVars, gateVars, On
<1>2. /\ Backlog = writeQ /\ Backlog' = <<>>
      /\ Line = Transmitted \o writeQ /\ Line' = Transmitted
      /\ Transmitted \in Seq(Calls) /\ writeQ \in Seq(Calls)
  BY <1>1, LineStop, LineTyped DEF TypeOK, ChannelTypes
<1>3. On(Line) = On(Transmitted) \cup On(writeQ)
  <2> HIDE DEF Transmitted
  <2> QED BY <1>2, OnConcat
<1>4. \A d \in On(writeQ) : d \notin On(Transmitted)
  BY <1>2, Apart DEF WriteInv
<1>5. /\ Len(Transmitted) \in Nat /\ Len(Line) \in Nat /\ Len(Transmitted) <= Len(Line)
      /\ \A i \in 1..Len(Transmitted) : Transmitted[i] = Line[i]
  <2> HIDE DEF Transmitted, Line
  <2> QED BY <1>2, ConcatProperties, LenProperties
<1> HIDE DEF Line, Backlog, Transmitted
<1>6. On(Backlog') = {} /\ On(Line') = On(Transmitted)
  BY <1>2, OnEmpty
<1>7. GateExclusive'
  BY <1>1 DEF WriteInv, GateExclusive
<1>8. (TicketsIssued /\ FifoOnce /\ GatedIsNewest)'
  <2>1. \A i \in 1..Len(Line') : i \in 1..Len(Line) /\ Line'[i] = Line[i]
    BY <1>2, <1>5
  <2>2. TicketsIssued'
    BY <1>1, <2>1 DEF WriteInv, TicketsIssued
  <2>3. FifoOnce'
    BY <1>1, <2>1 DEF WriteInv, FifoOnce
  <2>4. GatedIsNewest'
    BY <1>1, <2>1 DEF WriteInv, GatedIsNewest
  <2> QED BY <2>2, <2>3, <2>4
<1>9. \A d \in On(writeQ) : call[d] \in {"awaiting", "gone"}
  BY <1>2 DEF WriteInv, BacklogUnanswered
<1>10. BacklogUnanswered'
  BY <1>6 DEF BacklogUnanswered
<1>11. RepliesTrue'
  BY <1>1, <1>3, <1>4, <1>6, <1>9 DEF WriteInv, RepliesTrue, Wrote
<1>12. AnswersMatch'
  BY <1>1, <1>9 DEF WriteInv, AnswersMatch
<1>13. RefusedIsNeverSent'
  BY <1>1, <1>3, <1>6 DEF WriteInv, RefusedIsNeverSent
<1>14. AwaitedIsThere'
  <2>1. \A d \in Calls : ~(call[d] = "awaiting" /\ reply'[d] = "pending")
    BY <1>1, <1>2 DEF WriteInv, AwaitedIsThere
  <2> QED BY <1>1, <2>1 DEF AwaitedIsThere
<1> QED BY <1>7, <1>8, <1>10, <1>11, <1>12, <1>13, <1>14 DEF WriteInv

(* Every other step of the Actor moves between phases in which it has no     *)
(* request in hand, and does not stop.                                       *)
LEMMA ActorWrites ==
  ASSUME TypeOK, WriteInv, ActorNext, UNCHANGED gateVars
  PROVE  WriteInv'
<1>1. CASE DrainRequest
  BY <1>1, TakeWrites DEF DrainRequest
<1>2. CASE SelectRequest
  BY <1>2, TakeWrites DEF SelectRequest
<1>3. CASE WriteDone
  BY <1>3, WriteDoneWrites
<1>4. CASE Stop
  BY <1>4, StopWrites
<1>5. ASSUME phase # "writing", phase' # "writing", phase' # "stopped",
             UNCHANGED <<txLog, current, writeQ, reply>>
      PROVE  WriteInv'
  <2>1. Line' = Line /\ Backlog' = Backlog
    BY <1>5, LineKept DEF InHand
  <2> HIDE DEF Line, Backlog
  <2> QED BY <1>5, <2>1, SameLine
<1>6. CASE LoopHead \/ OpenOk
  BY <1>5, <1>6 DEF LoopHead, OpenOk, Goto, writeVars, channelVars
<1>7. CASE OpenErr \/ SessionOver
  BY <1>5, <1>7 DEF OpenErr, SessionOver, GiveUp, Retry, Goto, writeVars, channelVars
<1>8. CASE BackoffStart \/ TimerFires \/ BackoffWakes
  BY <1>5, <1>8 DEF BackoffStart, TimerFires, BackoffWakes, Goto, writeVars, channelVars
<1>9. CASE SessionHead \/ DrainEmpty \/ SelectShutdown
  BY <1>5, <1>9 DEF SessionHead, DrainEmpty, SelectShutdown, EndSession, Goto,
     writeVars, channelVars
<1>10. CASE ReadData
  <2>1. phase = "select" /\ phase' \in {"head", "sending"}
        /\ UNCHANGED <<txLog, current, writeQ, reply>>
    BY <1>10 DEF ReadData, SelectsRead, Goto, writeVars, channelVars
  <2> QED BY <1>5, <2>1
<1>11. CASE ReadEnds
  BY <1>5, <1>11 DEF ReadEnds, SelectsRead, EndSession, Goto, writeVars, channelVars
<1>12. CASE SendFrame \/ SendFrameClosed
  BY <1>5, <1>12 DEF SendFrame, SendFrameClosed, EndSession, Goto, writeVars, channelVars
<1> QED BY <1>1, <1>2, <1>3, <1>4, <1>6, <1>7, <1>8, <1>9, <1>10, <1>11, <1>12
        DEF ActorNext, ActorStep

(* Steps of the drain and of run() see neither gate nor line. *)
LEMMA OtherWrites ==
  ASSUME TypeOK, WriteInv, DrainNext \/ RunNext, UNCHANGED <<gateVars, actorVars>>
  PROVE  WriteInv'
<1>1. /\ UNCHANGED <<writeQ, reply>> /\ dropped \subseteq dropped'
      /\ UNCHANGED <<txLog, phase, current>>
  BY DEF DrainNext, DrainStep, Receive, Apply, DrainEnds, ReceiverDies, RunNext,
     SignalShutdown, DropSender, channelVars, actorVars
<1>2. Line' = Line /\ Backlog' = Backlog
  BY <1>1, LineKept DEF InHand
<1>3. phase' = "stopped" => writeQ' = <<>> /\ "writeRx" \in dropped'
  BY <1>1 DEF WriteInv, AwaitedIsThere
<1> HIDE DEF Line, Backlog
<1> QED BY <1>1, <1>2, <1>3, SameLine

(* WriteInv is inductive, given the types. *)
LEMMA NextWrites == TypeOK /\ WriteInv /\ [Next]_vars => WriteInv'
<1> SUFFICES ASSUME TypeOK, WriteInv, [Next]_vars PROVE WriteInv'
  OBVIOUS
<1>1. CASE RunNext /\ UNCHANGED <<gateVars, actorVars, drainVars>>
  BY <1>1, OtherWrites
<1>2. CASE GateNext /\ UNCHANGED <<actorVars, drainVars>>
  BY <1>2, GateWrites
<1>3. CASE ActorNext /\ UNCHANGED <<gateVars, drainVars>>
  BY <1>3, ActorWrites
<1>4. CASE DrainNext /\ UNCHANGED <<gateVars, actorVars>>
  BY <1>4, OtherWrites
<1>5. CASE UNCHANGED vars
  <2>1. UNCHANGED <<gateVars, actorVars, writeQ, reply, dropped>>
    BY <1>5 DEF vars, channelVars
  <2>2. UNCHANGED <<txLog, phase, current>>
    BY <2>1 DEF actorVars
  <2>3. Line' = Line /\ Backlog' = Backlog
    BY <2>1, <2>2, LineKept DEF InHand
  <2>4. phase' = "stopped" => writeQ' = <<>> /\ "writeRx" \in dropped'
    BY <2>1, <2>2 DEF WriteInv, AwaitedIsThere
  <2> HIDE DEF Line, Backlog
  <2> QED BY <2>1, <2>2, <2>3, <2>4, SameLine
<1> QED BY <1>1, <1>2, <1>3, <1>4, <1>5 DEF Next

(* In every reachable state the write invariant holds, whatever the number   *)
(* of calls, the capacity of the channel and the length of the run.          *)
THEOREM WritesCorrect == Spec => []WriteInv
<1>1. Spec => []TypeOK
  BY TypeCorrect
<1> QED BY <1>1, InitWrites, NextWrites, PTL DEF Spec
-----------------------------------------------------------------------------
(* The properties. *)

(* Requests are written in the order in which their calls took the mutex of  *)
(* write.rs, each at most once.                                              *)
THEOREM WrittenInOrderOnce == Spec => []FifoOnce
<1>1. WriteInv => FifoOnce
  BY DEF WriteInv
<1> QED BY <1>1, WritesCorrect, PTL

(* A refused or failed call (every WriteGateError but an I/O error of the    *)
(* write itself) has not been and will not be written.                       *)
THEOREM RefusalIsFinal == Spec => []RefusedIsNeverSent
<1>1. WriteInv => RefusedIsNeverSent
  BY DEF WriteInv
<1> QED BY <1>1, WritesCorrect, PTL

(* execute returns Ok only for a call whose own bytes were written.          *)
THEOREM SuccessIsTrue == Spec => []SuccessIsOnTheWire
<1>1. WriteInv => SuccessIsOnTheWire
  BY DEF WriteInv, AnswersMatch, RepliesTrue, Wrote, SuccessIsOnTheWire
<1> QED BY <1>1, WritesCorrect, PTL

(* One request of the backlog at most has a caller that still waits for it.  *)
THEOREM OneOwner == Spec => []OneOwnedRequest
<1>1. TypeOK /\ WriteInv => OneOwnedRequest
  <2> SUFFICES ASSUME TypeOK, WriteInv, NEW c \in On(Backlog)
               PROVE  call[c] = "gone" \/ (lock = c /\ call[c] = "awaiting")
    BY DEF OneOwnedRequest
  <2>1. c \in Calls
    BY LineTyped, OnIndex, ElementOfSeq
  <2>2. call[c] \in {"awaiting", "gone"}
    BY DEF WriteInv, BacklogUnanswered
  <2> QED BY <2>1, <2>2 DEF WriteInv, GateExclusive, InFlight
<1> QED BY <1>1, TypeCorrect, WritesCorrect, PTL

(* No call waits for ever on an Actor that has stopped (actor.rs run, its    *)
(* end): its request is gone and it has been told.                           *)
THEOREM StopOrphansNobody == Spec => []NoOrphanedWait
<1>1. TypeOK /\ WriteInv => NoOrphanedWait
  <2> SUFFICES ASSUME TypeOK, WriteInv, phase = "stopped"
               PROVE  /\ Backlog = <<>>
                      /\ \A c \in Calls : call[c] = "awaiting" => reply[c] # "pending"
    BY DEF NoOrphanedWait
  <2>1. writeQ = <<>> /\ InHand = <<>>
    BY DEF WriteInv, AwaitedIsThere, InHand
  <2>2. Backlog = <<>>
    BY <2>1, EmptySeq, ConcatEmptySeq DEF Backlog
  <2>3. On(Backlog) = {}
    BY <2>2, OnEmpty
  <2> QED BY <2>2, <2>3 DEF WriteInv, AwaitedIsThere
<1> QED BY <1>1, TypeCorrect, WritesCorrect, PTL
-----------------------------------------------------------------------------
(* The service implements CommandBus, proved with the write invariant: each  *)
(* step of gate, channel, Actor, drain and run() is a step of CommandBus or   *)
(* leaves the bus and the answers alone.                                     *)
Answers == [c \in Calls |-> ClientAnswer(call[c])]

(* Before the first call nothing is on the bus and nobody is answered. *)
LEMMA InitCommands == Init => Commands!Init
<1> SUFFICES ASSUME Init PROVE Commands!Init
  OBVIOUS
<1>1. txLog = <<>> /\ call = [c \in Calls |-> "new"]
  BY DEF Init, GateInit, ActorInit
<1>2. ClientAnswer("new") = "none"
  BY DEF ClientAnswer, Refusals
<1> QED BY <1>1, <1>2 DEF Commands!Init

(* What is on the bus is in line. *)
LEMMA OnBusInLine ==
  ASSUME TypeOK, NEW c \in Calls, c \notin On(Line)
  PROVE  ~Commands!OnBus(c)
<1>1. Transmitted \in Seq(Calls) /\ Backlog \in Seq(Calls)
  BY LineTyped
<1>2. On(Line) = On(Transmitted) \cup On(Backlog)
  <2> HIDE DEF Transmitted, Backlog
  <2> QED BY <1>1, OnConcat DEF Line
<1> QED BY <1>2 DEF Commands!OnBus, On, Transmitted

(* A call changes how it stands: the client is told, or nothing. *)
LEMMA CallMoves ==
  ASSUME TypeOK, NEW c \in Calls, NEW how \in CallState,
         call' = [call EXCEPT ![c] = how]
  PROVE  Answers' = [Answers EXCEPT ![c] = ClientAnswer(how)]
<1>1. call \in [Calls -> CallState]
  BY DEF TypeOK, GateTypes
<1> QED BY <1>1 DEF Answers

(* A step of the gate is an answer that CommandBus allows, or a stutter. *)
LEMMA GateCommands ==
  ASSUME TypeOK, WriteInv, GateNext, UNCHANGED actorVars
  PROVE  [Commands!Next]_<<txLog, Answers>>
<1>1. PICK c \in Calls : \/ BadCommand(c) \/ Busy(c) \/ Admit(c)
                         \/ CallStep(c) \/ Cancel(c)
  BY DEF GateNext
<1>2. UNCHANGED txLog
  BY DEF actorVars
<1>3. ASSUME NEW how \in CallState, call' = [call EXCEPT ![c] = how],
             ClientAnswer(call[c]) = "none"
      PROVE  /\ ClientAnswer(how) = "none" => UNCHANGED Answers
             /\ Commands!AnswerWith(c, ClientAnswer(how))
  <2>1. Answers' = [Answers EXCEPT ![c] = ClientAnswer(how)]
    BY <1>3, CallMoves
  <2>2. Answers[c] = "none"
    BY <1>3 DEF Answers
  <2>3. ClientAnswer(how) = "none" => Answers' = Answers
    BY <2>1, <2>2 DEF Answers
  <2> QED BY <1>2, <2>1, <2>2, <2>3 DEF Commands!AnswerWith, Answers
<1>4. \A s \in {"new", "gated", "awaiting", "listening"} : ClientAnswer(s) = "none"
  BY DEF ClientAnswer, Refusals
<1>5. /\ \A s \in Refusals : ClientAnswer(s) = "refused"
      /\ ClientAnswer("ioError") = "ioError" /\ ClientAnswer("sent") = "success"
      /\ ClientAnswer("gone") = "abandoned"
  BY DEF ClientAnswer, Refusals
<1>6. CASE Admit(c) \/ Send(c) \/ ReplyOk(c)
  <2>1. \E how \in {"gated", "awaiting", "listening"} :
          /\ call[c] \in {"new", "gated", "awaiting"}
          /\ call' = [call EXCEPT ![c] = how]
    BY <1>6 DEF Admit, Send, ReplyOk
  <2>2. UNCHANGED Answers
    BY <1>3, <1>4, <2>1 DEF CallState, InFlight
  <2> QED BY <1>2, <2>2
<1>7. CASE BadCommand(c) \/ Busy(c) \/ DryRun(c) \/ NoHandle(c) \/ SendClosed(c)
  <2>1. \E how \in Refusals : /\ call[c] \in {"new", "gated"}
                              /\ call' = [call EXCEPT ![c] = how]
    BY <1>7 DEF BadCommand, Busy, DryRun, NoHandle, SendClosed, End, Refusals
  <2>2. ~Commands!OnBus(c)
    BY <2>1, NotInLine, OnBusInLine
  <2>3. Commands!AnswerWith(c, "refused")
    BY <1>3, <1>4, <1>5, <2>1 DEF CallState
  <2> QED BY <2>2, <2>3 DEF Commands!Next, Commands!Refuse
<1>8. CASE ReplyError(c)
  <2>1. call[c] = "awaiting" /\ ClientAnswer(call[c]) = "none"
    BY <1>4, <1>8 DEF ReplyError
  <2>2. CASE reply[c] = "err" /\ End(c, "ioError")
    <3>1. Commands!AnswerWith(c, "ioError")
      BY <1>3, <1>5, <2>1, <2>2 DEF CallState, End
    <3>2. \E i \in DOMAIN txLog : txLog[i] = [call |-> c, ok |-> FALSE]
      BY <2>2 DEF WriteInv, RepliesTrue, Wrote
    <3> QED BY <3>1, <3>2 DEF Commands!Next, Commands!Fail
  <2>3. CASE reply[c] = "dropped" /\ End(c, "dropped")
    <3>1. Commands!AnswerWith(c, "refused")
      BY <1>3, <1>5, <2>1, <2>3 DEF CallState, Refusals, End
    <3>2. ~Commands!OnBus(c)
      BY <2>3, OnBusInLine DEF WriteInv, RepliesTrue
    <3> QED BY <3>1, <3>2 DEF Commands!Next, Commands!Refuse
  <2> QED BY <1>8, <2>2, <2>3 DEF ReplyError
<1>9. CASE WindowEnds(c)
  <2>1. /\ call[c] = "listening" /\ call' = [call EXCEPT ![c] = "sent"]
        /\ reply[c] = "ok"
    BY <1>9 DEF WindowEnds, End, WriteInv, AnswersMatch
  <2>2. Commands!AnswerWith(c, "success")
    BY <1>3, <1>4, <1>5, <2>1 DEF CallState
  <2>3. \E i \in DOMAIN txLog : txLog[i] = [call |-> c, ok |-> TRUE]
    BY <2>1 DEF WriteInv, RepliesTrue, Wrote
  <2> QED BY <2>2, <2>3 DEF Commands!Next, Commands!Succeed
<1>10. CASE Cancel(c)
  <2>1. call[c] \in InFlight /\ call' = [call EXCEPT ![c] = "gone"]
    BY <1>10 DEF Cancel, End
  <2>2. Commands!AnswerWith(c, "abandoned")
    BY <1>3, <1>4, <1>5, <2>1 DEF CallState, InFlight
  <2> QED BY <2>2 DEF Commands!Next, Commands!Leave
<1> QED BY <1>1, <1>6, <1>7, <1>8, <1>9, <1>10 DEF CallStep

(* A finished write is a write that CommandBus allows: the first for its command. *)
LEMMA WriteDoneCommands ==
  ASSUME TypeOK, WriteInv, WriteDone, UNCHANGED gateVars
  PROVE  Commands!Next
<1>1. PICK ok \in BOOLEAN : txLog' = Append(txLog, [call |-> current, ok |-> ok])
  BY DEF WriteDone
<1>2. /\ phase = "writing" /\ UNCHANGED call /\ current \in Calls
      /\ Transmitted \in Seq(Calls) /\ Backlog \in Seq(Calls)
      /\ writeQ \in Seq(Calls) /\ <<current>> \in Seq(Calls)
  BY LineTyped, SingletonSeq DEF WriteDone, gateVars, TypeOK, ActorTypes, ChannelTypes
<1>3. current \in On(Backlog)
  <2>1. Backlog = <<current>> \o writeQ
    BY <1>2 DEF Backlog, InHand
  <2>2. On(<<current>>) = {current}
    BY OnSingle
  <2>3. On(<<current>> \o writeQ) = On(<<current>>) \cup On(writeQ)
    BY <1>2, OnConcat
  <2> HIDE DEF Backlog
  <2> QED BY <2>1, <2>2, <2>3
<1>4. ~Commands!OnBus(current)
  <2>1. current \notin On(Transmitted)
    <3> HIDE DEF Transmitted, Backlog
    <3> QED BY <1>2, <1>3, Apart DEF WriteInv, Line
  <2> QED BY <2>1 DEF Commands!OnBus, On, Transmitted
<1>5. ClientAnswer(call[current]) \in {"none", "abandoned"}
  BY <1>3 DEF WriteInv, BacklogUnanswered, ClientAnswer, Refusals
<1>6. Commands!Transmit(current, ok)
  BY <1>1, <1>2, <1>4, <1>5 DEF Commands!Transmit
<1> QED BY <1>2, <1>6 DEF Commands!Next

(* Every step of the service is a step of CommandBus or a stutter. *)
LEMMA NextCommands ==
  TypeOK /\ WriteInv /\ [Next]_vars => [Commands!Next]_<<txLog, Answers>>
<1> SUFFICES ASSUME TypeOK, WriteInv, [Next]_vars
             PROVE  [Commands!Next]_<<txLog, Answers>>
  OBVIOUS
<1>1. CASE GateNext /\ UNCHANGED <<actorVars, drainVars>>
  BY <1>1, GateCommands
<1>2. CASE WriteDone /\ UNCHANGED <<gateVars, drainVars>>
  BY <1>2, WriteDoneCommands
<1>3. ASSUME UNCHANGED <<txLog, gateVars>>
      PROVE  [Commands!Next]_<<txLog, Answers>>
  BY <1>3 DEF gateVars, Answers
<1>4. CASE ActorNext /\ UNCHANGED <<gateVars, drainVars>> /\ ~WriteDone
  <2>1. UNCHANGED txLog
    BY <1>4 DEF ActorNext, ActorStep, LoopHead, OpenOk, OpenErr, SessionOver, BackoffStart,
       TimerFires, BackoffWakes, Stop, SessionHead, DrainRequest, DrainEmpty, TakeRequest,
       SelectShutdown, SelectRequest, SendFrame, SendFrameClosed, ReadData, ReadEnds,
       writeVars
  <2> QED BY <1>3, <1>4, <2>1
<1>5. CASE \/ RunNext /\ UNCHANGED <<gateVars, actorVars, drainVars>>
           \/ DrainNext /\ UNCHANGED <<gateVars, actorVars>>
           \/ UNCHANGED vars
  BY <1>3, <1>5 DEF vars, actorVars
<1> QED BY <1>1, <1>2, <1>4, <1>5 DEF Next

(* The service of lib.rs implements CommandBus, for any number of clients:   *)
(* whatever is cancelled, reconnected or shut down, a command reaches the bus *)
(* once at most, an answer tells what happened to it and a refusal is final.  *)
THEOREM ServiceImplementsCommandBus == Spec => ImplementsCommandBus
<1>1. Spec => [][Commands!Next]_<<txLog, Answers>>
  BY TypeCorrect, WritesCorrect, NextCommands, PTL DEF Spec
<1>2. Spec => Commands!Init
  BY InitCommands, PTL DEF Spec
<1> QED BY <1>1, <1>2, PTL DEF ImplementsCommandBus, Commands!Spec, Answers
=============================================================================
