----------------------------- MODULE CommandBus -----------------------------
(***************************************************************************)
(* What POST /command promises, without gate, channel, Actor or reconnect: *)
(* a command is put on the bus at most once; the answer is a statement     *)
(* about the bus; a refusal is final.                                      *)
(***************************************************************************)
EXTENDS Naturals, Sequences

CONSTANT Calls

VARIABLES
  bus,      \* the writes made, [call, ok]
  answer    \* answer[c]: "none" until the client is answered or has left

OnBus(c) == \E i \in DOMAIN bus : bus[i].call = c

Init == bus = <<>> /\ answer = [c \in Calls |-> "none"]

(* The bytes of c are written, successfully or not; the client of c may have *)
(* left, but it has not been told that c was refused.                        *)
Transmit(c, ok) ==
  /\ ~OnBus(c)
  /\ answer[c] \in {"none", "abandoned"}
  /\ bus' = Append(bus, [call |-> c, ok |-> ok])
  /\ UNCHANGED answer

AnswerWith(c, a) == /\ answer[c] = "none"
                    /\ answer' = [answer EXCEPT ![c] = a]
                    /\ UNCHANGED bus

Succeed(c) == AnswerWith(c, "success")
              /\ \E i \in DOMAIN bus : bus[i] = [call |-> c, ok |-> TRUE]
Fail(c)    == AnswerWith(c, "ioError")
              /\ \E i \in DOMAIN bus : bus[i] = [call |-> c, ok |-> FALSE]
Refuse(c)  == AnswerWith(c, "refused") /\ ~OnBus(c)
Leave(c)   == AnswerWith(c, "abandoned")

Next == \E c \in Calls : \/ \E ok \in BOOLEAN : Transmit(c, ok)
                         \/ Succeed(c) \/ Fail(c) \/ Refuse(c) \/ Leave(c)

Spec == Init /\ [][Next]_<<bus, answer>>
=============================================================================
