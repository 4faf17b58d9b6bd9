------------------------------ MODULE MCFramer ------------------------------
(* Framer on streams of up to four pieces, taken from the vectors of its     *)
(* tests and of the fixtures.                                                *)
EXTENDS Framer

PieceOf(kind, bytes, ok) == [kind |-> kind, bytes |-> bytes, ok |-> ok]

Ack      == <<FF, 0, FF, 165, 12, 32, 16, 1, 1, 136, 1, 107>>
ShortAck == SubSeq(Ack, 2, 12)
Chlor    == <<16, 2, 80, 0, 0, 98, 16, 3>>

A5Good  == PieceOf("A5", Ack, TRUE)
A5Short == PieceOf("A5", ShortAck, TRUE)
A5Bad   == PieceOf("A5", SubSeq(Ack, 1, 11) \o <<108>>, FALSE)
A5Stx   == PieceOf("A5", <<FF, 0, FF, 165, 1, 15, 2, 29, 2, 16, 2, 0, 232>>, TRUE)
IcGood  == PieceOf("IntelliChlor", Chlor, TRUE)
IcBad   == PieceOf("IntelliChlor", SubSeq(Chlor, 1, 5) \o <<97, 16, 3>>, FALSE)
Idle    == PieceOf("noise", <<FF, FF>>, FALSE)
Noise   == PieceOf("noise", <<1, 2, 3>>, FALSE)
CutA5   == PieceOf("cut", SubSeq(Ack, 1, 10), FALSE)
CutHead == PieceOf("cut", SubSeq(Ack, 1, 4), FALSE)
CutIc   == PieceOf("cut", SubSeq(Chlor, 1, 3), FALSE)

Cuts == {CutA5, CutHead, CutIc}

MCPlans ==
  {<<x, y>> : x \in {Noise, A5Bad, A5Stx, IcBad}, y \in {A5Good, IcGood}}
    \cup {<<x, y>> : x \in {A5Good, IcGood}, y \in {A5Good, A5Stx}}
    \cup {<<Noise, A5Short, IcGood>>, <<A5Short, Idle, A5Good>>}
    \cup {<<c, IcGood, A5Good>> : c \in Cuts} \cup {<<c, A5Good>> : c \in Cuts}
    \cup {<<CutIc, A5Good, A5Good, A5Good>>}

=============================================================================
