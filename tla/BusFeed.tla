------------------------------ MODULE BusFeed -------------------------------
(***************************************************************************)
(* What the frame path promises to those who read the journal or GET       *)
(* /status, without channel, framer, drain task or lock: the bus says      *)
(* frames one after another; each is put on record, or known to be         *)
(* missing, in that order and before it is shown; none is passed over.     *)
(***************************************************************************)
EXTENDS Naturals, Sequences

CONSTANT MayMiss   \* a frame may stay off the record (no journal, or it failed)

VARIABLES
  sent,     \* the frames of the bus
  log,      \* the record of them
  missed,   \* those that are not on record
  logged,   \* how many are on record or missed
  seen      \* how many the readers have been shown

feedVars == <<sent, log, missed, logged, seen>>

Init == sent = <<>> /\ log = <<>> /\ missed = {} /\ logged = 0 /\ seen = 0

Hear == /\ \E i \in DOMAIN sent' : sent' = Append(sent, sent'[i])
        /\ UNCHANGED <<log, missed, logged, seen>>

Record == /\ logged < Len(sent)
          /\ logged' = logged + 1
          /\ \/ log' = Append(log, sent[logged + 1]) /\ UNCHANGED missed
             \/ MayMiss /\ missed' = missed \cup {sent[logged + 1]} /\ UNCHANGED log
          /\ UNCHANGED <<sent, seen>>

Show == /\ seen < logged
        /\ seen' = seen + 1
        /\ UNCHANGED <<sent, log, missed, logged>>

Next == Hear \/ Record \/ Show

Spec == Init /\ [][Next]_feedVars
=============================================================================
