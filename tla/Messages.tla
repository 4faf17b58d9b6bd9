------------------------------ MODULE Messages ------------------------------
(***************************************************************************)
(* messages.rs and registry.rs: from the bytes on the bus to the message   *)
(* that state.rs applies.  A report of the pool controller goes through    *)
(* the framer and the registry to a parser, which reads each field at a    *)
(* fixed distance from the A5 byte.  DecodeDrain uses the outcome only.    *)
(***************************************************************************)
EXTENDS Integers, Sequences, SequencesExt

CONSTANT Reports   \* bound: what the panel sends, [idle, preamble, command, payload]

Byte == 0..255

VARIABLES
  report,    \* what the panel sends
  decoded    \* what the registry makes of each frame found, in order

messageVars == <<report, decoded>>

Bus == INSTANCE Framer WITH Plans <- {}, IcMax <- 64, MaxResets <- 0,
                            plan <- <<>>, pos <- 0, buf <- <<>>, out <- <<>>,
                            start <- <<0>>

Preambles == {<<0, 255>>, <<255, 0, 255>>}

(* The bytes of an idle line are no frame. *)
ASSUME ReportAssumption ==
  \A r \in Reports :
    /\ r.command \in Byte /\ r.payload \in Seq(Byte) /\ Len(r.payload) <= 255
    /\ r.preamble \in Preambles
    /\ r.idle \in Seq(Byte) /\ Bus!SyncsOf(r.idle) = {}

(* pentair_checksum: a u16. *)
Checksum(body) == Bus!SumOf(body) % 65536

(* build_a5_frame, which the panel's frames look like as well. *)
BuildA5(protocol, destination, source, command, payload, preamble) ==
  LET body == <<165, protocol, destination, source, command, Len(payload)>> \o payload
      cs   == Checksum(body)
  IN  preamble \o body \o <<cs \div 256, cs % 256>>

A5After(raw) == {i \in 3..Len(raw) : SubSeq(raw, i - 2, i) = <<0, 255, 165>>}

(* Mutant: the last A5 of the frame, which may be in its payload. *)
LastA5(raw) == IF A5After(raw) = {} THEN 0
               ELSE CHOOSE i \in A5After(raw) : \A k \in A5After(raw) : k <= i

(* find_a5_index: the first A5 behind 00 FF; 0 stands for MissingA5. *)
FindA5(raw) == IF A5After(raw) = {} THEN 0
               ELSE CHOOSE i \in A5After(raw) : \A k \in A5After(raw) : i <= k

(* Distances from the A5 byte. *)
A5Command    == 4
A5Length     == 5
SystemFields == [hours |-> 6, minutes |-> 7, circuits |-> 8,
                 water_temp |-> 20, heater_temp |-> 21, air_temp |-> 24]
TempFields   == [water |-> 7, air |-> 8, water_set |-> 9, spa_set |-> 10, info |-> 11]

Unknown(raw) ==
  [type |-> "Unknown",
   command |-> IF FindA5(raw) = 0 \/ FindA5(raw) + A5Length > Len(raw) THEN 0
               ELSE raw[FindA5(raw) + A5Command]]

(* byte_from_a5 of each field; Truncated makes the registry fall back.       *)
Parse(type, fields, raw) ==
  LET a5 == FindA5(raw) IN
  IF \E f \in DOMAIN fields : a5 + fields[f] > Len(raw) THEN Unknown(raw)
  ELSE [type |-> type, fields |-> [f \in DOMAIN fields |-> raw[a5 + fields[f]]]]

(* decode_a5: the parser that with_defaults has for the command byte.        *)
DecodeA5(raw) ==
  LET a5 == FindA5(raw)
      command == IF a5 = 0 \/ a5 + A5Command > Len(raw) THEN 0 ELSE raw[a5 + A5Command]
  IN  CASE command = 2 -> Parse("SystemStatus", SystemFields, raw)
        [] command = 8 -> Parse("TempStatus", TempFields, raw)
        [] OTHER       -> Unknown(raw)

(* decode_frame. *)
DecodeMessage(frame) ==
  IF ~frame.checksum_ok THEN [type |-> "Quarantined"]
  ELSE IF frame.kind = "A5" THEN DecodeA5(frame.raw)
  ELSE Unknown(frame.raw)

OnTheBus(r) == r.idle \o BuildA5(1, 15, 16, r.command, r.payload, r.preamble)
-----------------------------------------------------------------------------
NotYet == <<>>

MessageInit == report \in Reports /\ decoded = NotYet

(* The Actor reads the bytes, the drain decodes each frame. *)
Report ==
  /\ decoded = NotYet
  /\ LET frames == Bus!Drain(OnTheBus(report)).frames
     IN  decoded' = [i \in DOMAIN frames |-> DecodeMessage(frames[i])]
  /\ UNCHANGED report

MessageNext == Report

MessageSpec == MessageInit /\ [][MessageNext]_messageVars
-----------------------------------------------------------------------------
(* Where the panel puts a value, counted from the first byte of the payload. *)
PayloadOf(command) ==
  IF command = 2 THEN [hours |-> 1, minutes |-> 2, circuits |-> 3, water_temp |-> 15,
                       heater_temp |-> 16, air_temp |-> 19]
                 ELSE [water |-> 2, air |-> 3, water_set |-> 4, spa_set |-> 5, info |-> 6]

IsStatusReport(r) == r.command \in {2, 8}
Holds(r) == \A f \in DOMAIN PayloadOf(r.command) :
              PayloadOf(r.command)[f] <= Len(r.payload)

(* A status report that holds all its fields arrives as one message with the *)
(* values that were sent, whatever its preamble and although its payload may *)
(* look like the start of another frame.                                     *)
DecodedAsSent ==
  IsStatusReport(report) /\ Holds(report) /\ decoded # NotYet =>
    decoded = <<[type   |-> IF report.command = 2 THEN "SystemStatus" ELSE "TempStatus",
                 fields |-> [f \in DOMAIN PayloadOf(report.command) |->
                               report.payload[PayloadOf(report.command)[f]]]]>>

(* messages.rs:374 "Unregistered / short frames." are Unknown: no value is   *)
(* shown that is not in the payload.                                         *)
ShortIsUnknown ==
  IsStatusReport(report) /\ ~Holds(report) =>
    \A i \in DOMAIN decoded : decoded[i].type = "Unknown"
=============================================================================
