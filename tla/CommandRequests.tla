-------------------------- MODULE CommandRequests ---------------------------
(***************************************************************************)
(* api/command.rs `dispatch` with the builders of commands.rs: from the    *)
(* body of POST /command to the bytes that WriteGate.execute sends, or to  *)
(* the error of a BadCommand.  An optional field of the body is a set of   *)
(* at most one value.                                                      *)
(***************************************************************************)
EXTENDS Messages

CONSTANT Bodies   \* bound: the requests considered

(* What serde accepts: a byte, a flag or nothing, and any JSON as a circuit.  *)
OptionOf(S) == {{}} \cup {{x} : x \in S}

ASSUME BodiesAssumption ==
  \A b \in Bodies :
    /\ b.on \in OptionOf(BOOLEAN)
    /\ \A option \in {b.status, b.pool_set, b.spa_set, b.mode} : option \in OptionOf(Byte)
    /\ b.circuit = {} \/ \E v \in b.circuit : b.circuit = {v}
    /\ \A v \in b.circuit : v.is \in {"number", "digits"} => v.n \in Nat

VARIABLES
  body,      \* CommandRequest
  result     \* the error, or the bytes to send

requestVars == <<body, result>>

The(option) == CHOOSE x \in option : TRUE

Failure(error)     == [error |-> error]
Success(value)     == [error |-> "none", value |-> value]
Bytes(command, raw) == [error |-> "none", command |-> command, raw |-> raw]

CircuitIds == [spa |-> 1, pool |-> 2, cleaner |-> 3, water_feature |-> 4,
               waterfall |-> 4, spa_light |-> 5, pool_light |-> 6,
               heat_boost |-> 133, boost |-> 133]

(* parse_circuit_id of a decimal or 0x text, or of a name. *)
ParseCircuitId(text) ==
  IF text.is = "digits" THEN IF text.n > 255 THEN Failure("bad_command") ELSE Success(text.n)
  ELSE IF text.name \in DOMAIN CircuitIds THEN Success(CircuitIds[text.name])
  ELSE Failure("bad_command")

ResolveCircuit(b) ==
  IF b.circuit = {} THEN Failure("unsupported")
  ELSE LET v == The(b.circuit) IN
       CASE v.is = "number" -> IF v.n > 255 THEN Failure("unsupported") ELSE Success(v.n)
         [] v.is \in {"digits", "name"} -> ParseCircuitId(v)
         [] OTHER -> Failure("unsupported")

ResolveOn(b) ==
  IF b.on # {} THEN Success(The(b.on))
  ELSE IF b.status # {} THEN Success(The(b.status) # 0)
  ELSE Failure("unsupported")

CircuitChange == 134
HeatChange    == 136

Build(command, payload) ==
  Bytes(command, BuildA5(7, 16, 32, command, payload, <<255, 0, 255>>))

BuildCircuit(b) ==
  LET circuit == ResolveCircuit(b)
      on      == ResolveOn(b)
  IN  IF circuit.error # "none" THEN circuit
      ELSE IF on.error # "none" THEN on
      ELSE Build(CircuitChange, <<circuit.value, IF on.value THEN 1 ELSE 0>>)

(* Mutant: the setpoints are swapped. *)
BuildHeatSwapped(b) ==
  IF b.pool_set = {} \/ b.spa_set = {} THEN Failure("unsupported")
  ELSE Build(HeatChange, <<The(b.spa_set), The(b.pool_set),
                           IF b.mode = {} THEN 0 ELSE The(b.mode), 0>>)

BuildHeat(b) ==
  IF b.pool_set = {} \/ b.spa_set = {} THEN Failure("unsupported")
  ELSE Build(HeatChange, <<The(b.pool_set), The(b.spa_set),
                           IF b.mode = {} THEN 0 ELSE The(b.mode), 0>>)

(* raw_hex; text that is not hex of whole bytes is the empty sequence.       *)
RawHex(raw) ==
  LET a5 == FindA5(raw) IN
  IF raw = <<>> \/ a5 = 0 \/ a5 + A5Command > Len(raw) THEN Failure("bad_command")
  ELSE IF raw[a5 + A5Command] \notin {CircuitChange, HeatChange} THEN Failure("unsupported")
  ELSE Bytes(raw[a5 + A5Command], raw)

Dispatch(b) ==
  IF b.hex # {} THEN RawHex(The(b.hex))
  ELSE CASE b.type = "circuit" -> BuildCircuit(b)
         [] b.type = "heat"    -> BuildHeat(b)
         [] OTHER              -> Failure("unsupported")

(* CircuitChange::parse and HeatChange::parse: what a frame says.            *)
ParseCommand(raw) ==
  LET a5 == FindA5(raw)
      payload == [i \in 1..raw[a5 + A5Length] |-> raw[a5 + A5Length + i]]
  IN  CASE raw[a5 + A5Command] = CircuitChange /\ Len(payload) >= 2 ->
             [circuit |-> payload[1], on |-> payload[2] # 0]
        [] raw[a5 + A5Command] = HeatChange /\ Len(payload) >= 4 ->
             [pool_set |-> payload[1], spa_set |-> payload[2], mode |-> payload[3]]
-----------------------------------------------------------------------------
Pending == [error |-> "pending"]

RequestInit == body \in Bodies /\ result = Pending

Post == result = Pending /\ result' = Dispatch(body) /\ UNCHANGED body

RequestNext == Post

RequestSpec == RequestInit /\ [][RequestNext]_requestVars
-----------------------------------------------------------------------------
(* What the client means: `on` outweighs its alias `status`, a missing mode  *)
(* is 0, a name stands for the circuit of that name.                         *)
Meant(b) ==
  IF b.type = "heat"
    THEN {[pool_set |-> p, spa_set |-> s, mode |-> m] :
            p \in b.pool_set, s \in b.spa_set,
            m \in IF b.mode = {} THEN {0} ELSE b.mode}
    ELSE {[circuit |-> IF v.is = "name" THEN CircuitIds[v.name] ELSE v.n, on |-> o] :
            v \in {w \in b.circuit :
                     \/ w.is \in {"number", "digits"} /\ w.n \in Byte
                     \/ w.is = "name" /\ w.name \in DOMAIN CircuitIds},
            o \in IF b.on # {} THEN b.on ELSE {n # 0 : n \in b.status}}

(* A typed request is sent if it means something, and then as exactly one    *)
(* frame with a right checksum, whatever its values look like; it says what  *)
(* the client meant, and an echo of it on the bus changes no status.         *)
SentIsMeant ==
  body.hex = {} /\ result # Pending =>
    IF result.error # "none"
      THEN body.type \notin {"circuit", "heat"} \/ Meant(body) = {}
      ELSE LET heard == Bus!Drain(result.raw)
           IN  /\ heard = [buf    |-> <<>>,
                           frames |-> <<[kind |-> "A5", raw |-> result.raw,
                                         checksum_ok |-> TRUE]>>]
               /\ DecodeMessage(heard.frames[1]) = [type    |-> "Unknown",
                                                    command |-> result.command]
               /\ Meant(body) = {ParseCommand(result.raw)}
=============================================================================
