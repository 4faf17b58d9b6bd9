---------------------------- MODULE ListenWindow ----------------------------
(***************************************************************************)
(* write.rs after the TX: what WriteGate.execute and                       *)
(* execute_with_listen_bytes make of the frames that come while the        *)
(* listen window is open.  WriteGate has the gate around it (WindowEnds).  *)
(***************************************************************************)
EXTENDS Naturals, Sequences, SequencesExt

CONSTANT MaxHeard   \* bound: frames on the bus while the window is open

ASSUME ListenAssumption == MaxHeard \in Nat

VARIABLES
  path,       \* "dry", "live" or "bytes": execute, or execute_with_listen_bytes
  command,    \* the opcode that was sent
  heard,      \* frames on the bus since the TX
  verdict     \* WriteResult.verdict, "open" until the window ends

windowVars == <<path, command, heard, verdict>>

Opcodes == {"circuit", "heat"}   \* CMD_CIRCUIT_CHANGE, CMD_HEAT_CHANGE

(* A frame as classify_listen sees it: its opcode, the first byte of its     *)
(* payload if there is one, and whether its checksum is right.               *)
Frame(cmd, arg, ok) == [cmd |-> cmd, arg |-> arg, checksum_ok |-> ok]

BusFrames ==
  {Frame("ack", op, ok) : op \in Opcodes \cup {"none"}, ok \in BOOLEAN}
    \cup {Frame(cmd, "none", ok) : cmd \in {"status", "temp"}, ok \in BOOLEAN}
    \cup {Frame("other", op, TRUE) : op \in Opcodes}

IsAck(f, op) == f.checksum_ok /\ f.cmd = "ack" /\ f.arg = op
IsStatus(f)  == f.checksum_ok /\ f.cmd \in {"status", "temp"}

(* Mutant: the first frame that says anything decides. *)
ClassifyFirst(op, frames) ==
  FoldLeft(LAMBDA v, f : IF v # "timeout" THEN v
                         ELSE IF IsAck(f, op) THEN "ack"
                         ELSE IF IsStatus(f) THEN "status" ELSE v,
           "timeout", frames)

(* classify_listen: one pass, an ACK of the opcode ends it. *)
Classify(op, frames) ==
  LET after[n \in 0..Len(frames)] ==
        IF n = 0 THEN "timeout"
        ELSE IF after[n - 1] = "ack" \/ IsAck(frames[n], op) THEN "ack"
        ELSE IF IsStatus(frames[n]) THEN "status" ELSE after[n - 1]
  IN  after[Len(frames)]

(* dry_run_rx_hex: the fixture ACK of the opcode. *)
DryRunFrames(op) == <<Frame("ack", op, TRUE)>>

(* listen_after_tx(window, &[]): it sleeps and has nothing to return.        *)
ListenAfterTx == <<>>
-----------------------------------------------------------------------------
WindowInit ==
  /\ path \in {"dry", "live", "bytes"} /\ command \in Opcodes
  /\ heard = <<>> /\ verdict = "open"

(* A frame on the bus, from the controller or from another device. *)
Hear ==
  /\ verdict = "open" /\ Len(heard) < MaxHeard
  /\ \E f \in BusFrames : heard' = Append(heard, f)
  /\ UNCHANGED <<path, command, verdict>>

DryRunEnds ==
  /\ path = "dry" /\ verdict = "open"
  /\ verdict' = Classify(command, DryRunFrames(command))
  /\ UNCHANGED <<path, command, heard>>

LiveEnds ==
  /\ path = "live" /\ verdict = "open"
  /\ verdict' = Classify(command, ListenAfterTx)
  /\ UNCHANGED <<path, command, heard>>

(* execute_with_listen_bytes: the caller gives the bytes it has heard. *)
BytesEnd ==
  /\ path = "bytes" /\ verdict = "open"
  /\ verdict' = Classify(command, heard)
  /\ UNCHANGED <<path, command, heard>>

WindowNext == Hear \/ DryRunEnds \/ LiveEnds \/ BytesEnd

WindowSpec == WindowInit /\ [][WindowNext]_windowVars
-----------------------------------------------------------------------------
(* write.rs:17-19: what the listen window is said to report. *)
Documented(op, frames) ==
  IF \E i \in DOMAIN frames : IsAck(frames[i], op) THEN "ack"
  ELSE IF \E i \in DOMAIN frames : IsStatus(frames[i]) THEN "status"
  ELSE "timeout"

(* The verdict on the frames a caller has heard is the documented one: a     *)
(* matching ACK outweighs any status before or after it, an ACK of the other *)
(* opcode and a frame with a bad checksum count for nothing.  A dry run is   *)
(* answered as by a controller that obeys, whatever is on the bus.           *)
HeardDecides ==
  verdict # "open" =>
    /\ path = "bytes" => verdict = Documented(command, heard)
    /\ path = "dry"   => verdict = "ack"

(* write.rs:15 "After TX (or simulated TX), RX frames captured for           *)
(* listen_window_ms are classified": so is what comes after a live TX.       *)
LiveDecides ==
  path = "live" /\ verdict # "open" => verdict = Documented(command, heard)
=============================================================================
