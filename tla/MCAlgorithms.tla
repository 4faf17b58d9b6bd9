---------------------------- MODULE MCAlgorithms ----------------------------
(* The parts of the service that share no state with the others, checked in  *)
(* one instance: every behaviour exercises one of them and leaves the rest   *)
(* as they start.                                                            *)
(*                                                                           *)
(* Backoff is given the default configuration, the accelerated one of the    *)
(* tests and the boundaries of each field; the reports and requests carry    *)
(* bytes that look like the start of an A5 frame (00 FF A5) or of an         *)
(* IntelliChlor frame (10 02).                                               *)
EXTENDS Backoff, ListenWindow, CommandRequests, MCFramer, MCStartup, HexFixture

VARIABLE subject   \* the part that this behaviour exercises

Config(i, m, x, j) == [initial |-> i, max |-> m, multiplier |-> x, jitter_pct |-> j]

Default     == Config(500, 30000, 2, 25)
Accelerated == Config(1, 20, 2, 10)

MCConfigs ==
  {Default, Accelerated}
    \cup {Config(i, m, x, j) : i \in {0, 1, 2, 90}, m \in {0, 20, 80}, x \in 0..3,
                               j \in {0, 25, 50}}

Odd == {0, 2, 16, 165, 255}   \* bytes of the frame delimiters

MCReport(cmd, payload, long) ==
  [idle |-> <<255, 255>>, command |-> cmd, payload |-> payload,
   preamble |-> IF long THEN <<255, 0, 255>> ELSE <<0, 255>>]

(* Reports that are too short, just long enough (6 for temperatures, 19 for  *)
(* the system) and longer, filled from a short cycle of bytes.               *)
Lengths == {0, 4, 5, 6, 17, 18, 19, 29}

Cycles == {FlattenSeq([i \in 1..10 |-> <<x, y, z>>]) : x, y \in Odd, z \in {0, 165}}

MCReports ==
  {MCReport(c, SubSeq(cycle, 1, n), long) :
     cycle \in Cycles, c \in {2, 5, 8}, n \in Lengths, long \in BOOLEAN}

Optional(S) == {{}} \cup {{x} : x \in S}

Blank == [type |-> "", hex |-> {}, circuit |-> {}, on |-> {}, status |-> {},
          pool_set |-> {}, spa_set |-> {}, mode |-> {}]

CircuitValues ==
  {[is |-> k, n |-> n] : k \in {"number", "digits"}, n \in Odd \cup {6, 256}}
    \cup {[is |-> "name", name |-> w] : w \in {"spa", "pool_light", "boost", "hot_tub"}}
    \cup {[is |-> "other"]}

(* The heat request of the tests, whole, cut after its command byte, with    *)
(* another command, and text that is not hex.                                *)
RawHeat == <<255, 0, 255, 165, 7, 16, 32, 136, 4, 43, 96, 5, 0, 1, 248>>
RawHexes == {RawHeat, SubSeq(RawHeat, 1, 8), SubSeq(RawHeat, 1, 7), <<>>,
             [RawHeat EXCEPT ![8] = 2], SubSeq(RawHeat, 4, 15)}

MCBodies ==
  {[Blank EXCEPT !.type = t, !.circuit = c, !.on = o, !.status = s] :
     t \in {"circuit", "", "other"}, c \in Optional(CircuitValues),
     o \in Optional(BOOLEAN), s \in Optional({0, 1, 2})}
    \cup {[Blank EXCEPT !.type = "heat", !.pool_set = p, !.spa_set = s, !.mode = m] :
             p, s \in Optional(Odd \cup {43}), m \in Optional(Odd)}
    \cup {[Blank EXCEPT !.type = t, !.hex = {h}] : t \in {"", "heat"}, h \in RawHexes}

(* Recordings of one or two lines, of one or three bytes each or none. *)
AddressForms == {<<>>, <<"<", " ", "0", "x", "1", "0", " ">>, <<"0", "0", "1", "0", ":">>}
Remarks      == {<<>>, <<" ">>, <<"#", "c", "a", "0", "7">>, <<"/*", " ", "c", "e", "*/">>,
                 <<"*/", "f">>}

MCLines ==
  [prefix : AddressForms, spaced : BOOLEAN,
   bytes : {<<<<"0", "a">>>>, <<<<"f", "f">>, <<"0", "0">>, <<"1", "e">>>>}]
    \cup [remark : Remarks]

MCDumps == UNION {[1..n -> MCLines] : n \in 1..2}

vars == <<subject, backoffVars, windowVars, messageVars, requestVars, framerVars,
          startupVars, fixtureVars>>

AnyReport == MCReport(8, <<>>, TRUE)
AnyPlan   == <<Noise, A5Good>>
AnyInst   == Usual(SaysNothing, {})

Init ==
  /\ subject \in {"backoff", "window", "message", "request", "framer", "startup",
                "fixture"}
  /\ BackoffInit /\ (subject = "backoff" \/ config = Default)
  /\ WindowInit  /\ (subject = "window"  \/ (path = "dry" /\ command = "heat"))
  /\ IF subject = "message" THEN MessageInit ELSE report = AnyReport /\ decoded = NotYet
  /\ IF subject = "request" THEN RequestInit ELSE body = Blank /\ result = Pending
  /\ FramerInit  /\ (subject = "framer"  \/ plan = AnyPlan)
  /\ IF subject = "startup" THEN StartupInit ELSE inst = AnyInst /\ NothingBuilt
  /\ IF subject = "fixture" THEN FixtureInit ELSE dump = <<>> /\ data = NotLoaded

Next ==
  /\ UNCHANGED subject
  /\ \/ /\ subject = "backoff" /\ BackoffNext
        /\ UNCHANGED <<windowVars, messageVars, requestVars, framerVars, startupVars,
                       fixtureVars>>
     \/ /\ subject = "window" /\ WindowNext
        /\ UNCHANGED <<backoffVars, messageVars, requestVars, framerVars, startupVars,
                       fixtureVars>>
     \/ /\ subject = "message" /\ MessageNext
        /\ UNCHANGED <<backoffVars, windowVars, requestVars, framerVars, startupVars,
                       fixtureVars>>
     \/ /\ subject = "request" /\ RequestNext
        /\ UNCHANGED <<backoffVars, windowVars, messageVars, framerVars, startupVars,
                       fixtureVars>>
     \/ /\ subject = "framer" /\ FramerNext
        /\ UNCHANGED <<backoffVars, windowVars, messageVars, requestVars, startupVars,
                       fixtureVars>>
     \/ /\ subject = "startup" /\ StartupNext
        /\ UNCHANGED <<backoffVars, windowVars, messageVars, requestVars, framerVars,
                       fixtureVars>>
     \/ /\ subject = "fixture" /\ LoadFromPath
        /\ UNCHANGED <<backoffVars, windowVars, messageVars, requestVars, framerVars,
                       startupVars>>

Spec == Init /\ [][Next]_vars
=============================================================================
