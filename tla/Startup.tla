------------------------------ MODULE Startup ------------------------------
(***************************************************************************)
(* main.rs, config.rs and lib.rs `run` up to the first command: the        *)
(* settings from defaults, file and environment, and what is built from    *)
(* them, in this order: the journal, the write gate, the bus Actor, the    *)
(* listener.  What then runs is PentairService.                            *)
(*                                                                         *)
(* A layer maps each key to the set of what it says, which has at most one *)
(* member.  Values are texts; a file has numbers where a text of the       *)
(* environment has to be parsed.                                           *)
(***************************************************************************)
EXTENDS TransportUrl

CONSTANTS
  Installations,   \* bound: the surroundings a process is started in
  Endpoints        \* bound: the endpoints that a text may name

VARIABLES
  inst,      \* [path_set, named, local, env, journal_opens, port_free]
  stage,     \* how far main and run have come
  settings,  \* Config
  journal,   \* "untouched", "off" or "open"
  gate,      \* WriteGate: [live, window, handle]
  writeRx,   \* where the receiver of the write channel is
  bus,       \* the endpoint of the Actor that was spawned
  answer     \* what a POST /command is told

startupVars == <<inst, stage, settings, journal, gate, writeRx, bus, answer>>

Keys == {"bind_addr", "transport_url", "log_level", "journal_path", "journal_max_bytes",
         "journal_max_age_secs", "writes_enabled", "listen_window_ms"}

(* A process has one file of each name and one value of each variable, a file *)
(* says one thing of each key.                                                *)
AtMostOneOf(S) == \A x, y \in S : x = y

ASSUME InstallationsAssumption ==
  \A i \in Installations :
    /\ AtMostOneOf(i.named) /\ AtMostOneOf(i.local)
    /\ \A k \in Keys : /\ AtMostOneOf(i.env[k])
                       /\ \A f \in i.named \cup i.local : AtMostOneOf(f.says[k])
    /\ i.env["transport_url"] \subseteq Seq(STRING)
    /\ \A f \in i.named \cup i.local : f.says["transport_url"] \subseteq Seq(STRING)

ASSUME EndpointsAssumption ==
  \A e \in Endpoints :
    \/ e.kind = "tcp" /\ e = Tcp(e.host, e.port) /\ e.host \in Seq(STRING)
    \/ e.kind = "serial" /\ e = Serial(e.path, e.baud) /\ e.path \in Seq(STRING)
    \/ e.kind = "replay" /\ e = Replay(e.path)

Defaults ==
  [bind_addr |-> "0.0.0.0:28471", transport_url |-> <<>>, log_level |-> "info",
   journal_path |-> "none", journal_max_bytes |-> "none", journal_max_age_secs |-> "none",
   writes_enabled |-> "false", listen_window_ms |-> "500"]

Limits == {"journal_max_bytes", "journal_max_age_secs"}
Parsed == Limits \cup {"writes_enabled", "listen_window_ms"}

IsBlank(k, v) == IF k = "transport_url" THEN Trim(v) = <<>> ELSE v \in {"", " "}
IsEmpty(k, v) == IF k = "transport_url" THEN v = <<>> ELSE v = ""

(* parse_bool_env; a file has TOML's true and false. *)
Yes == {"1", "true", "yes", "on"}

(* The setters of ConfigBuilder; <<>> is the transport_url that is None. *)
Set(k, v) ==
  CASE k = "transport_url" /\ IsBlank(k, v)                   -> <<>>
    [] k \in Limits \cup {"journal_path"} /\ IsBlank(k, v)    -> "none"
    [] k = "listen_window_ms" /\ v = "0"                    -> "1"
    [] k = "writes_enabled"                                 -> IF v \in Yes THEN "true"
                                                               ELSE "false"
    [] OTHER                                                -> v

(* resolve_config_path and merge_file: the file, or why there is none. *)
ConfigFile == IF inst.path_set THEN inst.named ELSE inst.local

FileFails == \/ inst.path_set /\ ConfigFile = {}
             \/ \E f \in ConfigFile : ~f.well_typed

MergeFile(k) == UNION {{Set(k, v) : v \in f.says[k]} : f \in ConfigFile}

(* from_env_and_disk: a variable that is empty (bind_addr, log_level) or      *)
(* blank (the numbers of the gate) is skipped.                               *)
EnvSays(k) ==
  {v \in inst.env[k] : CASE k \in {"bind_addr", "log_level"} -> ~IsEmpty(k, v)
                         [] k \in Parsed \ Limits            -> ~IsBlank(k, v)
                         [] OTHER                            -> TRUE}

EnvFails == \E k \in Parsed : "junk" \in EnvSays(k)

(* Mutant: what the file says wins. *)
MergeFileLast(k) ==
  IF MergeFile(k) # {} THEN MergeFile(k) ELSE {Set(k, v) : v \in EnvSays(k)}

Merge(k) == IF EnvSays(k) # {} THEN {Set(k, v) : v \in EnvSays(k)} ELSE MergeFile(k)

(* ConfigBuilder::build. *)
Word(S)     == CHOOSE v \in S : TRUE
BuildConfig == [k \in Keys |-> IF Merge(k) = {} THEN Defaults[k] ELSE Word(Merge(k))]

NoGate == [live |-> FALSE, window |-> "none", handle |-> FALSE]
-----------------------------------------------------------------------------
NothingBuilt ==
  /\ stage = "start" /\ settings = Defaults
  /\ journal = "untouched" /\ gate = NoGate /\ writeRx = "none" /\ bus = Invalid
  /\ answer = "none"

StartupInit == inst \in Installations /\ NothingBuilt

(* main: Config::load; an error ends the process. *)
Load ==
  /\ stage = "start"
  /\ IF FileFails \/ EnvFails \/ IsBlank("bind_addr", BuildConfig.bind_addr)
       THEN stage' = "exited" /\ UNCHANGED settings
       ELSE stage' = "loaded" /\ settings' = BuildConfig
  /\ UNCHANGED <<inst, journal, gate, writeRx, bus, answer>>

Addresses == {"0.0.0.0:28471", "127.0.0.1:80"}   \* the texts that are a SocketAddr

ParseAddr ==
  /\ stage = "loaded"
  /\ stage' = IF settings.bind_addr \in Addresses THEN "addressed" ELSE "exited"
  /\ UNCHANGED <<inst, settings, journal, gate, writeRx, bus, answer>>

(* Mutant: a journal that cannot be opened ends the process. *)
OpenJournalOrExit ==
  /\ stage = "addressed"
  /\ IF settings.journal_path = "none" \/ inst.journal_opens
       THEN stage' = "journalled" ELSE stage' = "exited"
  /\ journal' = IF settings.journal_path = "none" THEN "off" ELSE "open"
  /\ UNCHANGED <<inst, settings, gate, writeRx, bus, answer>>

(* open_journal_from_config: without one it goes on. *)
OpenJournal ==
  /\ stage = "addressed"
  /\ stage' = "journalled"
  /\ journal' = IF settings.journal_path = "none" \/ ~inst.journal_opens THEN "off"
                                                                         ELSE "open"
  /\ UNCHANGED <<inst, settings, gate, writeRx, bus, answer>>

(* The write channel exists if writes are enabled, and WriteGate::new. *)
MakeGate ==
  LET live == settings.writes_enabled = "true" IN
  /\ stage = "journalled"
  /\ stage' = "gated"
  /\ gate' = [live |-> live, window |-> settings.listen_window_ms, handle |-> live]
  /\ writeRx' = IF live THEN "run" ELSE "none"
  /\ UNCHANGED <<inst, settings, journal, bus, answer>>

(* spawn_bus_if_configured: without a URL, or with one that cannot be parsed, *)
(* the receiver it was given is dropped.                                     *)
SpawnBus ==
  /\ stage = "gated"
  /\ stage' = "spawned"
  /\ bus' = ParseUrl(settings.transport_url)
  /\ writeRx' = IF writeRx = "none" THEN "none"
                ELSE IF bus' = Invalid THEN "dropped" ELSE "actor"
  /\ UNCHANGED <<inst, settings, journal, gate, answer>>

Bind ==
  /\ stage = "spawned"
  /\ stage' = IF inst.port_free THEN "serving" ELSE "exited"
  /\ UNCHANGED <<inst, settings, journal, gate, writeRx, bus, answer>>

(* execute's branches and map_err's codes, for a well-formed command. *)
Outcome ==
  CASE ~gate.live          -> "200 dry run"
    [] gate.live /\ ~gate.handle -> "503 no_write_handle"
    [] gate.handle /\ writeRx = "dropped" -> "502 transport"
    [] gate.handle /\ writeRx = "actor"   -> "to the bus"

Command ==
  /\ stage = "serving" /\ answer = "none"
  /\ answer' = Outcome
  /\ UNCHANGED <<inst, stage, settings, journal, gate, writeRx, bus>>

StartupNext ==
  Load \/ ParseAddr \/ OpenJournal \/ MakeGate \/ SpawnBus \/ Bind \/ Command

StartupSpec == StartupInit /\ [][StartupNext]_startupVars
-----------------------------------------------------------------------------
(* What defaults, file and environment say of a key, the last word on it.    *)
(* A variable that is empty takes back what can be unset and says nothing of  *)
(* the other keys.                                                           *)
FileLayer(k) == UNION {f.says[k] : f \in ConfigFile}

EnvLayer(k) ==
  IF k \in Limits \cup {"transport_url", "journal_path"} THEN inst.env[k]
  ELSE {v \in inst.env[k] : ~(IF k \in Parsed THEN IsBlank(k, v) ELSE IsEmpty(k, v))}

LastSaid(k) ==
  IF EnvLayer(k) # {} THEN EnvLayer(k)
  ELSE IF FileLayer(k) # {} THEN FileLayer(k) ELSE {Defaults[k]}

(* README.md:116: defaults, then the TOML file, then the environment, "later  *)
(* wins", key by key, so that what one layer says of one key hides nothing    *)
(* that an earlier one says of another.                                      *)
AsConfigured ==
  stage \notin {"start", "exited"} =>
    \A k \in Keys : {settings[k]} = {Set(k, v) : v \in LastSaid(k)}

Unusable ==
  \/ FileFails
  \/ \E k \in Parsed : "junk" \in inst.env[k]
  \/ LastSaid("bind_addr") \cap Addresses = {}

(* Settings that cannot be used end the process before it has opened the     *)
(* journal or a transport.  A journal that cannot be opened and a transport  *)
(* that cannot be created do not (lib.rs "continuing without durable log",   *)
(* "HTTP will still serve"); a port in use does.                             *)
EndsOnlyForCause ==
  /\ Unusable => stage \in {"start", "loaded", "exited"} /\ journal = "untouched"
                                                         /\ bus = Invalid
  /\ ~Unusable /\ inst.port_free => stage # "exited"

(* config.rs "When false (default), POST /command dry-runs and never TX": a  *)
(* command goes to a bus only if the last word on writes_enabled was true,   *)
(* and then to the one endpoint that the last word on transport_url spells.  *)
(* If that spells none the command fails at once.                            *)
SentWhereTold ==
  answer # "none" =>
    \E url \in LastSaid("transport_url") :
      /\ bus # Invalid => Spells(url, bus)
      /\ \A e \in Endpoints : Spells(url, e) => bus = e
      /\ answer = IF LastSaid("writes_enabled") \cap Yes = {} THEN "200 dry run"
                  ELSE IF bus = Invalid THEN "502 transport" ELSE "to the bus"
=============================================================================
