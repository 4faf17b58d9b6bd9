------------------------------ MODULE MCStartup ------------------------------
(* Startup with every key in every layer, one key at a time, and with all     *)
(* combinations of the keys that decide what is built.                        *)
EXTENDS Startup

Says(k, S)  == [x \in Keys |-> IF x = k THEN S ELSE {}]
SaysNothing == [x \in Keys |-> {}]
AtMostOne(S) == {{}} \cup {{x} : x \in S}

File(says) == {[well_typed |-> TRUE, says |-> says]}
Broken     == {[well_typed |-> FALSE, says |-> SaysNothing]}

Usual(env, file) == [path_set |-> FALSE, named |-> {}, local |-> file, env |-> env,
                     journal_opens |-> TRUE, port_free |-> TRUE]

MCEndpoints ==
  {Tcp(h, p) : h \in {<<"host">>, <<":", ":", "1">>}, p \in {"8899", "65535"}}
    \cup {Serial(p, b) : p \in {<<"/dev/ttyUSB0">>, <<"./tty">>, <<"/dev/ttyUSB0", ",", "x">>},
                         b \in {"9600", "115200"}}
    \cup {Replay(<<"fixture">>)}

(* The ways to write an endpoint that README.md, config.example.toml and the *)
(* comments of mod.rs name, with blanks around it or without.                *)
Spelled(e) ==
  CASE e.kind = "tcp" ->
         {<<"tcp://">> \o (IF ":" \in ToSet(e.host) THEN <<"[">> \o e.host \o <<"]">>
                                                    ELSE e.host) \o <<":", e.port>>}
    [] e.kind = "replay" -> {<<s>> \o e.path : s \in ReplaySchemes}
    [] e.kind = "serial" ->
         {s \o e.path \o b :
            s \in {<<x>> : x \in SerialSchemes} \cup {<<>>},
            b \in {<<"?", "baud=", e.baud>>, <<",", e.baud>>}
                    \cup (IF e.baud = "9600" THEN {<<>>} ELSE {})}

Spellings(e) == {x \o s \o y : s \in Spelled(e), x, y \in {<<>>, <<" ">>}}

ASSUME SpellingsAssumption ==
  \A e \in MCEndpoints : \A url \in Spellings(e) : Spells(url, e)

(* What is accepted besides: an address with colons and no brackets, brackets *)
(* round a name, a blank behind the scheme, a query that is a number.         *)
OtherUrls ==
  {<<"tcp://", ":", ":", "1", ":", "8899">>, <<"tcp://", "[", "host", "]", ":", "65535">>,
   <<"tcp://", " ", "host", ":", "8899">>, <<"serial:", " ", "./tty", " ", "?", "9600">>,
   <<"./tty", "?", "115200">>, <<"serial:", ",", "x">>}

(* Those that the tests of mod.rs reject, and numbers out of range. *)
BadUrls ==
  {<<"http://", "host">>, <<"tcp://", ":", "8899">>, <<"tcp://", "host">>,
   <<"tcp://", "[", ":", ":", "1">>, <<"tcp://", "host", ":", "65536">>,
   <<"tcp://", "[", "]", ":", "8899">>, <<"replay:">>, <<"replay:", " ">>, <<"serial:">>,
   <<"serial:", "?", "baud=", "9600">>, <<"/dev/ttyUSB0", ",", "4294967296">>}

UrlTexts ==
  UNION {Spellings(e) : e \in MCEndpoints} \cup OtherUrls \cup BadUrls \cup {<<>>, <<" ">>}

TextsOf(k) ==
  CASE k = "transport_url" -> {<<>>, <<" ">>, <<"tcp://", "host", ":", "8899">>, <<"replay:">>}
    [] k = "bind_addr"     -> {"", " ", "127.0.0.1:80", "junk"}
    [] k \in {"log_level", "journal_path"} -> {"", " ", "x"}
    [] k = "writes_enabled" -> {"", " ", "junk", "yes", "off", "true"}
    [] OTHER                -> {"", " ", "junk", "0", "7"}

InFile(k) ==
  CASE k = "writes_enabled"       -> {"true", "false"}
    [] k \in Parsed              -> {"0", "9"}
    [] k = "transport_url"        -> {<<>>, <<"replay:", "fixture">>}
    [] k = "bind_addr"            -> {"", "0.0.0.0:28471", "127.0.0.1:80", "junk"}
    [] OTHER                      -> {"", "y"}

OneKey == {Usual(Says(k, e), File(Says(k, f))) :
             <<k, e, f>> \in UNION {{k} \X AtMostOne(TextsOf(k)) \X AtMostOne(InFile(k)) : k \in Keys}}

EveryUrl == {Usual([Says("transport_url", {u}) EXCEPT !.writes_enabled = {"1"}], {}) :
               u \in UrlTexts}

What(url, writes, path, bind) ==
  [SaysNothing EXCEPT !.transport_url = url, !.writes_enabled = writes,
                      !.journal_path = path, !.bind_addr = bind]

Urls2 == AtMostOne({<<"tcp://", "host", ":", "8899">>, <<"serial:">>, <<>>})

Together ==
  {[path_set |-> FALSE, named |-> {}, local |-> File(What(v, x, {"y"}, {})),
    env |-> What(u, w, p, b), journal_opens |-> o, port_free |-> f] :
      u \in Urls2, v \in {{}, {<<"replay:", "fixture">>}}, w, x \in AtMostOne({"true", "false"}),
      p \in AtMostOne({""}), b \in AtMostOne({"junk", " "}), o, f \in BOOLEAN}

Files == {{}, Broken, File(Says("writes_enabled", {"true"})), File(Says("log_level", {"x"}))}

WhichFile ==
  {[Usual(SaysNothing, {}) EXCEPT !.path_set = s, !.named = n, !.local = l] :
     s \in BOOLEAN, n, l \in Files}

MCInstallations == OneKey \cup EveryUrl \cup Together \cup WhichFile
=============================================================================
