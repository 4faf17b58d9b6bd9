---------------------------- MODULE TransportUrl ----------------------------
(***************************************************************************)
(* transport/mod.rs TransportEndpoint::parse: from the text of             *)
(* transport_url to the strategy that from_url builds.  A text is a        *)
(* sequence of tokens: a scheme, a punctuation mark, a blank, a run of     *)
(* digits or another word; runs of digits do not touch each other.         *)
(***************************************************************************)
EXTENDS Integers, Sequences, SequencesExt

U16    == {"1", "8899", "9600", "65535"}
U32    == U16 \cup {"65536", "115200"}
Digits == U32 \cup {"4294967296"}

ReplaySchemes == {"replay://", "replay:", "hexfile://", "hexfile:"}
SerialSchemes == {"serial://", "serial:"}
DevicePaths   == {"/dev/ttyUSB0", "./tty"}   \* words that begin with / or .

Invalid         == [kind |-> "none"]
Tcp(host, port) == [kind |-> "tcp", host |-> host, port |-> port]
Serial(p, baud) == [kind |-> "serial", path |-> p, baud |-> baud]
Replay(p)       == [kind |-> "replay", path |-> p]

FirstOf(mark, t) == SelectInSeq(t, LAMBDA x : x = mark)
LastOf(mark, t)  == SelectLastInSeq(t, LAMBDA x : x = mark)
Before(i, t)     == SubSeq(t, 1, i - 1)
After(i, t)      == SubSeq(t, i + 1, Len(t))

Trim(t) ==
  LET words == {i \in DOMAIN t : t[i] # " "}
  IN  IF words = {} THEN <<>> ELSE SubSeq(t, Min(words), Max(words))

Number(t, fits) == Len(t) = 1 /\ t[1] \in fits

(* Mutant: host and port are parted at the first colon. *)
HostAndPortAtFirst(t) ==
  LET i == IF FirstOf("]", t) # 0 THEN FirstOf("]", t) + 1 ELSE FirstOf(":", t)
  IN  [host |-> Before(i, t), port |-> After(i, t), found |-> i > 1 /\ i <= Len(t)]

(* An address in brackets, or all that comes before the last colon. *)
HostAndPort(t) ==
  LET close == FirstOf("]", t)
      colon == LastOf(":", t)
  IN  IF t # <<>> /\ t[1] = "["
        THEN [host |-> SubSeq(t, 2, close - 1), port |-> After(close + 1, t),
              found |-> close # 0 /\ close < Len(t) /\ t[close + 1] = ":"]
        ELSE [host |-> Before(colon, t), port |-> After(colon, t), found |-> colon # 0]

ParseTcp(t) ==
  LET parts == HostAndPort(Trim(t)) IN
  IF ~parts.found \/ parts.host = <<>> \/ ~Number(parts.port, U16) THEN Invalid
  ELSE Tcp(parts.host, parts.port[1])

(* `?baud=115200`, or `,115200`; a comma without digits belongs to the path. *)
PathAndBaud(t) ==
  LET q == FirstOf("?", t)
      c == LastOf(",", t)
      query == IF After(q, t) # <<>> /\ After(q, t)[1] = "baud=" THEN After(q + 1, t)
                                                                 ELSE After(q, t)
  IN  IF q # 0 THEN [path |-> Before(q, t), baud |-> query]
      ELSE IF c # 0 /\ Number(After(c, t), Digits)
        THEN [path |-> Before(c, t), baud |-> After(c, t)]
      ELSE [path |-> t, baud |-> <<"9600">>]

ParseSerial(t) ==
  LET parts == PathAndBaud(Trim(t)) IN
  IF parts.path = <<>> \/ ~Number(parts.baud, U32) THEN Invalid
  ELSE Serial(parts.path, parts.baud[1])

ParseReplay(t) == IF Trim(t) = <<>> THEN Invalid ELSE Replay(Trim(t))

(* TransportEndpoint::parse. *)
ParseUrl(url) ==
  LET t == Trim(url) IN
  IF t = <<>> THEN Invalid ELSE
  CASE t[1] = "tcp://"           -> ParseTcp(Tail(t))
    [] t[1] \in ReplaySchemes    -> ParseReplay(Tail(t))
    [] t[1] \in SerialSchemes    -> ParseSerial(Tail(t))
    [] t[1] \in DevicePaths      -> ParseSerial(t)
    [] OTHER                     -> Invalid
-----------------------------------------------------------------------------
(* How an endpoint may be written, without regard to how it is taken apart:   *)
(* behind its scheme, with blanks around either.                             *)
IsHostAndPort(t, e) ==
  /\ e.host # <<>> /\ e.port \in U16
  /\ \/ t = <<"[">> \o e.host \o <<"]", ":", e.port>> /\ "]" \notin ToSet(e.host)
     \/ t = e.host \o <<":", e.port>> /\ e.host[1] # "["

(* Without a baud rate it is 9600; digits behind a comma are one.            *)
EndsInBaud(t) == Len(t) > 1 /\ t[Len(t) - 1] = "," /\ t[Len(t)] \in Digits

IsPathAndBaud(t, e) ==
  /\ e.path # <<>> /\ "?" \notin ToSet(e.path) /\ e.baud \in U32
  /\ \/ t = e.path \o <<"?", "baud=", e.baud>>
     \/ t = e.path \o <<"?", e.baud>>
     \/ t = e.path \o <<",", e.baud>>
     \/ t = e.path /\ e.baud = "9600" /\ ~EndsInBaud(t)

Spells(url, e) ==
  LET t    == Trim(url)
      rest == Trim(Tail(t))
  IN  /\ t # <<>>
      /\ \/ e.kind = "tcp" /\ t[1] = "tcp://" /\ IsHostAndPort(rest, e)
         \/ e.kind = "replay" /\ t[1] \in ReplaySchemes /\ rest # <<>> /\ rest = e.path
         \/ e.kind = "serial" /\ t[1] \in SerialSchemes /\ IsPathAndBaud(rest, e)
         \/ e.kind = "serial" /\ t[1] \in DevicePaths /\ IsPathAndBaud(t, e)
=============================================================================
