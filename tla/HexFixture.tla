----------------------------- MODULE HexFixture -----------------------------
(* transport/replay.rs parse_hex_bytes: the bytes of a recording, from a dump *)
(* with addresses or from plain hex with comments.  A line is a sequence of   *)
(* characters; blanks stand for tabs too, and comment marks are one character.*)
EXTENDS TransportUrl

CONSTANT Dumps   \* bound: recordings, as sequences of lines

VARIABLES
  dump,   \* what the file is meant to hold
  data    \* ReplayTransport.data, as pairs of digits

fixtureVars == <<dump, data>>

NotLoaded == <<"not loaded">>
HexDigit  == {"0", "1", "7", "a", "c", "e", "f"}
Comments  == {"#", "/*", "*/"}

(* The digits of a text, whatever stands between them. *)
DigitsOf(s) ==
  LET kept[n \in 0..Len(s)] ==
        IF n = 0 THEN <<>>
        ELSE IF s[n] \in HexDigit THEN Append(kept[n - 1], s[n]) ELSE kept[n - 1]
  IN  kept[Len(s)]

PushHexPairs(s) ==
  LET h == DigitsOf(s)
  IN  [i \in 1..(Len(h) \div 2) |-> <<h[2*i - 1], h[2*i]>>]

(* Mutant: only an address that ends in a colon is taken off. *)
StripAddress(line) ==
  LET c == FirstOf(":", line) IN IF c = 0 THEN line ELSE After(c, line)

(* "< 0x10  ..." and "0010: ...", of a line that is trimmed already.  Blanks   *)
(* behind the colon are left: PushHexPairs looks at digits alone.            *)
StripDumpPrefix(line) ==
  LET rest  == Trim(Tail(line))
      blank == FirstOf(" ", rest)
      s     == IF line[1] = "<" THEN Trim(After(blank, rest)) ELSE line
      colon == FirstOf(":", s)
  IN  IF colon # 0 /\ ToSet(Before(colon, s)) \subseteq HexDigit \cup {"x"}
        THEN After(colon, s) ELSE s

BytesOf(line) ==
  LET t == Trim(line) IN
  IF t = <<>> \/ t[1] \in Comments THEN <<>> ELSE PushHexPairs(StripDumpPrefix(t))

(* Text without a single byte is taken again as a whole, comments included. *)
ParseHexBytes(text) ==
  LET out == FlattenSeq([i \in DOMAIN text |-> BytesOf(text[i])])
  IN  IF out = <<>> THEN PushHexPairs(FlattenSeq(text)) ELSE out
-----------------------------------------------------------------------------
(* How the fixtures and the tests of replay.rs write bytes down: at least one  *)
(* to a line, behind an address, "< 0x10 " or "0010:", or without.  Other      *)
(* lines are blank or begin as a comment.                                    *)
AddressDigit == HexDigit \cup {"x"}

IsAddress(p) ==
  \/ p = <<>>
  \/ /\ Len(p) > 3 /\ p[1] = "<" /\ p[2] = " " /\ p[Len(p)] = " "
     /\ \A i \in 3..(Len(p) - 1) : p[i] \in AddressDigit
  \/ /\ Len(p) > 1 /\ p[Len(p)] = ":"
     /\ \A i \in 1..(Len(p) - 1) : p[i] \in AddressDigit

IsRemark(r) == (\A i \in DOMAIN r : r[i] = " ") \/ r[1] \in Comments

IsDumpLine(line) ==
  IF "remark" \in DOMAIN line THEN line.remark \in Seq(STRING) /\ IsRemark(line.remark)
  ELSE /\ line.prefix \in Seq(STRING) /\ IsAddress(line.prefix)
       /\ line.bytes \in Seq(HexDigit \X HexDigit) \ {<<>>}
       /\ line.spaced \in BOOLEAN

ASSUME DumpsAssumption ==
  \A d \in Dumps : d \in Seq(ToSet(d)) /\ \A i \in DOMAIN d : IsDumpLine(d[i])

Content(line) == IF "remark" \in DOMAIN line THEN <<>> ELSE line.bytes

Written(line) ==
  IF "remark" \in DOMAIN line THEN line.remark
  ELSE line.prefix \o FlattenSeq([i \in DOMAIN line.bytes |->
         (IF line.spaced THEN <<" ">> ELSE <<>>) \o line.bytes[i]])

FixtureInit == dump \in Dumps /\ data = NotLoaded

(* open: load_from_path. *)
LoadFromPath ==
  /\ data = NotLoaded
  /\ data' = ParseHexBytes([i \in DOMAIN dump |-> Written(dump[i])])
  /\ UNCHANGED dump

FixtureSpec == FixtureInit /\ [][LoadFromPath]_fixtureVars
-----------------------------------------------------------------------------
(* replay.rs "Parses dump-style or contiguous hex text into bytes": with any  *)
(* mix of addresses, spacing and comments a recording is its bytes, no digit  *)
(* of an address or a comment among them.  A text without bytes is not one.   *)
PlayedAsDumped ==
  LET meant == FlattenSeq([i \in DOMAIN dump |-> Content(dump[i])])
  IN  data = NotLoaded \/ meant = <<>> \/ data = meant
=============================================================================
