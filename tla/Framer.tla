------------------------------- MODULE Framer -------------------------------
(***************************************************************************)
(* framer.rs byte by byte: the reassembly buffer that turns what transport *)
(* reads return into A5 and IntelliChlor frames, fed a known stream in     *)
(* pieces of any length and reset where a reconnect may fall.  BusActor    *)
(* abstracts it to whole messages (Feed); this module is what allows that. *)
(***************************************************************************)
EXTENDS Integers, Sequences, FiniteSets, SequencesExt

CONSTANTS
  Plans,      \* what the bus carries: sequences of pieces [bytes, kind, ok]
  IcMax,      \* IC_MAX_FRAME (64 in the code)
  MaxResets   \* bound: reconnects in the middle of the stream

Piece == [bytes : Seq(0..255), kind : {"A5", "IntelliChlor", "noise", "cut"}, ok : BOOLEAN]

ASSUME FramerAssumption ==
  /\ \A p \in Plans : p \in Seq(Piece)
  /\ IcMax \in Nat /\ IcMax > 8 /\ MaxResets \in Nat

VARIABLES
  plan,       \* the pieces that the bus carries in this behaviour
  pos,        \* bytes of the stream read so far
  buf,        \* Framer.buf
  out,        \* history: the frames given since the last reset
  start       \* history: value of pos at each reset

framerVars == <<plan, pos, buf, out, start>>

StreamOf(p) == FlattenSeq([i \in DOMAIN p |-> p[i].bytes])

Stream == StreamOf(plan)
-----------------------------------------------------------------------------
At(bytes, i, needle) == SubSeq(bytes, i, i + Len(needle) - 1) = needle

Occurrences(bytes, needle) ==
  {i \in 1..(Len(bytes) - Len(needle) + 1) : At(bytes, i, needle)}

(* find_subslice: the first occurrence in a slice, 0 if there is none. *)
FindIn(bytes, needle, from, to) ==
  LET hits == {i \in Occurrences(bytes, needle) : i >= from /\ i + Len(needle) - 1 <= to}
  IN  IF hits = {} THEN 0 ELSE CHOOSE i \in hits : \A j \in hits : i <= j

FF == 255
SyncShort == <<0, FF, 165>>         \* SYNC_00_FF_A5, and after FF SYNC_FF_00_FF_A5
Stx       == <<16, 2>>
Etx       == <<16, 3>>

Hit(kind, first, mark) == [kind |-> kind, first |-> first, mark |-> mark]

(* find_a5_sync: the long preamble, if it is there, with its leading FF.     *)
A5Syncs(b) ==
  LET i == FindIn(b, SyncShort, 1, Len(b))
  IN  IF i = 0 THEN {}
      ELSE IF i > 1 /\ b[i - 1] = FF THEN {Hit("A5", i - 1, i + 2)}
      ELSE {Hit("A5", i, i + 2)}

ChlorSyncs(b) ==
  LET i == FindIn(b, Stx, 1, Len(b)) IN IF i = 0 THEN {} ELSE {Hit("IntelliChlor", i, i)}

(* Mutant: IntelliChlor is looked for first. *)
ChlorFirst(b) ==
  IF ChlorSyncs(b) # {} THEN ChlorSyncs(b) ELSE A5Syncs(b)

(* earliest_sync: the one whose mark (A5 or STX) comes first. *)
EarliestSync(b) ==
  LET hits == A5Syncs(b) \cup ChlorSyncs(b)
  IN  {h \in hits : \A k \in hits : h.mark <= k.mark}

SumOf(bytes) ==
  LET sum[n \in 0..Len(bytes)] == IF n = 0 THEN 0 ELSE sum[n - 1] + bytes[n]
  IN  sum[Len(bytes)]

(* pentair_checksum: a u16, big endian, over A5 .. the last payload byte.    *)
VerifyA5(raw, mark) ==
  LET n == Len(raw) IN SumOf(SubSeq(raw, mark, n - 2)) % 65536 = raw[n - 1] * 256 + raw[n]

(* intellichlor_checksum: a u8 over the data. *)
VerifyChlor(raw) ==
  LET n == Len(raw) IN (SumOf(SubSeq(raw, 3, n - 3)) + 18) % 256 = raw[n - 2]

NeedMore        == [take |-> "more"]
Advanced        == [take |-> "drop"]
Took(n, k, sum) == [take |-> "frame", n |-> n, kind |-> k, ok |-> sum]

(* try_take_a5: PROTO DST SRC CMD LEN follow A5. *)
TakeA5(b, mark) ==
  IF Len(b) < mark + 5 THEN NeedMore
  ELSE LET total == mark + 5 + b[mark + 5] + 2
       IN  IF Len(b) < total THEN NeedMore
           ELSE Took(total, "A5", VerifyA5(SubSeq(b, 1, total), mark))

(* Mutant: an STX without an ETX is waited on for ever. *)
TakeChlorWaits(b) ==
  LET etx == FindIn(b, Etx, 3, Len(b))
  IN  IF etx = 0 THEN NeedMore
      ELSE IF etx < 6 THEN Advanced
      ELSE Took(etx + 1, "IntelliChlor", VerifyChlor(SubSeq(b, 1, etx + 1)))

(* try_take_intellichlor: at index 1 the code's `etx < stx_index + 5` is      *)
(* etx < 6.                                                                  *)
TakeChlor(b) ==
  LET etx == FindIn(b, Etx, 3, IF Len(b) < IcMax THEN Len(b) ELSE IcMax)
  IN  IF etx = 0 THEN (IF Len(b) >= IcMax THEN Advanced ELSE NeedMore)
      ELSE IF etx < 6 THEN Advanced
      ELSE Took(etx + 1, "IntelliChlor", VerifyChlor(SubSeq(b, 1, etx + 1)))

Drop(b, n) == SubSeq(b, n + 1, Len(b))

(* Mutant: too short a tail is kept for a sync that straddles two feeds.     *)
TailTooShort(b) == IF Len(b) > 1 THEN Drop(b, Len(b) - 1) ELSE b

TailKept(b) == IF Len(b) > 4 THEN Drop(b, Len(b) - 4) ELSE b

(* One turn of the loop of drain.  A turn that ends it changes nothing when   *)
(* it is taken again.                                                        *)
Turn(s) ==
  LET b     == s.buf
      syncs == EarliestSync(b)
      sync  == CHOOSE h \in syncs : TRUE
      took  == IF sync.kind = "A5" THEN TakeA5(b, sync.mark) ELSE TakeChlor(b)
  IN  IF b = <<>> \/ syncs = {} THEN [s EXCEPT !.buf = TailKept(b)]
      ELSE IF sync.first > 1 THEN [s EXCEPT !.buf = Drop(b, sync.first - 1)]
      ELSE IF took.take = "more" THEN s
      ELSE IF took.take = "drop" THEN [s EXCEPT !.buf = Drop(b, 1)]
      ELSE [buf    |-> Drop(b, took.n),
            frames |-> Append(s.frames, [kind |-> took.kind, raw |-> SubSeq(b, 1, took.n),
                                         checksum_ok |-> took.ok])]

(* drain: every turn but the last takes a byte off the buffer or more, so     *)
(* there are no more turns than bytes.                                       *)
Drain(b) ==
  LET after[n \in 0..Len(b)] ==
        IF n = 0 THEN [buf |-> b, frames |-> <<>>] ELSE Turn(after[n - 1])
  IN  after[Len(b)]
-----------------------------------------------------------------------------
(* What the pieces of a plan are, as framer.rs and its tests draw them. *)
IsFrame(piece) == piece.kind \in {"A5", "IntelliChlor"}
FrameIn(piece) == [kind |-> piece.kind, raw |-> piece.bytes, checksum_ok |-> piece.ok]

EndIn(p, i)   == SumOf([k \in 1..i |-> Len(p[k].bytes)])
StartIn(p, i) == EndIn(p, i) - Len(p[i].bytes)

(* Preamble, A5 header, LEN bytes of payload, checksum. *)
IsA5Piece(piece) ==
  LET raw == piece.bytes IN
  \E k \in {1, 2} :
    /\ Len(raw) >= k + 9 /\ At(raw, k, SyncShort) /\ (k = 2 => raw[1] = FF)
    /\ Len(raw) = k + 9 + raw[k + 7]
    /\ piece.ok = VerifyA5(raw, k + 2)

(* STX, data, checksum, ETX and no other ETX. *)
IsChlorPiece(piece) ==
  LET raw == piece.bytes IN
  /\ Len(raw) \in 7..IcMax /\ At(raw, 1, Stx) /\ FindIn(raw, Etx, 3, Len(raw)) = Len(raw) - 1
  /\ piece.ok = VerifyChlor(raw)

SyncsOf(bytes) == Occurrences(bytes, SyncShort) \cup Occurrences(bytes, Stx)

(* A sync that a piece begins with. *)
Opens(p, i, q) ==
  LET from == StartIn(p, i) IN
  \/ q = from + 1
  \/ q = from + 2 /\ At(StreamOf(p), q, SyncShort) /\ StreamOf(p)[q - 1] = FF

(* A frame without the leading FF is not told from one with it if an FF that  *)
(* is not part of a frame comes before it.                                   *)
ToldFromFF(p, i) ==
  p[i].kind # "noise" /\ p[i].bytes[1] = 0 /\ i > 1 => StreamOf(p)[StartIn(p, i)] # FF

(* A plan is plain if nothing but the beginning of a piece looks like a sync. *)
IsPlain(p) ==
  /\ \A q \in SyncsOf(StreamOf(p)) : \E i \in DOMAIN p : p[i].kind # "noise" /\ Opens(p, i, q)
  /\ \A i \in DOMAIN p : ToldFromFF(p, i)

ASSUME PlanAssumption ==
  \A p \in Plans : \A i \in DOMAIN p :
    /\ p[i].bytes # <<>>
    /\ p[i].kind = "A5" => IsA5Piece(p[i])
    /\ p[i].kind = "IntelliChlor" => IsChlorPiece(p[i])
    /\ p[i].kind = "noise" =>
         SyncsOf(StreamOf(p)) \cap (StartIn(p, i) + 1)..EndIn(p, i) = {}
    /\ i > 1 /\ p[i - 1].kind = "noise" => ToldFromFF(p, i)
-----------------------------------------------------------------------------
FramerInit ==
  /\ plan \in Plans
  /\ pos = 0 /\ buf = <<>> /\ out = <<>> /\ start = <<0>>

(* Framer::feed, with the next n bytes. *)
Feed ==
  \E n \in 1..(Len(Stream) - pos) :
    LET drained == Drain(buf \o SubSeq(Stream, pos + 1, pos + n))
    IN  /\ pos' = pos + n
        /\ buf' = drained.buf /\ out' = out \o drained.frames
        /\ UNCHANGED <<plan, start>>

(* Mutant: a reconnect keeps what was in the buffer. *)
ResetKeepsBuffer ==
  /\ Len(start) <= MaxResets /\ pos \in 1..(Len(Stream) - 1)
  /\ out' = <<>> /\ start' = Append(start, pos)
  /\ UNCHANGED <<plan, pos, buf>>

(* Framer::reset, when BusActor connects again. *)
Reset ==
  /\ Len(start) <= MaxResets /\ pos \in 1..(Len(Stream) - 1)
  /\ buf' = <<>> /\ out' = <<>> /\ start' = Append(start, pos)
  /\ UNCHANGED <<plan, pos>>

FramerNext == Feed \/ Reset

FramerSpec == FramerInit /\ [][FramerNext]_framerVars
-----------------------------------------------------------------------------
(* What the session has been fed, and where the pieces of the plan lie. *)
Session == SubSeq(Stream, Last(start) + 1, pos)

EndOf(i)   == EndIn(plan, i)
StartOf(i) == StartIn(plan, i)

(* The frames of the plan that begin at or after a byte and have been read.  *)
SentSince(from) ==
  LET sent[i \in 0..Len(plan)] ==
        IF i = 0 THEN <<>>
        ELSE IF IsFrame(plan[i]) /\ StartOf(i) >= from /\ EndOf(i) <= pos
          THEN Append(sent[i - 1], FrameIn(plan[i]))
        ELSE sent[i - 1]
  IN  sent[Len(plan)]

FramerTypes ==
  /\ plan \in Plans /\ pos \in 0..Len(Stream)
  /\ start \in Seq(0..pos) /\ Len(start) \in 1..(MaxResets + 1)
  /\ Len(buf) <= Len(Session)
  /\ \A k \in DOMAIN out : out[k].kind \in {"A5", "IntelliChlor"}

(* How a transport cuts the bytes into reads does not matter: the frames are *)
(* those the same bytes give when they are fed at once, and what waits in    *)
(* the buffer is the same.                                                   *)
ChunkingIrrelevant ==
  LET once == Drain(Session) IN out = once.frames /\ buf = once.buf

(* When a feed returns, less than one frame waits: a tail in which no sync   *)
(* begins, the beginning of the A5 frame its LEN announces, or an STX that   *)
(* has not yet waited IC_MAX_FRAME bytes for its ETX.                        *)
LessThanOneFrameWaits ==
  \/ Len(buf) <= 4
  \/ \E h \in A5Syncs(buf) :
       h.first = 1 /\ (Len(buf) < h.mark + 5 \/ Len(buf) < h.mark + 7 + buf[h.mark + 5])
  \/ At(buf, 1, Stx) /\ Len(buf) < IcMax

(* A bus that carries nothing but frames and idle bytes: every frame read     *)
(* whole is given, in order, with the bytes that were sent and the verdict on *)
(* its checksum, whatever its payload looks like.  After a reset in the       *)
(* middle of a frame, that frame may be given too, without its leading FF.    *)
WholeFramesGiven ==
  LET sent  == SentSince(Last(start))
      whole == \A i \in DOMAIN plan : plan[i].kind # "cut"
  IN  /\ whole /\ start = <<0>> => out = sent
      /\ whole /\ IsPlain(plan) => IsSuffix(sent, out) /\ Len(out) <= Len(sent) + 1

(* Where the bytes end that a frame cut short may swallow: at the length it   *)
(* announces, counted with what follows it on the bus, or at IC_MAX_FRAME.    *)
Horizon(i) ==
  LET onwards == Drop(Stream, StartOf(i))
      lengths == {h.mark + 7 + onwards[h.mark + 5] :
                    h \in {k \in A5Syncs(onwards) : k.first = 1 /\ Len(onwards) >= k.mark + 5}}
  IN  StartOf(i) + (CHOOSE n \in lengths \cup {IcMax} : \A k \in lengths \cup {IcMax} : k <= n)

(* A frame cut short costs the frames that it runs into and no others: those  *)
(* beyond its horizon are given, as long as no payload looks like a sync.     *)
Resynchronises ==
  start = <<0>> /\ IsPlain(plan) =>
    \A i \in DOMAIN plan :
      {k \in DOMAIN plan : plan[k].kind = "cut"} = {i} =>
        IsSuffix(SentSince(Horizon(i)), out)
=============================================================================
