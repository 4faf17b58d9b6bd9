--------------------------- MODULE MessagesProofs ---------------------------
(* A report on the bus is decoded to the values that were sent, and a request *)
(* is sent as the bytes that say what it means: for every report and request. *)
(* Both rest on what FramerProofs shows of the framer.                       *)
EXTENDS CommandRequests, SequenceTheorems, TLAPS

(* The framer of Messages, with what is proved about it. *)
F == INSTANCE FramerProofs WITH Plans <- {}, IcMax <- 64, MaxResets <- 0,
                                plan <- <<>>, pos <- 0, buf <- <<>>, out <- <<>>,
                                start <- <<0>>

(* Bus and F are two instances of the same framer: their operators agree.    *)
LEMMA SameFindIn ==
  ASSUME NEW b, NEW m, NEW f, NEW t
  PROVE  Bus!FindIn(b, m, f, t) = F!FindIn(b, m, f, t)
  BY Zenon DEF Bus!FindIn, F!FindIn, Bus!Occurrences, F!Occurrences, Bus!At, F!At

LEMMA SameSumOf ==
  ASSUME NEW b
  PROVE  Bus!SumOf(b) = F!SumOf(b)
  BY Zenon DEF Bus!SumOf, F!SumOf

LEMMA SameEarliestSync ==
  ASSUME NEW b
  PROVE  Bus!EarliestSync(b) = F!EarliestSync(b)
<1>1. Bus!FindIn(b, Bus!SyncShort, 1, Len(b)) = F!FindIn(b, F!SyncShort, 1, Len(b))
  BY SameFindIn DEF Bus!SyncShort, F!SyncShort, Bus!FF, F!FF
<1>2. Bus!FindIn(b, Bus!Stx, 1, Len(b)) = F!FindIn(b, F!Stx, 1, Len(b))
  BY SameFindIn DEF Bus!Stx, F!Stx
<1>3. Bus!A5Syncs(b) = F!A5Syncs(b)
  BY <1>1 DEF Bus!A5Syncs, F!A5Syncs, Bus!Hit, F!Hit, Bus!FF, F!FF
<1>4. Bus!ChlorSyncs(b) = F!ChlorSyncs(b)
  BY <1>2 DEF Bus!ChlorSyncs, F!ChlorSyncs, Bus!Hit, F!Hit, Bus!FF, F!FF
<1> QED BY <1>3, <1>4 DEF Bus!EarliestSync, F!EarliestSync

LEMMA SameTakeA5 ==
  ASSUME NEW b, NEW m
  PROVE  Bus!TakeA5(b, m) = F!TakeA5(b, m)
<1>1. ASSUME NEW r PROVE Bus!VerifyA5(r, m) = F!VerifyA5(r, m)
  BY SameSumOf DEF Bus!VerifyA5, F!VerifyA5
<1> QED BY <1>1 DEF Bus!TakeA5, F!TakeA5, Bus!NeedMore, F!NeedMore, Bus!Took, F!Took

LEMMA SameTakeChlor ==
  ASSUME NEW b
  PROVE  Bus!TakeChlor(b) = F!TakeChlor(b)
<1>1. ASSUME NEW r PROVE Bus!VerifyChlor(r) = F!VerifyChlor(r)
  BY SameSumOf DEF Bus!VerifyChlor, F!VerifyChlor
<1>2. Bus!FindIn(b, Bus!Etx, 3, IF Len(b) < 64 THEN Len(b) ELSE 64)
        = F!FindIn(b, F!Etx, 3, IF Len(b) < 64 THEN Len(b) ELSE 64)
  BY SameFindIn DEF Bus!Etx, F!Etx
<1> QED BY <1>1, <1>2 DEF Bus!TakeChlor, F!TakeChlor, Bus!NeedMore, F!NeedMore,
                          Bus!Took, F!Took, Bus!Advanced, F!Advanced

LEMMA SameTurn ==
  ASSUME NEW s
  PROVE  Bus!Turn(s) = F!Turn(s)
<1>1. \A n : Bus!Drop(s.buf, n) = F!Drop(s.buf, n)
  BY DEF Bus!Drop, F!Drop
<1>2. Bus!TailKept(s.buf) = F!TailKept(s.buf)
  BY <1>1 DEF Bus!TailKept, F!TailKept
<1>3. Bus!EarliestSync(s.buf) = F!EarliestSync(s.buf)
  BY SameEarliestSync
<1>4. \A m : Bus!TakeA5(s.buf, m) = F!TakeA5(s.buf, m)
  BY SameTakeA5
<1>5. Bus!TakeChlor(s.buf) = F!TakeChlor(s.buf)
  BY SameTakeChlor
<1> DEFINE syncs == F!EarliestSync(s.buf)
           sync  == CHOOSE h \in syncs : TRUE
           took  == IF sync.kind = "A5" THEN F!TakeA5(s.buf, sync.mark) ELSE F!TakeChlor(s.buf)
           next  == IF s.buf = <<>> \/ syncs = {} THEN [s EXCEPT !.buf = F!TailKept(s.buf)]
                    ELSE IF sync.first > 1
                      THEN [s EXCEPT !.buf = F!Drop(s.buf, sync.first - 1)]
                    ELSE IF took.take = "more" THEN s
                    ELSE IF took.take = "drop" THEN [s EXCEPT !.buf = F!Drop(s.buf, 1)]
                    ELSE [buf    |-> F!Drop(s.buf, took.n),
                          frames |-> Append(s.frames,
                                            [kind |-> took.kind,
                                             raw |-> SubSeq(s.buf, 1, took.n),
                                             checksum_ok |-> took.ok])]
<1>6. F!Turn(s) = next
  BY Zenon DEF F!Turn
<1> DEFINE bsyncs == Bus!EarliestSync(s.buf)
           bsync  == CHOOSE h \in bsyncs : TRUE
           btook  == IF bsync.kind = "A5" THEN Bus!TakeA5(s.buf, bsync.mark)
                     ELSE Bus!TakeChlor(s.buf)
           bnext  == IF s.buf = <<>> \/ bsyncs = {} THEN [s EXCEPT !.buf = Bus!TailKept(s.buf)]
                     ELSE IF bsync.first > 1
                       THEN [s EXCEPT !.buf = Bus!Drop(s.buf, bsync.first - 1)]
                     ELSE IF btook.take = "more" THEN s
                     ELSE IF btook.take = "drop" THEN [s EXCEPT !.buf = Bus!Drop(s.buf, 1)]
                     ELSE [buf    |-> Bus!Drop(s.buf, btook.n),
                           frames |-> Append(s.frames,
                                             [kind |-> btook.kind,
                                              raw |-> SubSeq(s.buf, 1, btook.n),
                                              checksum_ok |-> btook.ok])]
<1>7. Bus!Turn(s) = bnext
  BY Zenon DEF Bus!Turn
<1>8. bsyncs = syncs
  BY <1>3
<1>9. bsync = sync
  BY <1>8
<1>10. btook = took
  <2>1. bsync = sync /\ sync.mark = bsync.mark
    BY <1>9
  <2> HIDE DEF bsync, sync
  <2> QED BY <1>4, <1>5, <2>1, Zenon
<1> HIDE DEF bsyncs, bsync, btook, syncs, sync, took
<1>11. bnext = next
  <2>1. Bus!Drop(s.buf, sync.first - 1) = F!Drop(s.buf, sync.first - 1)
        /\ Bus!Drop(s.buf, 1) = F!Drop(s.buf, 1)
        /\ Bus!Drop(s.buf, took.n) = F!Drop(s.buf, took.n)
    BY <1>1
  <2> QED BY <1>2, <1>8, <1>9, <1>10, <2>1
<1> QED BY <1>6, <1>7, <1>11

LEMMA SameDrain ==
  ASSUME NEW b
  PROVE  Bus!Drain(b) = F!Drain(b)
  BY SameTurn, Zenon DEF Bus!Drain, F!Drain

(* What FramerProofs assumes of its constants holds of the framer of Messages. *)
LEMMA Sizes == 64 \in Nat /\ 64 > 8 /\ 0 \in Nat
  OBVIOUS

LEMMA SameSyncsOf ==
  ASSUME NEW b
  PROVE  Bus!SyncsOf(b) = F!SyncsOf(b)
  BY Zenon DEF Bus!SyncsOf, F!SyncsOf, Bus!Occurrences, F!Occurrences, Bus!At, F!At,
     Bus!SyncShort, F!SyncShort, Bus!Stx, F!Stx, Bus!FF, F!FF

LEMMA OctetIs ==
  ASSUME NEW i
  PROVE  i \in F!Octets <=> (i \in Nat /\ i < 256)
  BY DEF F!Octets

(* The two bytes of a checksum say it. *)
LEMMA TwoBytesOf ==
  ASSUME NEW cs \in Nat, cs < 65536
  PROVE  /\ cs \div 256 \in F!Octets /\ cs % 256 \in F!Octets
         /\ (cs \div 256) * 256 + (cs % 256) = cs
<1>1. /\ cs \div 256 \in Nat /\ cs \div 256 < 256 /\ cs % 256 \in Nat /\ cs % 256 < 256
      /\ (cs \div 256) * 256 + (cs % 256) = cs
  OBVIOUS
<1> QED BY <1>1, OctetIs

LEMMA SameChecksum ==
  ASSUME NEW b
  PROVE  Checksum(b) = F!SumOf(b) % 65536
  BY SameSumOf DEF Checksum

LEMMA SumTyped ==
  ASSUME NEW b \in F!Bytes
  PROVE  Checksum(b) \in Nat /\ Checksum(b) < 65536
<1>1. b \in Seq(Nat)
  <2>1. b \in Seq(F!Octets) /\ \A i \in F!Octets : i \in Nat
    BY OctetIs DEF F!Bytes
  <2>2. Len(b) \in Nat /\ DOMAIN b = 1..Len(b) /\ b \in [1..Len(b) -> F!Octets]
    BY <2>1
  <2> QED BY <2>1, <2>2
<1>2. F!SumOf(b) \in Nat
  <2>1. PICK g \in [0..Len(b) -> Nat] : F!SumOf(b) = g[Len(b)]
    BY <1>1, F!SumIs
  <2>2. Len(b) \in 0..Len(b)
    BY <1>1
  <2> QED BY <2>1, <2>2, Zenon
<1> QED BY <1>2, SameChecksum

IsPreamble(p, k) ==
  /\ k \in {1, 2} /\ p \in F!Bytes /\ Len(p) = k + 1
  /\ p[k] = 0 /\ p[k + 1] = 255 /\ (k = 2 => p[1] = 255)

LEMMA PreambleIs == IsPreamble(<<0, 255>>, 1) /\ IsPreamble(<<255, 0, 255>>, 2)
<1>1. 0 \in F!Octets /\ 255 \in F!Octets
  BY OctetIs
<1>2. IsPreamble(<<0, 255>>, 1)
  BY <1>1 DEF IsPreamble, F!Bytes
<1>3. IsPreamble(<<255, 0, 255>>, 2)
  BY <1>1 DEF IsPreamble, F!Bytes
<1> QED BY <1>2, <1>3

LEMMA PairIs ==
  ASSUME NEW a \in F!Octets, NEW b \in F!Octets
  PROVE  <<a, b>> \in F!Bytes /\ Len(<<a, b>>) = 2 /\ <<a, b>>[1] = a /\ <<a, b>>[2] = b
  BY DEF F!Bytes

LEMMA HeadIs ==
  ASSUME NEW a \in F!Octets, NEW b \in F!Octets, NEW c \in F!Octets, NEW d \in F!Octets,
         NEW e \in F!Octets, NEW f \in F!Octets
  PROVE  /\ <<a, b, c, d, e, f>> \in F!Bytes /\ Len(<<a, b, c, d, e, f>>) = 6
         /\ <<a, b, c, d, e, f>>[1] = a /\ <<a, b, c, d, e, f>>[5] = e
         /\ <<a, b, c, d, e, f>>[6] = f
  BY DEF F!Bytes

(* Two sequences of bytes joined: what lies where. *)
Joins(x, p, m, a, b) ==
  /\ x \in F!Bytes /\ Len(x) = a + b
  /\ \A i \in 1..a : x[i] = p[i]
  /\ \A i \in 1..b : x[a + i] = m[i]

LEMMA JoinedIs ==
  ASSUME NEW p \in F!Bytes, NEW m \in F!Bytes
  PROVE  Joins(p \o m, p, m, Len(p), Len(m))
<1> DEFINE x == p \o m
<1>1. /\ x \in F!Bytes /\ Len(x) = Len(p) + Len(m) /\ F!Begins(p, x)
      /\ \A i \in 1..Len(m) : x[Len(p) + i] = m[i]
  BY F!JoinIs, Sizes, Zenon
<1> QED BY <1>1, Zenon DEF F!Begins, Joins

(* What the byte level finds in a frame: where its A5 stands, and its fields. *)
IsFramed(x, k, command, payload) ==
  /\ x \in F!Bytes /\ Len(x) = k + 9 + Len(payload)
  /\ F!ShortAt(x, k) /\ (k = 2 => x[1] = 255)
  /\ x[k + 6] = command /\ x[k + 7] = Len(payload)
  /\ \A j \in 1..Len(payload) : x[k + 7 + j] = payload[j]
  /\ F!VerifyA5(x, k + 2)

(* Preamble, body and checksum joined. *)
Laid(x, p, m, t, k, n) ==
  /\ Len(x) = k + 9 + n
  /\ \A i \in 1..(k + 1) : x[i] = p[i]
  /\ \A i \in 1..(n + 6) : x[k + 1 + i] = m[i]
  /\ x[k + n + 8] = t[1] /\ x[k + n + 9] = t[2]

LEMMA ThreeJoined ==
  ASSUME NEW p, NEW m, NEW t, NEW w, NEW x, NEW k \in {1, 2}, NEW n \in Nat,
         Joins(w, p, m, k + 1, n + 6), Joins(x, w, t, k + n + 7, 2)
  PROVE  Laid(x, p, m, t, k, n)
<1> DEFINE l == k + n + 7
<1>1. l \in Nat /\ k + 1 + (n + 6) = l /\ l + 1 = k + n + 8 /\ l + 2 = k + n + 9
      /\ k + 9 + n = l + 2
  OBVIOUS
<1>2. \A i \in 1..(k + 1) : i \in 1..l
  OBVIOUS
<1>3. \A i \in 1..(n + 6) : k + 1 + i \in 1..l
  OBVIOUS
<1>4. 1 \in 1..2 /\ 2 \in 1..2
  OBVIOUS
<1>5. /\ \A i \in 1..(k + 1) : w[i] = p[i]
      /\ \A i \in 1..(n + 6) : w[k + 1 + i] = m[i]
  BY Zenon DEF Joins
<1>6. Len(x) = l + 2 /\ (\A i \in 1..l : x[i] = w[i]) /\ (\A i \in 1..2 : x[l + i] = t[i])
  BY Zenon DEF Joins
<1> HIDE DEF l
<1>7. \A i \in 1..(k + 1) : x[i] = p[i]
  BY <1>2, <1>5, <1>6, Zenon
<1>8. \A i \in 1..(n + 6) : x[k + 1 + i] = m[i]
  BY <1>3, <1>5, <1>6, Zenon
<1>9. x[l + 1] = t[1] /\ x[l + 2] = t[2]
  BY <1>4, <1>6, Zenon
<1> QED BY <1>1, <1>6, <1>7, <1>8, <1>9, Zenon DEF Laid

(* The body of a frame, from its A5 to the end of its payload. *)
IsBody(m, command, payload) ==
  /\ m \in F!Bytes /\ Len(m) = Len(payload) + 6 /\ Len(payload) \in Nat
  /\ m[1] = 165 /\ m[5] = command /\ m[6] = Len(payload)
  /\ \A j \in 1..Len(payload) : m[6 + j] = payload[j]

IsHead(head, command, n) ==
  /\ head \in F!Bytes /\ Len(head) = 6
  /\ head[1] = 165 /\ head[5] = command /\ head[6] = n

LEMMA BodyIs ==
  ASSUME NEW head, NEW payload, NEW command, NEW m, IsHead(head, command, Len(payload)),
         Len(payload) \in Nat, Joins(m, head, payload, 6, Len(payload))
  PROVE  IsBody(m, command, payload)
<1>1. 1 \in 1..6 /\ 5 \in 1..6 /\ 6 \in 1..6 /\ \A i \in Nat : 6 + i = i + 6
  OBVIOUS
<1>2. m[1] = head[1] /\ m[5] = head[5] /\ m[6] = head[6]
  BY <1>1, Zenon DEF Joins
<1>3. Len(m) = Len(payload) + 6
  BY <1>1, Zenon DEF Joins
<1> QED BY <1>2, <1>3, Zenon DEF Joins, IsBody, IsHead

(* A checksum in two bytes. *)
Word(a, b) == a * 256 + b

IsTail(t, cs) == t \in F!Bytes /\ Len(t) = 2 /\ Word(t[1], t[2]) = cs

LEMMA VerifyIs ==
  ASSUME NEW b, NEW mark
  PROVE  F!VerifyA5(b, mark)
           <=> Checksum(SubSeq(b, mark, Len(b) - 2)) = Word(b[Len(b) - 1], b[Len(b)])
  BY SameChecksum DEF F!VerifyA5, Word

LEMMA TailOf ==
  ASSUME NEW a \in F!Octets, NEW b \in F!Octets, NEW cs, Word(a, b) = cs
  PROVE  IsTail(<<a, b>>, cs)
<1>1. <<a, b>> \in F!Bytes /\ Len(<<a, b>>) = 2 /\ <<a, b>>[1] = a /\ <<a, b>>[2] = b
  BY PairIs
<1> DEFINE t == <<a, b>>
<1>2. t \in F!Bytes /\ Len(t) = 2 /\ t[1] = a /\ t[2] = b
  BY <1>1
<1> HIDE DEF t
<1>3. IsTail(t, cs)
  BY <1>2, Zenon DEF IsTail
<1> QED BY <1>3 DEF t

LEMMA TailIs ==
  ASSUME NEW cs \in Nat, cs < 65536
  PROVE  IsTail(<<cs \div 256, cs % 256>>, cs)
<1>1. /\ cs \div 256 \in F!Octets /\ cs % 256 \in F!Octets
      /\ Word(cs \div 256, cs % 256) = cs
  BY TwoBytesOf DEF Word
<1> QED BY <1>1, TailOf

(* What three parts make is a frame. *)
LEMMA PartsMakeFrame ==
  ASSUME NEW p, NEW k, IsPreamble(p, k), NEW m, NEW command, NEW payload,
         IsBody(m, command, payload), NEW t, IsTail(t, Checksum(m)),
         NEW w, NEW x, Joins(w, p, m, k + 1, Len(m)), Joins(x, w, t, Len(w), 2)
  PROVE  IsFramed(x, k, command, payload)
<1> DEFINE n == Len(payload)
<1>1. /\ n \in Nat /\ m \in F!Bytes /\ Len(m) = n + 6
      /\ m[1] = 165 /\ m[5] = command /\ m[6] = n
      /\ \A j \in 1..n : m[6 + j] = payload[j]
  BY Zenon DEF IsBody
<1>2. /\ k \in {1, 2} /\ p[k] = 0 /\ p[k + 1] = 255 /\ (k = 2 => p[1] = 255)
  BY Zenon DEF IsPreamble
<1> HIDE DEF n
<1>3. /\ Len(x) = k + 9 + n
      /\ \A i \in 1..(k + 1) : x[i] = p[i]
      /\ \A i \in 1..(n + 6) : x[k + 1 + i] = m[i]
      /\ x[k + n + 8] = t[1] /\ x[k + n + 9] = t[2]
  <2>1. Joins(w, p, m, k + 1, n + 6)
    BY <1>1, Zenon
  <2>2. Len(w) = k + 1 + (n + 6)
    BY <2>1, Zenon DEF Joins
  <2>3. k + 1 + (n + 6) = k + n + 7
    BY <1>1, <1>2
  <2>4. Joins(x, w, t, k + n + 7, 2)
    BY <2>2, <2>3, Zenon
  <2>5. n \in Nat /\ k \in {1, 2}
    BY <1>1, <1>2
  <2>6. Laid(x, p, m, t, k, n)
    BY <2>1, <2>4, <2>5, ThreeJoined, Zenon
  <2> QED BY <2>6, Zenon DEF Laid
<1>4. x \in F!Bytes
  BY Zenon DEF Joins
<1>5. F!ShortAt(x, k) /\ (k = 2 => x[1] = 255)
  <2>1. x[k] = 0 /\ x[k + 1] = 255 /\ (k = 2 => x[1] = 255)
    <3>1. k \in 1..(k + 1) /\ k + 1 \in 1..(k + 1) /\ 1 \in 1..(k + 1)
      BY <1>2
    <3> QED BY <1>2, <1>3, <3>1, Zenon
  <2>2. x[k + 1 + 1] = 165
    <3>1. 1 \in 1..(n + 6)
      BY <1>1
    <3> QED BY <1>1, <1>3, <3>1, Zenon
  <2>3. k + 1 + 1 = k + 2
    BY <1>2
  <2>4. x[k + 2] = 165
    BY <2>2, <2>3, Zenon
  <2> QED BY <2>1, <2>4 DEF F!ShortAt, F!FF
<1>6. x[k + 6] = command /\ x[k + 7] = n
  <2>1. 5 \in 1..(n + 6) /\ 6 \in 1..(n + 6)
    BY <1>1
  <2>2. x[k + 1 + 5] = command /\ x[k + 1 + 6] = n
    BY <1>1, <1>3, <2>1, Zenon
  <2>3. k + 1 + 5 = k + 6 /\ k + 1 + 6 = k + 7
    BY <1>2
  <2> QED BY <2>2, <2>3, Zenon
<1>7. ASSUME NEW j \in 1..n PROVE x[k + 7 + j] = payload[j]
  <2>1. 6 + j \in 1..(n + 6) /\ k + 1 + (6 + j) = k + 7 + j
    BY <1>1, <1>2
  <2>2. x[k + 1 + (6 + j)] = m[6 + j]
    BY <1>3, <2>1, Zenon
  <2> QED BY <1>1, <2>1, <2>2, Zenon
<1>8. F!VerifyA5(x, k + 2)
  <2> DEFINE l == Len(x)
             y == SubSeq(x, k + 2, l - 2)
             a == k + 1
             e == k + n + 7
  <2>1. l - 1 = k + n + 8 /\ l - 2 = e /\ l = k + n + 9 /\ a + 1 = k + 2
        /\ a \in Nat /\ e \in Nat /\ a <= e /\ e <= l /\ e - a = n + 6
    BY <1>1, <1>2, <1>3
  <2>2. y = F!Part(x, a, e)
    BY <2>1, Zenon DEF F!Part
  <2>3. \A i \in 1..(n + 6) : x[a + i] = m[i]
    BY <1>3, Zenon
  <2>5. x[l - 1] = t[1] /\ x[l] = t[2]
    BY <1>3, <2>1, Zenon
  <2>6. l = Len(x) /\ y = SubSeq(x, k + 2, l - 2)
    OBVIOUS
  <2> HIDE DEF y, a, e, l
  <2>7. y \in F!Bytes /\ Len(y) = n + 6 /\ \A i \in 1..(n + 6) : y[i] = x[a + i]
    <3>1. /\ F!Part(x, a, e) \in F!Bytes /\ Len(F!Part(x, a, e)) = e - a
          /\ \A i \in 1..(e - a) : F!Part(x, a, e)[i] = x[a + i]
      <4>1. x \in F!Bytes /\ a \in Nat /\ e \in Nat /\ a <= e /\ e <= Len(x)
        BY <1>4, <2>1, <2>6
      <4> HIDE <1>1, <1>2, <1>3, <2>1
      <4> QED BY <4>1, F!PartIs, Sizes
    <3>2. e - a = n + 6
      BY <2>1
    <3> QED BY <2>2, <3>1, <3>2, Zenon
  <2>8. y = m
    <3>1. \A i \in 1..(n + 6) : y[i] = m[i]
      BY <2>3, <2>7, Zenon
    <3> QED BY <1>1, <2>7, <3>1, F!SameBytes, Sizes, Zenon
  <2>9. Checksum(y) = Word(x[l - 1], x[l])
    BY <2>5, <2>8, Zenon DEF IsTail
  <2> QED BY <2>6, <2>9, VerifyIs, Zenon
<1> QED BY <1>3, <1>4, <1>5, <1>6, <1>7, <1>8, Zenon DEF IsFramed, n

(* Preamble, body and checksum. *)
Built(preamble, m) == preamble \o m \o <<Checksum(m) \div 256, Checksum(m) % 256>>

LEMMA BuildIs ==
  ASSUME NEW protocol, NEW destination, NEW source, NEW command, NEW payload, NEW preamble
  PROVE  BuildA5(protocol, destination, source, command, payload, preamble) =
           Built(preamble, <<165, protocol, destination, source, command, Len(payload)>>
                             \o payload)
  BY Zenon DEF BuildA5, Built

LEMMA BuiltIsFramed ==
  ASSUME NEW protocol \in F!Octets, NEW destination \in F!Octets, NEW source \in F!Octets,
         NEW command \in F!Octets, NEW payload \in F!Bytes, Len(payload) <= 255,
         NEW preamble, NEW k, IsPreamble(preamble, k)
  PROVE  IsFramed(BuildA5(protocol, destination, source, command, payload, preamble),
                  k, command, payload)
<1> DEFINE head == <<165, protocol, destination, source, command, Len(payload)>>
           m == head \o payload
           w == preamble \o m
           cs == Checksum(m)
           t == <<cs \div 256, cs % 256>>
           x == w \o t
<1>1. Len(payload) \in Nat /\ Len(payload) \in F!Octets /\ 165 \in F!Octets
  <2>1. Len(payload) \in Nat
    BY DEF F!Bytes
  <2> QED BY <2>1, OctetIs
<1>2. IsHead(head, command, Len(payload))
  BY <1>1, HeadIs DEF IsHead
<1>3. x = BuildA5(protocol, destination, source, command, payload, preamble)
  BY BuildIs, Zenon DEF Built
<1>4. m = head \o payload /\ w = preamble \o m /\ cs = Checksum(m)
      /\ t = <<cs \div 256, cs % 256>> /\ x = w \o t
  OBVIOUS
<1> HIDE DEF head, m, w, cs, t, x
<1>5. Joins(m, head, payload, 6, Len(payload))
  <2>1. Joins(head \o payload, head, payload, Len(head), Len(payload))
    BY <1>2, JoinedIs, Zenon DEF IsHead
  <2> QED BY <1>2, <1>4, <2>1, Zenon DEF IsHead
<1>6. IsBody(m, command, payload)
  BY <1>1, <1>2, <1>5, BodyIs, Zenon
<1>7. m \in F!Bytes
  BY <1>6, Zenon DEF IsBody
<1>8. IsTail(t, cs)
  BY <1>4, <1>7, SumTyped, TailIs
<1>9. Joins(w, preamble, m, k + 1, Len(m))
  <2>1. preamble \in F!Bytes /\ Len(preamble) = k + 1
    BY Zenon DEF IsPreamble
  <2>2. Joins(preamble \o m, preamble, m, Len(preamble), Len(m))
    BY <1>7, <2>1, JoinedIs, Zenon
  <2> QED BY <1>4, <2>1, <2>2, Zenon
<1>10. Joins(x, w, t, Len(w), 2)
  <2>1. w \in F!Bytes
    BY <1>9, Zenon DEF Joins
  <2>2. t \in F!Bytes /\ Len(t) = 2
    BY <1>8, Zenon DEF IsTail
  <2>3. Joins(w \o t, w, t, Len(w), Len(t))
    BY <2>1, <2>2, JoinedIs, Zenon
  <2>4. x = w \o t
    BY <1>4
  <2> QED BY <2>2, <2>3, <2>4, Zenon
<1>11. IsTail(t, Checksum(m))
  BY <1>4, <1>8
<1>12. IsFramed(x, k, command, payload)
  BY <1>6, <1>9, <1>10, <1>11, PartsMakeFrame, Zenon
<1> QED BY <1>3, <1>12

(* n bytes of b, those behind its first a. *)
IsPart(u, b, a, n) ==
  u \in F!Bytes /\ Len(u) = n /\ \A i \in 1..n : u[i] = b[a + i]

LEMMA PartOf ==
  ASSUME NEW b \in F!Bytes, NEW a \in Nat, NEW e \in Nat, a <= e, e <= Len(b)
  PROVE  IsPart(F!Part(b, a, e), b, a, e - a)
  BY F!PartIs, Sizes, Zenon DEF IsPart

(* A short preamble with an FF before it is a long one. *)
LEMMA LongerFrame ==
  ASSUME NEW y, NEW command, NEW payload, IsFramed(y, 1, command, payload),
         Len(payload) \in Nat,
         NEW x \in F!Bytes, Len(x) = Len(y) + 1, x[1] = 255,
         \A i \in 1..Len(y) : x[1 + i] = y[i]
  PROVE  IsFramed(x, 2, command, payload)
<1> DEFINE n == Len(payload)
           l == Len(y)
<1>1. /\ y \in F!Bytes /\ l = 1 + 9 + n /\ F!ShortAt(y, 1)
      /\ y[1 + 6] = command /\ y[1 + 7] = n
      /\ \A j \in 1..n : y[1 + 7 + j] = payload[j]
      /\ F!VerifyA5(y, 1 + 2) /\ n \in Nat
  BY Zenon DEF IsFramed
<1>2. Len(x) = l + 1 /\ \A i \in 1..l : x[1 + i] = y[i]
  OBVIOUS
<1> HIDE DEF n, l
<1>3. Len(x) = 2 + 9 + n
  BY <1>1, <1>2
<1>4. F!ShortAt(x, 2)
  <2>1. 1 \in 1..l /\ 2 \in 1..l /\ 3 \in 1..l
    BY <1>1
  <2>2. x[1 + 1] = y[1] /\ x[1 + 2] = y[2] /\ x[1 + 3] = y[3]
    BY <1>2, <2>1
  <2> QED BY <1>1, <2>2 DEF F!ShortAt
<1>5. x[2 + 6] = command /\ x[2 + 7] = n
  <2>1. 7 \in 1..l /\ 8 \in 1..l
    BY <1>1
  <2>2. x[1 + 7] = y[7] /\ x[1 + 8] = y[8]
    BY <1>2, <2>1
  <2> QED BY <1>1, <2>2
<1>6. ASSUME NEW j \in 1..n PROVE x[2 + 7 + j] = payload[j]
  <2>1. 8 + j \in 1..l /\ 1 + (8 + j) = 2 + 7 + j /\ 1 + 7 + j = 8 + j
    BY <1>1
  <2>2. x[1 + (8 + j)] = y[8 + j]
    BY <1>2, <2>1
  <2> QED BY <1>1, <2>1, <2>2
<1>7. F!VerifyA5(x, 2 + 2)
  <2> DEFINE u == SubSeq(y, 1 + 2, Len(y) - 2)
             v == SubSeq(x, 2 + 2, Len(x) - 2)
  <2>1. Len(y) = l /\ l - 2 \in Nat /\ 2 <= l - 2 /\ 3 <= l - 1 /\ l - 1 <= l + 1
        /\ l - 2 <= l /\ l - 1 \in Nat /\ Len(x) - 2 = l - 1
    BY <1>1, <1>2 DEF l
  <2>2. u = F!Part(y, 2, l - 2) /\ v = F!Part(x, 3, l - 1)
    BY <2>1 DEF F!Part
  <2> HIDE DEF u, v
  <2>3. /\ u \in F!Bytes /\ Len(u) = l - 2 - 2
        /\ \A i \in 1..(l - 2 - 2) : u[i] = y[2 + i]
    <3> DEFINE a == 2
               e == l - 2
    <3>1. /\ y \in F!Bytes /\ a \in Nat /\ e \in Nat /\ a <= e /\ e <= Len(y)
          /\ a = 2 /\ e = l - 2
      BY <1>1, <2>1
    <3> HIDE DEF a, e
    <3>2. IsPart(F!Part(y, a, e), y, a, e - a)
      BY <3>1, PartOf
    <3> QED BY <2>2, <3>1, <3>2, Zenon DEF IsPart
  <2>4. /\ v \in F!Bytes /\ Len(v) = l - 1 - 3
        /\ \A i \in 1..(l - 1 - 3) : v[i] = x[3 + i]
    <3> DEFINE a == 3
               e == l - 1
    <3>1. /\ x \in F!Bytes /\ a \in Nat /\ e \in Nat /\ a <= e /\ e <= Len(x)
          /\ a = 3 /\ e = l - 1
      BY <1>2, <2>1
    <3> HIDE DEF a, e
    <3>2. IsPart(F!Part(x, a, e), x, a, e - a)
      BY <3>1, PartOf
    <3> QED BY <2>2, <3>1, <3>2, Zenon DEF IsPart
  <2>5. Len(u) = Len(v) /\ \A i \in 1..Len(u) : u[i] = v[i]
    <3>1. Len(u) = l - 4 /\ Len(v) = l - 4 /\ l - 2 - 2 = l - 4 /\ l - 1 - 3 = l - 4
      BY <1>1, <2>1, <2>3, <2>4
    <3>2. ASSUME NEW i \in 1..(l - 4) PROVE u[i] = v[i]
      <4>1. 2 + i \in 1..l /\ 1 + (2 + i) = 3 + i
        BY <1>1
      <4> QED BY <1>2, <2>3, <2>4, <3>1, <4>1
    <3> QED BY <3>1, <3>2
  <2>6. u = v
    BY <2>3, <2>4, <2>5, F!SameBytes
  <2>7. x[Len(x) - 1] = y[Len(y) - 1] /\ x[Len(x)] = y[Len(y)]
    <3>1. l - 1 \in 1..l /\ l \in 1..l /\ 1 + (l - 1) = l /\ 1 + l = l + 1 /\ l + 1 - 1 = l
      BY <1>1
    <3> QED BY <1>2, <2>1, <3>1
  <2>8. Checksum(u) = Word(y[Len(y) - 1], y[Len(y)])
    BY <1>1, VerifyIs, Zenon DEF u
  <2>9. Checksum(v) = Word(x[Len(x) - 1], x[Len(x)])
    BY <2>6, <2>7, <2>8, Zenon
  <2> QED BY <2>9, VerifyIs, Zenon DEF v
<1> QED BY <1>3, <1>4, <1>5, <1>6, <1>7, Zenon DEF IsFramed, n

(* What is read of a frame alone. *)
Arrival(x) == [buf    |-> <<>>,
               frames |-> <<[kind |-> "A5", raw |-> x, checksum_ok |-> TRUE]>>]

LEMMA DropOf ==
  ASSUME NEW b \in F!Bytes, NEW l \in Nat, l <= Len(b)
  PROVE  IsPart(F!Drop(b, l), b, l, Len(b) - l)
  BY F!DropIs, Sizes, Zenon DEF IsPart

LEMMA WholeA5 ==
  ASSUME NEW x \in F!Bytes, NEW k \in {1, 2}, F!ShortAt(x, k), k = 2 => x[1] = F!FF,
         Len(x) >= k + 9, Len(x) = k + 9 + x[k + 7]
  PROVE  /\ F!OpensA5(x, 0, k)
         /\ F!Whole(x, [kind |-> "A5", raw |-> x, checksum_ok |-> F!VerifyA5(x, k + 2)])
  BY F!A5Whole, Sizes, Zenon

(* A frame behind bytes that are none arrives alone. *)
IdleTo(b, l) ==
  /\ \A q \in 1..(l - 1) : ~F!PairAt(b, q, 2)
  /\ \A q \in 1..(l - 2) : ~F!ShortAt(b, q)

NotLonger(b, l, k) == k = 1 /\ l > 0 => b[l] # 255

(* A frame that is as long as its LEN says, with a right checksum. *)
IsGood(x, k) ==
  /\ x \in F!Bytes /\ Len(x) >= k + 9 /\ Len(x) = k + 9 + x[k + 7]
  /\ F!ShortAt(x, k) /\ (k = 2 => x[1] = 255) /\ F!VerifyA5(x, k + 2)

LEMMA FramedIsGood ==
  ASSUME NEW x, NEW k \in {1, 2}, NEW command, NEW payload, IsFramed(x, k, command, payload),
         Len(payload) \in Nat
  PROVE  IsGood(x, k)
<1> DEFINE n == Len(payload)
<1>1. /\ x \in F!Bytes /\ Len(x) = k + 9 + n /\ x[k + 7] = n /\ n \in Nat
      /\ F!ShortAt(x, k) /\ (k = 2 => x[1] = 255) /\ F!VerifyA5(x, k + 2)
  BY Zenon DEF IsFramed
<1> HIDE DEF n
<1>2. k + 9 + n >= k + 9
  BY <1>1
<1> QED BY <1>1, <1>2, Zenon DEF IsGood

LEMMA FramedArrives ==
  ASSUME NEW b \in F!Bytes, NEW l \in Nat, l <= Len(b), IdleTo(b, l),
         NEW x, x = F!Drop(b, l), NEW k \in {1, 2}, IsGood(x, k), NotLonger(b, l, k)
  PROVE  Bus!Drain(b).buf = <<>> /\ Bus!Drain(b).frames = Arrival(x).frames
<1>1. /\ x \in F!Bytes /\ Len(x) = Len(b) - l
      /\ \A i \in 1..(Len(b) - l) : x[i] = b[l + i]
  <2>1. IsPart(F!Drop(b, l), b, l, Len(b) - l)
    BY DropOf
  <2> QED BY <2>1, Zenon DEF IsPart
<1>2. /\ Len(x) >= k + 9 /\ Len(x) = k + 9 + x[k + 7]
      /\ F!ShortAt(x, k) /\ (k = 2 => x[1] = 255) /\ F!VerifyA5(x, k + 2)
  BY Zenon DEF IsGood
<1> DEFINE f == [kind |-> "A5", raw |-> x, checksum_ok |-> TRUE]
<1>3. F!OpensA5(x, 0, k) /\ F!Whole(x, f)
  <2>1. /\ k = 2 => x[1] = F!FF
        /\ Len(x) >= k + 9 /\ Len(x) = k + 9 + x[k + 7]
    BY <1>2 DEF F!FF
  <2>2. /\ F!OpensA5(x, 0, k)
        /\ F!Whole(x, [kind |-> "A5", raw |-> x, checksum_ok |-> F!VerifyA5(x, k + 2)])
    BY <1>1, <1>2, <2>1, WholeA5, Zenon
  <2>3. F!VerifyA5(x, k + 2) = TRUE
    BY <1>2 DEF F!VerifyA5
  <2> QED BY <2>2, <2>3, Zenon
<1>4. F!OpensA5(b, l, k)
  <2>1. k = 1 /\ l > 0 => b[l] # F!FF
    BY DEF F!FF, NotLonger
  <2> QED BY <1>3, <2>1, F!OpensBehind
<1>5. F!QuietTo(b, l)
  <2>1. Len(b) >= l + 2 /\ x[1] = b[l + 1] /\ x[2] = b[l + 2]
    <3>1. 1 \in 1..(Len(b) - l) /\ 2 \in 1..(Len(b) - l) /\ Len(b) \in Nat
      BY <1>1, <1>2 DEF F!Bytes
    <3> QED BY <1>1, <3>1
  <2>2. b[l + 1] \in {0, 255} /\ (b[l + 1] = 0 \/ b[l + 2] = 0)
    BY <1>2, <2>1 DEF F!ShortAt, F!FF
  <2>3. ASSUME NEW q \in 1..l PROVE ~F!ShortAt(b, q) /\ ~F!PairAt(b, q, 2)
    <3>1. CASE q = l
      <4>1. b[q + 1] \in {0, 255} /\ (b[q + 1] = 0 \/ b[q + 2] = 0)
        BY <2>2, <3>1
      <4> QED BY <4>1 DEF F!ShortAt, F!PairAt, F!FF
    <3>2. CASE q = l - 1
      <4>1. b[q + 2] \in {0, 255} /\ q \in 1..(l - 1)
        <5>1. q + 2 = l + 1 /\ q \in 1..(l - 1)
          BY <3>2
        <5> QED BY <2>2, <5>1
      <4>2. b[q + 2] # 165
        BY <4>1
      <4>3. ~F!PairAt(b, q, 2)
        BY <4>1, Zenon DEF IdleTo
      <4> QED BY <4>2, <4>3 DEF F!ShortAt
    <3>3. CASE q < l - 1
      <4>1. q \in 1..(l - 1) /\ q \in 1..(l - 2)
        BY <3>3
      <4> QED BY <4>1, Zenon DEF IdleTo
    <3> QED BY <3>1, <3>2, <3>3
  <2> QED BY <2>3, Zenon DEF F!QuietTo, F!SyncAt
<1>6. ~F!NoSync(b) /\ F!Sync(b).first = l + 1
  <2>1. F!OpensFrame(b, l)
    BY <1>4 DEF F!OpensFrame
  <2> QED BY <1>5, <2>1, F!OpenedSync
<1>7. F!Drain(b).frames = <<f>> /\ F!Drain(b).buf = <<>>
  <2>1. F!Whole(F!Drop(b, l), f)
    BY <1>3
  <2> HIDE DEF f
  <2> QED BY <1>6, <2>1, F!WholeGiven
<1> QED BY <1>7, SameDrain, Zenon DEF Arrival

LEMMA IdleIs ==
  ASSUME NEW idle \in F!Bytes, Bus!SyncsOf(idle) = {}, NEW b, F!Begins(idle, b),
         NEW l \in Nat, l <= Len(idle)
  PROVE  IdleTo(b, l)
<1>1. \A q \in 1..Len(idle) : ~F!SyncAt(idle, q)
  <2>1. F!SyncsOf(idle) = {q \in 1..Len(idle) : F!SyncAt(idle, q)}
    BY F!SyncsAre
  <2>2. F!SyncsOf(idle) = {}
    BY SameSyncsOf
  <2> QED BY <2>1, <2>2, Zenon
<1> DEFINE n == Len(idle)
<1>2. n \in Nat /\ l <= n /\ (\A q \in 1..n : ~F!SyncAt(idle, q)) /\ n = Len(idle)
      /\ (\A i \in 1..n : b[i] = idle[i])
  BY <1>1 DEF F!Bytes, F!Begins
<1> HIDE DEF n
<1>3. ASSUME NEW q \in 1..(l - 1) PROVE ~F!PairAt(b, q, 2)
  <2>1. q \in 1..n /\ q + 1 \in 1..n /\ q <= n - 1
    BY <1>2
  <2>2. ~F!PairAt(idle, q, 2)
    BY <1>2, <2>1 DEF F!SyncAt
  <2> QED BY <1>2, <2>1, <2>2 DEF F!PairAt
<1>4. ASSUME NEW q \in 1..(l - 2) PROVE ~F!ShortAt(b, q)
  <2>1. q \in 1..n /\ q + 1 \in 1..n /\ q + 2 \in 1..n /\ q <= n - 2
    BY <1>2
  <2>2. ~F!ShortAt(idle, q)
    BY <1>2, <2>1 DEF F!SyncAt
  <2> QED BY <1>2, <2>1, <2>2 DEF F!ShortAt
<1> QED BY <1>3, <1>4, Zenon DEF IdleTo

(* Behind idle bytes, a frame arrives: with one more FF if the last of them   *)
(* makes a long preamble of its short one.                                   *)
Arrives(b, command, payload) ==
  \E k \in {1, 2}, x \in F!Bytes :
    /\ IsFramed(x, k, command, payload)
    /\ Bus!Drain(b).buf = <<>> /\ Bus!Drain(b).frames = Arrival(x).frames

LEMMA BehindIdle ==
  ASSUME NEW idle \in F!Bytes, Bus!SyncsOf(idle) = {}, NEW k \in {1, 2},
         NEW command, NEW payload \in F!Bytes, NEW y, IsFramed(y, k, command, payload)
  PROVE  Arrives(idle \o y, command, payload)
<1> DEFINE b == idle \o y
           n == Len(idle)
<1>1. n \in Nat /\ Len(payload) \in Nat /\ n = Len(idle)
  BY DEF F!Bytes
<1>2. y \in F!Bytes
  BY Zenon DEF IsFramed
<1>3. Joins(b, idle, y, n, Len(y)) /\ F!Begins(idle, b)
  <2>1. Joins(idle \o y, idle, y, Len(idle), Len(y))
    BY <1>2, JoinedIs
  <2>2. F!Begins(idle, idle \o y)
    BY <1>2, F!JoinIs
  <2> QED BY <2>1, <2>2
<1> HIDE DEF b
<1>4. /\ b \in F!Bytes /\ Len(b) = n + Len(y)
      /\ (\A i \in 1..n : b[i] = idle[i]) /\ (\A i \in 1..Len(y) : b[n + i] = y[i])
  BY <1>3, Zenon DEF Joins
<1>5. Len(y) \in Nat
  BY <1>2 DEF F!Bytes
<1>6. \A l \in Nat : l <= n => IdleTo(b, l) /\ l <= Len(b)
                               /\ IsPart(F!Drop(b, l), b, l, Len(b) - l)
  <2> SUFFICES ASSUME NEW l \in Nat, l <= n
               PROVE  IdleTo(b, l) /\ l <= Len(b) /\ IsPart(F!Drop(b, l), b, l, Len(b) - l)
    OBVIOUS
  <2>1. IdleTo(b, l)
    BY <1>3, IdleIs
  <2>2. l <= Len(b)
    BY <1>1, <1>4, <1>5
  <2> QED BY <1>4, <2>1, <2>2, DropOf
<1>7. CASE NotLonger(b, n, k)
  <2> DEFINE x == F!Drop(b, n)
  <2>1. n <= n
    BY <1>1
  <2>2. IdleTo(b, n) /\ n <= Len(b) /\ IsPart(x, b, n, Len(b) - n)
    BY <1>1, <1>6, <2>1
  <2> HIDE DEF n
  <2>3. x = y
    <3> HIDE DEF x
    <3>1. Len(b) - n = Len(y)
      BY <1>1, <1>4, <1>5
    <3>2. x \in F!Bytes /\ Len(x) = Len(y) /\ \A i \in 1..Len(y) : x[i] = b[n + i]
      BY <2>2, <3>1, Zenon DEF IsPart
    <3>3. \A i \in 1..Len(x) : x[i] = y[i]
      BY <1>4, <3>2, Zenon
    <3> QED BY <1>2, <3>2, <3>3, F!SameBytes
  <2>4. IsGood(y, k)
    BY <1>1, FramedIsGood
  <2>5. Bus!Drain(b).buf = <<>> /\ Bus!Drain(b).frames = Arrival(y).frames
    <3>1. y = F!Drop(b, n)
      BY <2>3
    <3> QED BY <1>1, <1>4, <1>7, <2>2, <2>4, <3>1, FramedArrives
  <2> QED BY <1>2, <2>5, Zenon DEF Arrives, b
<1>8. CASE ~NotLonger(b, n, k)
  <2>1. k = 1 /\ n > 0 /\ b[n] = 255
    BY <1>8 DEF NotLonger
  <2> DEFINE l == n - 1
             x == F!Drop(b, l)
  <2>2. l \in Nat /\ l <= n /\ l + 1 = n /\ Len(b) - l = Len(y) + 1
    BY <1>1, <1>4, <1>5, <2>1
  <2>3. IdleTo(b, l) /\ l <= Len(b) /\ IsPart(x, b, l, Len(y) + 1)
    BY <1>6, <2>2
  <2>4. x = F!Drop(b, l)
    OBVIOUS
  <2> HIDE DEF n, l, x
  <2>5. x \in F!Bytes /\ Len(x) = Len(y) + 1 /\ x[1] = 255
    <3>1. x \in F!Bytes /\ Len(x) = Len(y) + 1
          /\ \A i \in 1..(Len(y) + 1) : x[i] = b[l + i]
      BY <2>3, Zenon DEF IsPart
    <3>2. 1 \in 1..(Len(y) + 1)
      BY <1>5
    <3> QED BY <2>1, <2>2, <3>1, <3>2, Zenon
  <2>6. ASSUME NEW i \in 1..Len(y) PROVE x[1 + i] = y[i]
    <3>1. 1 + i \in 1..(Len(y) + 1) /\ l + (1 + i) = n + i
      BY <1>5, <2>2
    <3>2. x[1 + i] = b[l + (1 + i)]
      BY <2>3, <3>1, Zenon DEF IsPart
    <3> QED BY <1>4, <3>1, <3>2, Zenon
  <2>7. IsFramed(x, 2, command, payload)
    <3>1. IsFramed(y, 1, command, payload)
      BY <2>1
    <3> QED BY <1>1, <2>5, <2>6, <3>1, LongerFrame
  <2>8. IsGood(x, 2)
    BY <1>1, <2>7, FramedIsGood
  <2>9. NotLonger(b, l, 2)
    BY DEF NotLonger
  <2>10. Bus!Drain(b).buf = <<>> /\ Bus!Drain(b).frames = Arrival(x).frames
    BY <1>4, <2>2, <2>3, <2>4, <2>8, <2>9, FramedArrives
  <2> QED BY <2>5, <2>7, <2>10, Zenon DEF Arrives, b
<1> QED BY <1>7, <1>8

LEMMA ReportArrives ==
  ASSUME NEW r \in Reports
  PROVE  Arrives(OnTheBus(r), r.command, r.payload)
<1>1. /\ r.command \in F!Octets /\ r.payload \in F!Bytes /\ Len(r.payload) <= 255
      /\ r.idle \in F!Bytes /\ Bus!SyncsOf(r.idle) = {} /\ r.preamble \in Preambles
  BY ReportAssumption DEF Byte, F!Bytes, F!Octets
<1>2. PICK k \in {1, 2} : IsPreamble(r.preamble, k)
  BY <1>1, PreambleIs DEF Preambles
<1>3. 1 \in F!Octets /\ 15 \in F!Octets /\ 16 \in F!Octets
  BY OctetIs
<1> DEFINE y == BuildA5(1, 15, 16, r.command, r.payload, r.preamble)
<1>4. IsFramed(y, k, r.command, r.payload)
  BY <1>1, <1>2, <1>3, BuiltIsFramed
<1> HIDE DEF y
<1>5. Arrives(r.idle \o y, r.command, r.payload)
  BY <1>1, <1>4, BehindIdle
<1> QED BY <1>5, Zenon DEF OnTheBus, y

(* The A5 of a frame is the first one behind 00 FF. *)
LEMMA FoundA5 ==
  ASSUME NEW x \in F!Bytes, NEW k \in {1, 2}, k + 2 <= Len(x), F!ShortAt(x, k),
         k = 2 => x[1] = 255
  PROVE  FindA5(x) = k + 2
<1>1. \A i \in 3..Len(x) : SubSeq(x, i - 2, i) = <<0, 255, 165>> <=> F!ShortAt(x, i - 2)
  <2> SUFFICES ASSUME NEW i \in 3..Len(x)
               PROVE  SubSeq(x, i - 2, i) = <<0, 255, 165>> <=> F!ShortAt(x, i - 2)
    OBVIOUS
  <2> DEFINE q == i - 2
  <2>1. q \in 1..(Len(x) - 2) /\ q + 3 - 1 = i
    BY DEF F!Bytes
  <2> HIDE DEF q
  <2>2. F!At(x, q, F!SyncShort) <=> F!ShortAt(x, q)
    BY <2>1, F!AtShort
  <2>3. F!At(x, q, F!SyncShort) <=> SubSeq(x, q, i) = <<0, 255, 165>>
    <3>1. Len(F!SyncShort) = 3 /\ F!SyncShort = <<0, 255, 165>>
      BY DEF F!SyncShort, F!FF
    <3>2. F!At(x, q, F!SyncShort) <=> SubSeq(x, q, q + Len(F!SyncShort) - 1) = F!SyncShort
      BY Zenon DEF F!At
    <3> QED BY <2>1, <3>1, <3>2
  <2> QED BY <2>2, <2>3 DEF q
<1>2. \A i : i \in A5After(x) <=> i \in 3..Len(x) /\ F!ShortAt(x, i - 2)
  BY <1>1, Zenon DEF A5After
<1>3. k + 2 \in A5After(x)
  <2>1. k + 2 \in 3..Len(x) /\ k + 2 - 2 = k
    BY DEF F!Bytes
  <2> QED BY <1>2, <2>1
<1>4. \A i \in A5After(x) : i \in Nat /\ k + 2 <= i
  <2> SUFFICES ASSUME NEW i \in A5After(x) PROVE i \in Nat /\ k + 2 <= i
    OBVIOUS
  <2>1. i \in 3..Len(x) /\ F!ShortAt(x, i - 2)
    BY <1>2
  <2>2. CASE k = 1
    BY <2>1, <2>2
  <2>3. CASE k = 2
    <3>1. i # 3
      <4> SUFFICES ASSUME i = 3 PROVE FALSE
        OBVIOUS
      <4>1. x[1] = 0
        BY <2>1 DEF F!ShortAt
      <4> QED BY <2>3, <4>1
    <3> QED BY <2>1, <2>3, <3>1
  <2> QED BY <2>2, <2>3
<1>5. FindA5(x) \in A5After(x) /\ \A i \in A5After(x) : FindA5(x) <= i
  BY <1>3, <1>4, Zenon DEF FindA5
<1>6. FindA5(x) \in Nat /\ FindA5(x) <= k + 2 /\ k + 2 <= FindA5(x)
  BY <1>3, <1>4, <1>5
<1> QED BY <1>6

(* What a parser reads at a distance from the A5. *)
FieldsFound(x, command, payload) ==
  /\ FindA5(x) \in Nat /\ FindA5(x) # 0
  /\ FindA5(x) + A5Length <= Len(x)
  /\ x[FindA5(x) + A5Command] = command /\ x[FindA5(x) + A5Length] = Len(payload)
  /\ \A j \in 1..Len(payload) : /\ FindA5(x) + (5 + j) <= Len(x)
                                 /\ x[FindA5(x) + (5 + j)] = payload[j]

LEMMA FieldIs ==
  ASSUME NEW k \in {1, 2}, NEW command, NEW payload \in F!Bytes, NEW x,
         IsFramed(x, k, command, payload)
  PROVE  FieldsFound(x, command, payload)
<1> DEFINE n == Len(payload)
<1>1. /\ x \in F!Bytes /\ Len(x) = k + 9 + n /\ F!ShortAt(x, k) /\ (k = 2 => x[1] = 255)
      /\ x[k + 6] = command /\ x[k + 7] = n
      /\ \A j \in 1..n : x[k + 7 + j] = payload[j]
  BY Zenon DEF IsFramed
<1>2. n \in Nat
  BY DEF F!Bytes
<1> HIDE DEF n
<1>3. FindA5(x) = k + 2
  <2>1. k + 2 <= Len(x)
    BY <1>1, <1>2
  <2> QED BY <1>1, <2>1, FoundA5
<1>4. /\ k + 2 + 4 = k + 6 /\ k + 2 + 5 = k + 7 /\ k + 7 <= Len(x)
      /\ \A j \in 1..n : k + 2 + (5 + j) = k + 7 + j /\ k + 7 + j <= Len(x)
  BY <1>1, <1>2
<1>5. k + 2 \in Nat /\ k + 2 # 0
  OBVIOUS
<1> DEFINE a == k + 2
<1>6. /\ a \in Nat /\ a # 0 /\ a + 5 <= Len(x) /\ x[a + 4] = command /\ x[a + 5] = n
      /\ \A j \in 1..n : a + (5 + j) <= Len(x) /\ x[a + (5 + j)] = payload[j]
  BY <1>1, <1>4, <1>5
<1> HIDE DEF a
<1>7. FindA5(x) = a
  BY <1>3 DEF a
<1> QED BY <1>6, <1>7, Zenon DEF FieldsFound, A5Command, A5Length, n

(* Fields that all lie in the payload, at places counted from its first byte. *)
Covers(fields, places, payload) ==
  /\ DOMAIN fields = DOMAIN places
  /\ \A f \in DOMAIN places : fields[f] = 5 + places[f] /\ places[f] \in 1..Len(payload)

ValuesAt(places, payload) == [f \in DOMAIN places |-> payload[places[f]]]

LEMMA ParsedIs ==
  ASSUME NEW k \in {1, 2}, NEW command, NEW payload \in F!Bytes, NEW x,
         IsFramed(x, k, command, payload), NEW type, NEW fields, NEW places,
         Covers(fields, places, payload)
  PROVE  Parse(type, fields, x) = [type |-> type, fields |-> ValuesAt(places, payload)]
<1> DEFINE a == FindA5(x)
<1>1. /\ a \in Nat
      /\ \A j \in 1..Len(payload) : a + (5 + j) <= Len(x) /\ x[a + (5 + j)] = payload[j]
  <2>1. FieldsFound(x, command, payload)
    BY FieldIs
  <2> QED BY <2>1, Zenon DEF FieldsFound
<1>2. Len(x) \in Nat
  BY Zenon, F!BytesTyped, Sizes DEF IsFramed
<1>3. a = FindA5(x)
  OBVIOUS
<1> HIDE DEF a
<1>4. ASSUME NEW f \in DOMAIN fields
      PROVE  /\ ~(a + fields[f] > Len(x))
             /\ x[a + fields[f]] = payload[places[f]]
  <2>1. /\ f \in DOMAIN places /\ fields[f] = 5 + places[f] /\ places[f] \in 1..Len(payload)
    BY Zenon DEF Covers
  <2>2. /\ a + (5 + places[f]) <= Len(x) /\ x[a + (5 + places[f])] = payload[places[f]]
    BY <1>1, <2>1, Zenon
  <2> DEFINE p == places[f]
  <2>3. p \in Nat /\ a + (5 + p) <= Len(x)
    BY <2>1, <2>2
  <2> HIDE DEF p
  <2>4. ~(a + (5 + p) > Len(x))
    BY <1>1, <1>2, <2>3
  <2> QED BY <2>1, <2>2, <2>4, Zenon DEF p
<1>5. [f \in DOMAIN fields |-> x[a + fields[f]]] = ValuesAt(places, payload)
  <2>1. DOMAIN fields = DOMAIN places
    BY Zenon DEF Covers
  <2> QED BY <1>4, <2>1, Zenon DEF ValuesAt
<1> QED BY <1>3, <1>4, <1>5, Zenon DEF Parse

LEMMA PlacesAre ==
  /\ DOMAIN SystemFields = DOMAIN PayloadOf(2)
  /\ \A f \in DOMAIN PayloadOf(2) : /\ PayloadOf(2)[f] \in Nat \ {0}
                                    /\ SystemFields[f] = 5 + PayloadOf(2)[f]
  /\ DOMAIN TempFields = DOMAIN PayloadOf(8)
  /\ \A f \in DOMAIN PayloadOf(8) : /\ PayloadOf(8)[f] \in Nat \ {0}
                                    /\ TempFields[f] = 5 + PayloadOf(8)[f]
<1>1. /\ DOMAIN SystemFields = DOMAIN PayloadOf(2)
      /\ \A f \in DOMAIN PayloadOf(2) : /\ PayloadOf(2)[f] \in Nat \ {0}
                                        /\ SystemFields[f] = 5 + PayloadOf(2)[f]
  BY DEF SystemFields, PayloadOf
<1>2. /\ DOMAIN TempFields = DOMAIN PayloadOf(8)
      /\ \A f \in DOMAIN PayloadOf(8) : /\ PayloadOf(8)[f] \in Nat \ {0}
                                        /\ TempFields[f] = 5 + PayloadOf(8)[f]
  BY DEF TempFields, PayloadOf
<1> QED BY <1>1, <1>2

(* What a status report says. *)
Reading(command, payload) ==
  [type   |-> IF command = 2 THEN "SystemStatus" ELSE "TempStatus",
   fields |-> ValuesAt(PayloadOf(command), payload)]

LEMMA StatusDecoded ==
  ASSUME NEW k \in {1, 2}, NEW command \in {2, 8}, NEW payload \in F!Bytes, NEW x,
         IsFramed(x, k, command, payload),
         \A f \in DOMAIN PayloadOf(command) : PayloadOf(command)[f] <= Len(payload)
  PROVE  DecodeA5(x) = Reading(command, payload)
<1>1. /\ FindA5(x) \in Nat /\ FindA5(x) # 0 /\ FindA5(x) + 5 <= Len(x)
      /\ x[FindA5(x) + A5Command] = command
  <2>1. FieldsFound(x, command, payload)
    BY FieldIs
  <2> QED BY <2>1, Zenon DEF FieldsFound, A5Length
<1>2. Len(x) \in Nat
  BY Zenon, F!BytesTyped, Sizes DEF IsFramed
<1>3. ~(FindA5(x) = 0 \/ FindA5(x) + A5Command > Len(x))
  BY <1>1, <1>2 DEF A5Command
<1>4. DecodeA5(x) = CASE command = 2 -> Parse("SystemStatus", SystemFields, x)
                      [] command = 8 -> Parse("TempStatus", TempFields, x)
                      [] OTHER       -> Unknown(x)
  BY <1>1, <1>3, Zenon DEF DecodeA5
<1>5. \A f \in DOMAIN PayloadOf(command) :
        PayloadOf(command)[f] \in Nat \ {0} => PayloadOf(command)[f] \in 1..Len(payload)
  <2>1. Len(payload) \in Nat
    BY DEF F!Bytes
  <2>2. \A v \in Nat \ {0} : v <= Len(payload) => v \in 1..Len(payload)
    BY <2>1
  <2> QED BY <2>2, Zenon
<1>6. CASE command = 2
  <2>1. Covers(SystemFields, PayloadOf(2), payload)
    BY <1>5, <1>6, PlacesAre, Zenon DEF Covers
  <2>2. Parse("SystemStatus", SystemFields, x)
          = [type |-> "SystemStatus", fields |-> ValuesAt(PayloadOf(2), payload)]
    BY <2>1, ParsedIs
  <2> QED BY <1>4, <1>6, <2>2 DEF Reading
<1>7. CASE command = 8
  <2>1. Covers(TempFields, PayloadOf(8), payload)
    BY <1>5, <1>7, PlacesAre, Zenon DEF Covers
  <2>2. Parse("TempStatus", TempFields, x)
          = [type |-> "TempStatus", fields |-> ValuesAt(PayloadOf(8), payload)]
    BY <2>1, ParsedIs
  <2> QED BY <1>4, <1>7, <2>2 DEF Reading
<1> QED BY <1>6, <1>7

(* DecodedAsSent holds of the first state, and the one step that decodes a    *)
(* report decodes what the bytes on the bus are drained to.                  *)
THEOREM ReportsDecoded == MessageSpec => []DecodedAsSent
<1> DEFINE IInv == report \in Reports /\ DecodedAsSent
<1>1. MessageInit => IInv
  BY DEF MessageInit, DecodedAsSent
<1>2. IInv /\ [MessageNext]_messageVars => IInv'
  <2> SUFFICES ASSUME IInv, [MessageNext]_messageVars PROVE IInv'
    OBVIOUS
  <2>1. CASE Report
    <3>1. report' = report /\ report \in Reports
      BY <2>1 DEF Report
    <3> DEFINE frames == Bus!Drain(OnTheBus(report)).frames
    <3>2. decoded' = [i \in DOMAIN frames |-> DecodeMessage(frames[i])]
      BY <2>1, Zenon DEF Report
    <3>3. PICK k \in {1, 2}, x \in F!Bytes :
            /\ IsFramed(x, k, report.command, report.payload)
            /\ frames = Arrival(x).frames
      BY <3>1, ReportArrives, Zenon DEF Arrives
    <3> HIDE DEF frames
    <3>4. report.payload \in F!Bytes
      BY <3>1, ReportAssumption DEF Byte, F!Bytes, F!Octets
    <3> DEFINE f == [kind |-> "A5", raw |-> x, checksum_ok |-> TRUE]
    <3>5. decoded' = <<DecodeMessage(f)>>
      <4>1. frames = <<f>>
        BY <3>3 DEF Arrival
      <4> HIDE DEF f
      <4>2. DOMAIN frames = {1} /\ frames[1] = f
        BY <4>1
      <4>3. [i \in DOMAIN frames |-> DecodeMessage(frames[i])] = [i \in {1} |-> DecodeMessage(f)]
        BY <4>2, Zenon
      <4> QED BY <3>2, <4>3
    <3>6. DecodeMessage(f) = DecodeA5(x)
      BY DEF DecodeMessage
    <3>7. ASSUME IsStatusReport(report), Holds(report)
          PROVE  decoded' = <<Reading(report.command, report.payload)>>
      <4>1. report.command \in {2, 8}
            /\ \A g \in DOMAIN PayloadOf(report.command) :
                 PayloadOf(report.command)[g] <= Len(report.payload)
        BY <3>7, Zenon DEF IsStatusReport, Holds
      <4>2. DecodeA5(x) = Reading(report.command, report.payload)
        BY <3>3, <3>4, <4>1, StatusDecoded
      <4> QED BY <3>5, <3>6, <4>2
    <3> QED BY <3>1, <3>7, Zenon DEF DecodedAsSent, Reading, ValuesAt
  <2>2. CASE UNCHANGED messageVars
    BY <2>2 DEF messageVars, DecodedAsSent
  <2> QED BY <2>1, <2>2 DEF MessageNext
<1> QED BY <1>1, <1>2, PTL DEF MessageSpec

LEMMA DrainRecord ==
  ASSUME NEW b \in F!Bytes, NEW x, Bus!Drain(b).buf = <<>>,
         Bus!Drain(b).frames = Arrival(x).frames
  PROVE  Bus!Drain(b) = Arrival(x)
<1> DEFINE s == F!Drain(b)
<1>1. s \in F!States
  BY F!DrainIsFinal, Sizes, Zenon
<1>2. Bus!Drain(b) = s
  BY SameDrain
<1> HIDE DEF s
<1>3. s = [buf |-> s.buf, frames |-> s.frames]
  BY <1>1 DEF F!States
<1>4. s.buf = <<>> /\ s.frames = Arrival(x).frames
  BY <1>2
<1>5. Arrival(x) = [buf |-> <<>>, frames |-> Arrival(x).frames]
  BY DEF Arrival
<1> QED BY <1>2, <1>3, <1>4, <1>5, Zenon

(* A frame that no parser is registered for. *)
LEMMA OtherDecoded ==
  ASSUME NEW k \in {1, 2}, NEW command \in F!Octets, command # 2, command # 8,
         NEW payload \in F!Bytes, NEW x, IsFramed(x, k, command, payload)
  PROVE  DecodeA5(x) = [type |-> "Unknown", command |-> command]
<1> DEFINE a == FindA5(x)
<1>1. FieldsFound(x, command, payload)
  BY FieldIs
<1>2. /\ a \in Nat /\ a # 0 /\ a + 5 <= Len(x) /\ x[a + A5Command] = command
  BY <1>1, Zenon DEF FieldsFound, A5Length
<1>3. Len(x) \in Nat
  BY Zenon, F!BytesTyped, Sizes DEF IsFramed
<1>4. a = FindA5(x)
  OBVIOUS
<1> HIDE DEF a
<1>5. ~(a = 0 \/ a + A5Command > Len(x)) /\ ~(a = 0 \/ a + A5Length > Len(x))
  BY <1>2, <1>3 DEF A5Command, A5Length
<1>6. Unknown(x) = [type |-> "Unknown", command |-> command]
  BY <1>2, <1>4, <1>5, Zenon DEF Unknown
<1>7. DecodeA5(x) = CASE command = 2 -> Parse("SystemStatus", SystemFields, x)
                      [] command = 8 -> Parse("TempStatus", TempFields, x)
                      [] OTHER       -> Unknown(x)
  BY <1>2, <1>4, <1>5, Zenon DEF DecodeA5
<1> QED BY <1>6, <1>7

(* What SentIsMeant asks of the bytes that are sent. *)
Heard(raw, command) ==
  /\ Bus!Drain(raw) = Arrival(raw)
  /\ DecodeMessage(Bus!Drain(raw).frames[1]) = [type |-> "Unknown", command |-> command]

LEMMA SentArrives ==
  ASSUME NEW raw, NEW command \in F!Octets, command # 2, command # 8,
         NEW payload \in F!Bytes, IsFramed(raw, 2, command, payload)
  PROVE  Heard(raw, command)
<1>1. raw \in F!Bytes
  BY Zenon DEF IsFramed
<1>2. IsGood(raw, 2)
  <2>1. Len(payload) \in Nat
    BY DEF F!Bytes
  <2> QED BY <2>1, FramedIsGood
<1>3. raw = F!Drop(raw, 0)
  <2>1. SubSeq(raw, 1, Len(raw)) = raw
    BY <1>1 DEF F!Bytes
  <2> QED BY <2>1 DEF F!Drop
<1>4. IdleTo(raw, 0) /\ NotLonger(raw, 0, 2)
  BY DEF IdleTo, NotLonger
<1>5. 0 \in Nat /\ 0 <= Len(raw)
  BY <1>1 DEF F!Bytes
<1>6. Bus!Drain(raw).buf = <<>> /\ Bus!Drain(raw).frames = Arrival(raw).frames
  BY <1>1, <1>2, <1>3, <1>4, <1>5, FramedArrives
<1>7. Bus!Drain(raw) = Arrival(raw)
  BY <1>1, <1>6, DrainRecord
<1>8. Arrival(raw).frames[1] = [kind |-> "A5", raw |-> raw, checksum_ok |-> TRUE]
  BY DEF Arrival
<1>9. DecodeMessage([kind |-> "A5", raw |-> raw, checksum_ok |-> TRUE]) = DecodeA5(raw)
  BY DEF DecodeMessage
<1>10. DecodeA5(raw) = [type |-> "Unknown", command |-> command]
  BY OtherDecoded
<1> QED BY <1>7, <1>8, <1>9, <1>10, Zenon DEF Heard

(* What a frame of bytes sent says: its payload. *)
LEMMA ParsedPayload ==
  ASSUME NEW raw, NEW command, NEW payload \in F!Bytes, IsFramed(raw, 2, command, payload)
  PROVE  /\ raw[FindA5(raw) + A5Command] = command
         /\ [i \in 1..raw[FindA5(raw) + A5Length] |-> raw[FindA5(raw) + A5Length + i]]
              = [i \in 1..Len(payload) |-> payload[i]]
<1> DEFINE a == FindA5(raw)
<1>1. FieldsFound(raw, command, payload)
  BY FieldIs
<1>2. /\ a \in Nat /\ raw[a + A5Command] = command /\ raw[a + A5Length] = Len(payload)
      /\ \A j \in 1..Len(payload) : raw[a + (5 + j)] = payload[j]
  BY <1>1, Zenon DEF FieldsFound
<1> HIDE DEF a
<1>3. ASSUME NEW i \in 1..Len(payload) PROVE raw[a + A5Length + i] = payload[i]
  <2>1. a + A5Length + i = a + (5 + i)
    BY <1>2 DEF A5Length
  <2> QED BY <1>2, <2>1, Zenon
<1>4. [i \in 1..raw[a + A5Length] |-> raw[a + A5Length + i]]
        = [i \in 1..Len(payload) |-> payload[i]]
  BY <1>2, <1>3, Zenon
<1> QED BY <1>2, <1>4, Zenon DEF a

SaysPayload(raw, command, payload) ==
  /\ raw[FindA5(raw) + A5Command] = command
  /\ [i \in 1..raw[FindA5(raw) + A5Length] |-> raw[FindA5(raw) + A5Length + i]]
       = [i \in 1..Len(payload) |-> payload[i]]

IsSent(raw, command, payload) ==
  /\ raw = BuildA5(7, 16, 32, command, payload, <<255, 0, 255>>)
  /\ command \in F!Octets /\ command # 2 /\ command # 8
  /\ payload \in F!Bytes /\ Len(payload) <= 255

LEMMA SentSays ==
  ASSUME NEW raw, NEW command, NEW payload, IsSent(raw, command, payload)
  PROVE  Heard(raw, command) /\ SaysPayload(raw, command, payload)
<1>0. /\ raw = BuildA5(7, 16, 32, command, payload, <<255, 0, 255>>)
      /\ command \in F!Octets /\ command # 2 /\ command # 8
      /\ payload \in F!Bytes /\ Len(payload) <= 255
  BY Zenon DEF IsSent
<1>1. 7 \in F!Octets /\ 16 \in F!Octets /\ 32 \in F!Octets
  BY OctetIs
<1>2. IsPreamble(<<255, 0, 255>>, 2)
  BY PreambleIs
<1> DEFINE p == <<255, 0, 255>>
<1>3. IsPreamble(p, 2) /\ raw = BuildA5(7, 16, 32, command, payload, p)
  BY <1>0, <1>2
<1> HIDE DEF p
<1>4. IsFramed(raw, 2, command, payload)
  BY <1>0, <1>1, <1>3, BuiltIsFramed
<1>5. Heard(raw, command)
  BY <1>0, <1>4, SentArrives
<1>6. SaysPayload(raw, command, payload)
  <2>1. /\ raw[FindA5(raw) + A5Command] = command
        /\ [i \in 1..raw[FindA5(raw) + A5Length] |-> raw[FindA5(raw) + A5Length + i]]
             = [i \in 1..Len(payload) |-> payload[i]]
    BY <1>0, <1>4, ParsedPayload
  <2> QED BY <2>1, Zenon DEF SaysPayload
<1> QED BY <1>5, <1>6

(* The two commands that are built, heard and parsed. *)
LEMMA CircuitSent ==
  ASSUME NEW c \in F!Octets, NEW d \in F!Octets,
         NEW raw, raw = Build(CircuitChange, <<c, d>>).raw
  PROVE  /\ Heard(raw, CircuitChange)
         /\ ParseCommand(raw) = [circuit |-> c, on |-> d # 0]
<1> DEFINE payload == <<c, d>>
<1>1. /\ payload \in F!Bytes /\ Len(payload) = 2 /\ payload[1] = c /\ payload[2] = d
      /\ [i \in 1..2 |-> payload[i]] = payload
  BY PairIs
<1>2. CircuitChange = 134 /\ CircuitChange \in F!Octets /\ CircuitChange # 2
      /\ CircuitChange # 8 /\ CircuitChange # HeatChange
  BY OctetIs DEF CircuitChange, HeatChange
<1>3. raw = BuildA5(7, 16, 32, CircuitChange, payload, <<255, 0, 255>>)
  BY DEF Build, Bytes
<1> HIDE DEF payload
<1>4. Heard(raw, CircuitChange) /\ SaysPayload(raw, CircuitChange, payload)
  <2>1. Len(payload) <= 255
    BY <1>1
  <2>2. IsSent(raw, CircuitChange, payload)
    BY <1>1, <1>2, <1>3, <2>1, Zenon DEF IsSent
  <2> QED BY <2>2, SentSays
<1>5. Heard(raw, CircuitChange)
  BY <1>4
<1>6. /\ raw[FindA5(raw) + A5Command] = CircuitChange
      /\ [i \in 1..raw[FindA5(raw) + A5Length] |-> raw[FindA5(raw) + A5Length + i]] = payload
  BY <1>1, <1>4, Zenon DEF SaysPayload
<1>7. ParseCommand(raw) =
        CASE CircuitChange = CircuitChange /\ Len(payload) >= 2 ->
               [circuit |-> payload[1], on |-> payload[2] # 0]
          [] CircuitChange = HeatChange /\ Len(payload) >= 4 ->
               [pool_set |-> payload[1], spa_set |-> payload[2], mode |-> payload[3]]
  BY <1>6, Zenon DEF ParseCommand
<1>8. Len(payload) >= 2
  BY <1>1
<1>9. ParseCommand(raw) = [circuit |-> payload[1], on |-> payload[2] # 0]
  BY <1>2, <1>7, <1>8, Zenon
<1> QED BY <1>1, <1>5, <1>9, Zenon

LEMMA QuadIs ==
  ASSUME NEW a \in F!Octets, NEW b \in F!Octets, NEW c \in F!Octets, NEW d \in F!Octets
  PROVE  /\ <<a, b, c, d>> \in F!Bytes /\ Len(<<a, b, c, d>>) = 4
         /\ <<a, b, c, d>>[1] = a /\ <<a, b, c, d>>[2] = b /\ <<a, b, c, d>>[3] = c
  BY DEF F!Bytes

LEMMA HeatSent ==
  ASSUME NEW p \in F!Octets, NEW s \in F!Octets, NEW m \in F!Octets,
         NEW raw, raw = Build(HeatChange, <<p, s, m, 0>>).raw
  PROVE  /\ Heard(raw, HeatChange)
         /\ ParseCommand(raw) = [pool_set |-> p, spa_set |-> s, mode |-> m]
<1> DEFINE payload == <<p, s, m, 0>>
<1>1. /\ payload \in F!Bytes /\ Len(payload) = 4 /\ payload[1] = p /\ payload[2] = s
      /\ payload[3] = m /\ [i \in 1..4 |-> payload[i]] = payload
  <2>1. 0 \in F!Octets
    BY OctetIs
  <2>2. [i \in 1..4 |-> payload[i]] = payload
    OBVIOUS
  <2> QED BY <2>1, <2>2, QuadIs
<1>2. HeatChange = 136 /\ HeatChange \in F!Octets /\ HeatChange # 2
      /\ HeatChange # 8 /\ HeatChange # CircuitChange
  BY OctetIs DEF CircuitChange, HeatChange
<1>3. raw = BuildA5(7, 16, 32, HeatChange, payload, <<255, 0, 255>>)
  BY DEF Build, Bytes
<1> HIDE DEF payload
<1>4. Heard(raw, HeatChange) /\ SaysPayload(raw, HeatChange, payload)
  <2>1. Len(payload) <= 255
    BY <1>1
  <2>2. IsSent(raw, HeatChange, payload)
    BY <1>1, <1>2, <1>3, <2>1, Zenon DEF IsSent
  <2> QED BY <2>2, SentSays
<1>5. Heard(raw, HeatChange)
  BY <1>4
<1>6. /\ raw[FindA5(raw) + A5Command] = HeatChange
      /\ [i \in 1..raw[FindA5(raw) + A5Length] |-> raw[FindA5(raw) + A5Length + i]] = payload
  BY <1>1, <1>4, Zenon DEF SaysPayload
<1>7. ParseCommand(raw) =
        CASE HeatChange = CircuitChange /\ Len(payload) >= 2 ->
               [circuit |-> payload[1], on |-> payload[2] # 0]
          [] HeatChange = HeatChange /\ Len(payload) >= 4 ->
               [pool_set |-> payload[1], spa_set |-> payload[2], mode |-> payload[3]]
  BY <1>6, Zenon DEF ParseCommand
<1>8. Len(payload) >= 4
  BY <1>1
<1>9. ParseCommand(raw) = [pool_set |-> payload[1], spa_set |-> payload[2], mode |-> payload[3]]
  BY <1>2, <1>7, <1>8, Zenon
<1> QED BY <1>1, <1>5, <1>9, Zenon

LEMMA TheIs == ASSUME NEW x PROVE The({x}) = x
  BY DEF The

LEMMA OptionIs ==
  ASSUME NEW S, NEW option \in OptionOf(S)
  PROVE  option = {} \/ (\E x \in S : option = {x} /\ The(option) = x)
  BY TheIs DEF OptionOf

(* A circuit that is resolved is a byte, and means itself. *)
MeantBy(v) == IF v.is = "name" THEN CircuitIds[v.name] ELSE v.n
Known(v) == \/ v.is \in {"number", "digits"} /\ v.n \in Byte
            \/ v.is = "name" /\ v.name \in DOMAIN CircuitIds

LEMMA NamedCircuits ==
  ASSUME NEW name \in DOMAIN CircuitIds
  PROVE  CircuitIds[name] \in Byte
  BY DEF CircuitIds, Byte

LEMMA CircuitResolved ==
  ASSUME NEW b \in Bodies
  PROVE  \/ ResolveCircuit(b).error # "none" /\ {w \in b.circuit : Known(w)} = {}
         \/ /\ ResolveCircuit(b).error = "none"
            /\ \E v : /\ {w \in b.circuit : Known(w)} = {v}
                      /\ ResolveCircuit(b).value = MeantBy(v) /\ MeantBy(v) \in Byte
<1>1. CASE b.circuit = {}
  <2>1. ResolveCircuit(b).error = "unsupported"
    BY <1>1 DEF ResolveCircuit, Failure
  <2> QED BY <1>1, <2>1
<1>2. ASSUME NEW v, b.circuit = {v}
      PROVE  \/ ResolveCircuit(b).error # "none" /\ ~Known(v)
             \/ /\ ResolveCircuit(b).error = "none" /\ Known(v)
                /\ ResolveCircuit(b).value = MeantBy(v) /\ MeantBy(v) \in Byte
  <2>1. The(b.circuit) = v /\ b.circuit # {}
    BY <1>2, TheIs
  <2>2. v.is \in {"number", "digits"} => v.n \in Nat
    BY <1>2, BodiesAssumption
  <2>3. CASE v.is = "number"
    <3>1. ResolveCircuit(b) = IF v.n > 255 THEN Failure("unsupported") ELSE Success(v.n)
      BY <2>1, <2>3 DEF ResolveCircuit
    <3>2. MeantBy(v) = v.n /\ (Known(v) <=> v.n \in Byte)
      BY <2>3 DEF MeantBy, Known
    <3>3. v.n > 255 \/ v.n \in Byte
      BY <2>2, <2>3 DEF Byte
    <3>4. v.n \in Byte => ~(v.n > 255)
      BY DEF Byte
    <3> QED BY <3>1, <3>2, <3>3, <3>4 DEF Failure, Success
  <2>4. CASE v.is \in {"digits", "name"}
    <3>1. ResolveCircuit(b) = ParseCircuitId(v)
      BY <2>1, <2>4 DEF ResolveCircuit
    <3>2. CASE v.is = "digits"
      <4>1. ParseCircuitId(v) = IF v.n > 255 THEN Failure("bad_command") ELSE Success(v.n)
        BY <3>2 DEF ParseCircuitId
      <4>2. MeantBy(v) = v.n /\ (Known(v) <=> v.n \in Byte)
        BY <3>2 DEF MeantBy, Known
      <4>3. v.n > 255 \/ v.n \in Byte
        BY <2>2, <3>2 DEF Byte
      <4>4. v.n \in Byte => ~(v.n > 255)
        BY DEF Byte
      <4> QED BY <3>1, <4>1, <4>2, <4>3, <4>4 DEF Failure, Success
    <3>3. CASE v.is = "name"
      <4>1. ParseCircuitId(v) = IF v.name \in DOMAIN CircuitIds THEN Success(CircuitIds[v.name])
                                ELSE Failure("bad_command")
        BY <3>3 DEF ParseCircuitId
      <4>2. MeantBy(v) = CircuitIds[v.name] /\ (Known(v) <=> v.name \in DOMAIN CircuitIds)
        BY <3>3 DEF MeantBy, Known
      <4> QED BY <3>1, <4>1, <4>2, NamedCircuits DEF Failure, Success
    <3> QED BY <2>4, <3>2, <3>3
  <2>5. CASE v.is \notin {"number", "digits", "name"}
    <3>1. ResolveCircuit(b) = Failure("unsupported")
      BY <2>1, <2>5 DEF ResolveCircuit
    <3> QED BY <2>5, <3>1 DEF Known, Failure
  <2> QED BY <2>3, <2>4, <2>5
<1>3. CASE \E v : b.circuit = {v}
  <2>1. PICK v : b.circuit = {v}
    BY <1>3
  <2>2. Known(v) => {w \in b.circuit : Known(w)} = {v}
    BY <2>1
  <2>3. ~Known(v) => {w \in b.circuit : Known(w)} = {}
    BY <2>1
  <2> QED BY <1>2, <2>1, <2>2, <2>3, Zenon
<1> QED BY <1>1, <1>3, BodiesAssumption

(* What `on` and `status` say. *)
OnSaid(b) == IF b.on # {} THEN b.on ELSE {n # 0 : n \in b.status}

LEMMA OnResolved ==
  ASSUME NEW b \in Bodies
  PROVE  \/ ResolveOn(b).error # "none" /\ OnSaid(b) = {}
         \/ /\ ResolveOn(b).error = "none"
            /\ \E o \in BOOLEAN : OnSaid(b) = {o} /\ ResolveOn(b).value = o
<1>1. b.on \in OptionOf(BOOLEAN) /\ b.status \in OptionOf(Byte)
  BY BodiesAssumption
<1>2. CASE b.on # {}
  <2>1. PICK o \in BOOLEAN : b.on = {o} /\ The(b.on) = o
    BY <1>1, <1>2, OptionIs
  <2>2. ResolveOn(b) = Success(o)
    BY <1>2, <2>1, Zenon DEF ResolveOn
  <2>3. Success(o).error = "none" /\ Success(o).value = o
    BY DEF Success
  <2> QED BY <1>2, <2>1, <2>2, <2>3, Zenon DEF OnSaid
<1>3. CASE b.on = {} /\ b.status # {}
  <2>1. PICK n \in Byte : b.status = {n} /\ The(b.status) = n
    BY <1>1, <1>3, OptionIs
  <2>2. ResolveOn(b) = Success(n # 0)
    BY <1>3, <2>1, Zenon DEF ResolveOn
  <2>3. \A o : Success(o).error = "none" /\ Success(o).value = o
    BY DEF Success
  <2>4. OnSaid(b) = {n # 0} /\ (n # 0) \in BOOLEAN
    BY <1>3, <2>1, Zenon DEF OnSaid
  <2> QED BY <2>2, <2>3, <2>4, Zenon
<1>4. CASE b.on = {} /\ b.status = {}
  <2>1. ResolveOn(b).error = "unsupported"
    BY <1>4 DEF ResolveOn, Failure
  <2> QED BY <1>4, <2>1 DEF OnSaid
<1> QED BY <1>2, <1>3, <1>4

(* What SentIsMeant asks of one answer to one request. *)
Answers(b, answer) ==
  IF answer.error # "none"
    THEN b.type \notin {"circuit", "heat"} \/ Meant(b) = {}
    ELSE Heard(answer.raw, answer.command) /\ Meant(b) = {ParseCommand(answer.raw)}

LEMMA BuiltAnswers ==
  ASSUME NEW b, NEW command, NEW payload, NEW raw, raw = Build(command, payload).raw,
         Heard(raw, command), NEW meaning, ParseCommand(raw) = meaning, Meant(b) = {meaning}
  PROVE  Answers(b, Build(command, payload))
<1>1. Build(command, payload).error = "none" /\ Build(command, payload).command = command
  BY DEF Build, Bytes
<1> QED BY <1>1, Zenon DEF Answers

LEMMA OctetIsByte == ASSUME NEW n PROVE n \in Byte <=> n \in F!Octets
  BY DEF Byte, F!Octets

LEMMA CircuitAnswered ==
  ASSUME NEW b \in Bodies, b.type = "circuit"
  PROVE  Answers(b, BuildCircuit(b))
<1> DEFINE circuit == ResolveCircuit(b)
           on == ResolveOn(b)
           known == {w \in b.circuit : Known(w)}
<1>1. \A x : x \in Meant(b) <=>
              \E v \in known, o \in OnSaid(b) : x = [circuit |-> MeantBy(v), on |-> o]
  BY DEF Meant, MeantBy, Known, OnSaid
<1>2. BuildCircuit(b) = IF circuit.error # "none" THEN circuit
                        ELSE IF on.error # "none" THEN on
                        ELSE Build(CircuitChange, <<circuit.value, IF on.value THEN 1 ELSE 0>>)
  BY Zenon DEF BuildCircuit
<1>3. \/ circuit.error # "none" /\ known = {}
      \/ /\ circuit.error = "none"
         /\ \E v : known = {v} /\ circuit.value = MeantBy(v) /\ MeantBy(v) \in Byte
  BY CircuitResolved
<1>4. \/ on.error # "none" /\ OnSaid(b) = {}
      \/ /\ on.error = "none"
         /\ \E o \in BOOLEAN : OnSaid(b) = {o} /\ on.value = o
  BY OnResolved
<1> HIDE DEF circuit, on, known
<1>5. CASE circuit.error # "none"
  <2>1. known = {} /\ BuildCircuit(b) = circuit
    BY <1>2, <1>3, <1>5, Zenon
  <2>2. Meant(b) = {}
    BY <1>1, <2>1, Zenon
  <2> QED BY <1>5, <2>1, <2>2, Zenon DEF Answers
<1>6. CASE circuit.error = "none" /\ on.error # "none"
  <2>1. OnSaid(b) = {} /\ BuildCircuit(b) = on
    BY <1>2, <1>4, <1>6, Zenon
  <2>2. Meant(b) = {}
    BY <1>1, <2>1, Zenon
  <2> QED BY <1>6, <2>1, <2>2, Zenon DEF Answers
<1>7. CASE circuit.error = "none" /\ on.error = "none"
  <2>1. PICK v : known = {v} /\ circuit.value = MeantBy(v) /\ MeantBy(v) \in Byte
    BY <1>3, <1>7, Zenon
  <2>2. PICK o \in BOOLEAN : OnSaid(b) = {o} /\ on.value = o
    BY <1>4, <1>7, Zenon
  <2> DEFINE c == MeantBy(v)
             d == IF o THEN 1 ELSE 0
  <2>3. BuildCircuit(b) = Build(CircuitChange, <<c, d>>)
    BY <1>2, <1>7, <2>1, <2>2, Zenon
  <2>4. c \in F!Octets
    BY <2>1, OctetIsByte, Zenon
  <2>5. d \in F!Octets /\ (d # 0 <=> o)
    BY OctetIs
  <2>6. (d # 0) = o
    BY <2>2, <2>5, Zenon
  <2> HIDE DEF c, d
  <2> DEFINE raw == Build(CircuitChange, <<c, d>>).raw
             meaning == [circuit |-> c, on |-> d # 0]
  <2>7. Heard(raw, CircuitChange) /\ ParseCommand(raw) = meaning
    BY <2>4, <2>5, CircuitSent
  <2>8. Meant(b) = {meaning}
    <3>1. Meant(b) = {[circuit |-> c, on |-> o]}
      BY <1>1, <2>1, <2>2, Zenon DEF c
    <3> QED BY <2>6, <3>1, Zenon
  <2> HIDE DEF meaning
  <2>9. Answers(b, Build(CircuitChange, <<c, d>>))
    BY <2>7, <2>8, BuiltAnswers
  <2> QED BY <2>3, <2>9
<1> QED BY <1>5, <1>6, <1>7

LEMMA HeatAnswered ==
  ASSUME NEW b \in Bodies, b.type = "heat"
  PROVE  Answers(b, BuildHeat(b))
<1> DEFINE modes == IF b.mode = {} THEN {0} ELSE b.mode
           mode == IF b.mode = {} THEN 0 ELSE The(b.mode)
<1>1. \A x : x \in Meant(b) <=>
              \E p \in b.pool_set, s \in b.spa_set, m \in modes :
                x = [pool_set |-> p, spa_set |-> s, mode |-> m]
  BY DEF Meant
<1>2. BuildHeat(b) = IF b.pool_set = {} \/ b.spa_set = {} THEN Failure("unsupported")
                     ELSE Build(HeatChange, <<The(b.pool_set), The(b.spa_set), mode, 0>>)
  BY Zenon DEF BuildHeat
<1>3. /\ b.pool_set \in OptionOf(Byte) /\ b.spa_set \in OptionOf(Byte)
      /\ b.mode \in OptionOf(Byte)
  BY BodiesAssumption
<1>4. \E m \in Byte : modes = {m} /\ mode = m
  <2>1. CASE b.mode = {}
    <3>1. 0 \in Byte
      BY DEF Byte
    <3> QED BY <2>1, <3>1
  <2>2. CASE b.mode # {}
    <3>1. PICK m \in Byte : b.mode = {m} /\ The(b.mode) = m
      BY <1>3, <2>2, OptionIs
    <3> QED BY <2>2, <3>1, Zenon
  <2> QED BY <2>1, <2>2
<1> HIDE DEF modes, mode
<1>5. CASE b.pool_set = {} \/ b.spa_set = {}
  <2>1. BuildHeat(b).error = "unsupported"
    BY <1>2, <1>5 DEF Failure
  <2>2. Meant(b) = {}
    BY <1>1, <1>5, Zenon
  <2> QED BY <2>1, <2>2 DEF Answers
<1>6. CASE ~(b.pool_set = {} \/ b.spa_set = {})
  <2>1. PICK p \in Byte : b.pool_set = {p} /\ The(b.pool_set) = p
    BY <1>3, <1>6, OptionIs
  <2>2. PICK s \in Byte : b.spa_set = {s} /\ The(b.spa_set) = s
    BY <1>3, <1>6, OptionIs
  <2>3. PICK m \in Byte : modes = {m} /\ mode = m
    BY <1>4
  <2>4. BuildHeat(b) = Build(HeatChange, <<p, s, m, 0>>)
    BY <1>2, <1>6, <2>1, <2>2, <2>3, Zenon
  <2> DEFINE raw == Build(HeatChange, <<p, s, m, 0>>).raw
             meaning == [pool_set |-> p, spa_set |-> s, mode |-> m]
  <2>5. p \in F!Octets /\ s \in F!Octets /\ m \in F!Octets
    BY OctetIsByte
  <2>6. Heard(raw, HeatChange) /\ ParseCommand(raw) = meaning
    BY <2>5, HeatSent
  <2>7. Meant(b) = {meaning}
    <3>1. \A x : x \in Meant(b) <=>
                 \E p1 \in {p}, s1 \in {s}, m1 \in {m} :
                   x = [pool_set |-> p1, spa_set |-> s1, mode |-> m1]
      BY <1>1, <2>1, <2>2, <2>3
    <3>2. \A x : x \in Meant(b) <=> x = meaning
      BY <3>1, Zenon
    <3> QED BY <3>2
  <2> HIDE DEF meaning
  <2>8. Answers(b, Build(HeatChange, <<p, s, m, 0>>))
    BY <2>6, <2>7, BuiltAnswers
  <2> QED BY <2>4, <2>8
<1> QED BY <1>5, <1>6

(* SentIsMeant is inductive: the one step that answers a request answers it   *)
(* with the bytes that say what it means, or with an error if it means none. *)
THEOREM RequestsSent == RequestSpec => []SentIsMeant
<1> DEFINE IInv == body \in Bodies /\ SentIsMeant
<1>1. RequestInit => IInv
  BY DEF RequestInit, SentIsMeant
<1>2. IInv /\ [RequestNext]_requestVars => IInv'
  <2> SUFFICES ASSUME IInv, [RequestNext]_requestVars PROVE IInv'
    OBVIOUS
  <2>1. CASE Post
    <3>1. body' = body /\ body \in Bodies /\ result' = Dispatch(body)
      BY <2>1 DEF Post
    <3>2. ASSUME body.hex = {} PROVE Answers(body, result')
      <4>1. Dispatch(body) = CASE body.type = "circuit" -> BuildCircuit(body)
                               [] body.type = "heat"    -> BuildHeat(body)
                               [] OTHER                 -> Failure("unsupported")
        BY <3>2, Zenon DEF Dispatch
      <4>2. CASE body.type = "circuit"
        <5>1. Dispatch(body) = BuildCircuit(body)
          BY <4>1, <4>2
        <5> QED BY <3>1, <4>2, <5>1, CircuitAnswered
      <4>3. CASE body.type = "heat"
        <5>1. Dispatch(body) = BuildHeat(body)
          BY <4>1, <4>3
        <5> QED BY <3>1, <4>3, <5>1, HeatAnswered
      <4>4. CASE body.type \notin {"circuit", "heat"}
        <5>1. Dispatch(body) = Failure("unsupported")
          BY <4>1, <4>4
        <5> QED BY <3>1, <4>4, <5>1 DEF Answers, Failure
      <4> QED BY <4>2, <4>3, <4>4
    <3>3. Answers(body, result') <=>
            IF result'.error # "none"
              THEN body.type \notin {"circuit", "heat"} \/ Meant(body) = {}
              ELSE LET heard == Bus!Drain(result'.raw)
                   IN  /\ heard = Arrival(result'.raw)
                       /\ DecodeMessage(heard.frames[1]) = [type    |-> "Unknown",
                                                            command |-> result'.command]
                       /\ Meant(body) = {ParseCommand(result'.raw)}
      BY Zenon DEF Answers, Heard
    <3> QED BY <3>1, <3>2, <3>3, Zenon DEF SentIsMeant, Arrival
  <2>2. CASE UNCHANGED requestVars
    BY <2>2 DEF requestVars, SentIsMeant
  <2> QED BY <2>1, <2>2 DEF RequestNext
<1> QED BY <1>1, <1>2, PTL DEF RequestSpec
=============================================================================
