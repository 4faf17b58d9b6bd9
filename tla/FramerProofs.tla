---------------------------- MODULE FramerProofs ----------------------------
(* Proofs about the framer, for any stream, any reads and any reconnects.    *)
EXTENDS Framer, InductionFacts, SequenceTheorems

(* The framer.  Its loop is seen one turn at a time: what a turn does, what   *)
(* more bytes behind the buffer change about it, and then where the turns end. *)

Octets == 0..255
Bytes  == Seq(Octets)

LEMMA BytesTyped ==
  ASSUME NEW b \in Bytes
  PROVE  Len(b) \in Nat /\ DOMAIN b = 1..Len(b) /\ \A i \in 1..Len(b) : b[i] \in Octets
  BY ElementOfSeq, LenProperties DEF Bytes

(* The delimiters, byte by byte. *)
ShortAt(b, i)   == b[i] = 0 /\ b[i + 1] = FF /\ b[i + 2] = 165
PairAt(b, i, y) == b[i] = 16 /\ b[i + 1] = y

LEMMA AtShort ==
  ASSUME NEW b \in Bytes, NEW i \in 1..(Len(b) - 2)
  PROVE  At(b, i, SyncShort) <=> ShortAt(b, i)
<1> DEFINE s == SubSeq(b, i, i + 2)
<1>1. i \in Int /\ i + 2 \in Int /\ \A j \in i..(i + 2) : j \in 1..Len(b)
  BY BytesTyped
<1>2. \A j \in i..(i + 2) : b[j] \in Octets
  BY <1>1, BytesTyped
<1>3. s \in Bytes /\ Len(s) = 3 /\ \A j \in 1..3 : s[j] = b[i + j - 1]
  <2>1. /\ s \in Seq(Octets)
        /\ Len(s) = IF i <= i + 2 THEN i + 2 - i + 1 ELSE 0
        /\ \A j \in 1..(i + 2 - i + 1) : s[j] = b[i + j - 1]
    BY <1>1, <1>2, SubSeqProperties
  <2>2. i <= i + 2 /\ i + 2 - i + 1 = 3
    BY <1>1
  <2> QED BY <2>1, <2>2 DEF Bytes
<1>4. SyncShort \in Bytes /\ Len(SyncShort) = 3 /\ SyncShort[1] = 0 /\ SyncShort[2] = FF
      /\ SyncShort[3] = 165
  BY DEF SyncShort, FF, Bytes, Octets
<1>5. s[1] = b[i] /\ s[2] = b[i + 1] /\ s[3] = b[i + 2]
  BY <1>1, <1>3
<1> HIDE DEF s
<1>6. s = SyncShort <=> s[1] = 0 /\ s[2] = FF /\ s[3] = 165
  <2>1. (\A j \in 1..3 : s[j] = SyncShort[j]) => s = SyncShort
    <3> SUFFICES ASSUME \A j \in 1..3 : s[j] = SyncShort[j] PROVE s = SyncShort
      OBVIOUS
    <3>1. Len(s) = Len(SyncShort) /\ \A j \in 1..Len(s) : s[j] = SyncShort[j]
      BY <1>3, <1>4
    <3> QED BY <1>3, <1>4, <3>1, SeqEqual DEF Bytes
  <2>2. \A j \in 1..3 : j = 1 \/ j = 2 \/ j = 3
    OBVIOUS
  <2> QED BY <1>4, <2>1, <2>2
<1>7. At(b, i, SyncShort) <=> s = SyncShort
  BY <1>1, <1>4 DEF At, s
<1> QED BY <1>5, <1>6, <1>7 DEF ShortAt

LEMMA AtPair ==
  ASSUME NEW b \in Bytes, NEW i \in 1..(Len(b) - 1), NEW y \in Octets
  PROVE  At(b, i, <<16, y>>) <=> PairAt(b, i, y)
<1> DEFINE s == SubSeq(b, i, i + 1)
           t == <<16, y>>
<1>1. i \in Int /\ i + 1 \in Int /\ \A j \in i..(i + 1) : j \in 1..Len(b)
  BY BytesTyped
<1>2. \A j \in i..(i + 1) : b[j] \in Octets
  BY <1>1, BytesTyped
<1>3. s \in Bytes /\ Len(s) = 2 /\ \A j \in 1..2 : s[j] = b[i + j - 1]
  <2>1. /\ s \in Seq(Octets)
        /\ Len(s) = IF i <= i + 1 THEN i + 1 - i + 1 ELSE 0
        /\ \A j \in 1..(i + 1 - i + 1) : s[j] = b[i + j - 1]
    BY <1>1, <1>2, SubSeqProperties
  <2>2. i <= i + 1 /\ i + 1 - i + 1 = 2
    BY <1>1
  <2> QED BY <2>1, <2>2 DEF Bytes
<1>4. t \in Bytes /\ Len(t) = 2 /\ t[1] = 16 /\ t[2] = y
  BY DEF Bytes, Octets
<1>5. s[1] = b[i] /\ s[2] = b[i + 1]
  BY <1>1, <1>3
<1>6. At(b, i, t) <=> s = t
  BY <1>1, <1>4 DEF At
<1> HIDE DEF s, t
<1>7. s = t <=> s[1] = 16 /\ s[2] = y
  <2>1. (\A j \in 1..2 : s[j] = t[j]) => s = t
    BY <1>3, <1>4, SeqEqual DEF Bytes
  <2>2. \A j \in 1..2 : j = 1 \/ j = 2
    OBVIOUS
  <2> QED BY <1>4, <2>1, <2>2
<1> QED BY <1>5, <1>6, <1>7 DEF PairAt, t

(* find_subslice gives the first place, or 0. *)
IsFirst(k, b, needle, from, last) ==
  \/ k = 0 /\ \A i \in from..last : ~At(b, i, needle)
  \/ k \in from..last /\ At(b, k, needle) /\ \A i \in from..(k - 1) : ~At(b, i, needle)

LEMMA FoundFirst ==
  ASSUME NEW b \in Bytes, NEW needle, NEW n \in Nat, n = Len(needle), n > 0,
         NEW from \in Nat, NEW to \in Nat, from > 0, to <= Len(b),
         NEW last, last = to - n + 1
  PROVE  IsFirst(FindIn(b, needle, from, to), b, needle, from, last)
<1> DEFINE k == FindIn(b, needle, from, to)
<1> DEFINE hits == {i \in Occurrences(b, needle) : i >= from /\ i + Len(needle) - 1 <= to}
<1>0. Len(b) \in Nat
  BY BytesTyped
<1>1. k = IF hits = {} THEN 0 ELSE CHOOSE i \in hits : \A j \in hits : i <= j
  BY DEF FindIn
<1>2. \A i \in from..(to - n + 1) : i \in 1..(Len(b) - Len(needle) + 1) /\ i >= from
                                   /\ i + Len(needle) - 1 <= to
  BY <1>0
<1>3. \A i \in from..(to - n + 1) : At(b, i, needle) => i \in hits
  BY <1>2 DEF Occurrences
<1>4. \A i \in hits : i \in from..(to - n + 1) /\ At(b, i, needle)
  <2> SUFFICES ASSUME NEW i \in hits PROVE i \in from..(to - n + 1) /\ At(b, i, needle)
    OBVIOUS
  <2>1. i \in 1..(Len(b) - Len(needle) + 1) /\ At(b, i, needle) /\ i >= from
        /\ i + Len(needle) - 1 <= to
    BY DEF Occurrences
  <2> QED BY <1>0, <2>1
<1> SUFFICES IsFirst(k, b, needle, from, last)
  OBVIOUS
<1> HIDE DEF hits, k
<1>5. CASE hits = {}
  BY <1>1, <1>3, <1>5 DEF IsFirst
<1>6. CASE hits # {}
  <2>1. hits \subseteq Nat
    BY <1>4
  <2>2. \E i \in hits : \A j \in hits : i <= j
    BY <1>6, <2>1, LeastNatural
  <2>3. k \in hits /\ \A j \in hits : k <= j
    BY <1>1, <1>6, <2>2
  <2>4. \A i \in from..(k - 1) : i \in from..(to - n + 1) /\ ~(k <= i)
    BY <1>4, <2>3
  <2> QED BY <1>3, <1>4, <2>3, <2>4 DEF IsFirst
<1> QED BY <1>5, <1>6

FirstShort(b) == FindIn(b, SyncShort, 1, Len(b))
FirstStx(b)   == FindIn(b, Stx, 1, Len(b))
FirstEtx(b)   == FindIn(b, Etx, 3, IF Len(b) < IcMax THEN Len(b) ELSE IcMax)

LEMMA FirstShortIs ==
  ASSUME NEW b \in Bytes, NEW k, k = FirstShort(b)
  PROVE  \/ k = 0 /\ \A i \in 1..(Len(b) - 2) : ~ShortAt(b, i)
         \/ k \in 1..(Len(b) - 2) /\ ShortAt(b, k) /\ \A i \in 1..(k - 1) : ~ShortAt(b, i)
<1>1. Len(b) \in Nat /\ Len(SyncShort) = 3 /\ Len(b) - 3 + 1 = Len(b) - 2
  BY BytesTyped DEF SyncShort
<1>2. IsFirst(k, b, SyncShort, 1, Len(b) - 2)
  <2>1. /\ Len(b) \in Nat /\ Len(b) <= Len(b) /\ Len(b) - 2 = Len(b) - 3 + 1
        /\ 3 = Len(SyncShort) /\ 3 \in Nat /\ 3 > 0 /\ 1 \in Nat /\ 1 > 0
    BY <1>1
  <2>2. IsFirst(FindIn(b, SyncShort, 1, Len(b)), b, SyncShort, 1, Len(b) - 2)
    BY <2>1, FoundFirst, Zenon
  <2> QED BY <2>2 DEF FirstShort
<1>3. CASE k = 0 /\ \A i \in 1..(Len(b) - 2) : ~At(b, i, SyncShort)
  BY <1>3, AtShort
<1>4. CASE /\ k \in 1..(Len(b) - 2) /\ At(b, k, SyncShort)
           /\ \A i \in 1..(k - 1) : ~At(b, i, SyncShort)
  <2>1. \A i \in 1..(k - 1) : i \in 1..(Len(b) - 2)
    BY <1>1, <1>4
  <2> QED BY <1>4, <2>1, AtShort
<1> QED BY <1>2, <1>3, <1>4 DEF IsFirst

LEMMA FirstStxIs ==
  ASSUME NEW b \in Bytes, NEW k, k = FirstStx(b)
  PROVE  \/ k = 0 /\ \A i \in 1..(Len(b) - 1) : ~PairAt(b, i, 2)
         \/ k \in 1..(Len(b) - 1) /\ PairAt(b, k, 2) /\ \A i \in 1..(k - 1) : ~PairAt(b, i, 2)
<1>1. Len(b) \in Nat /\ Len(Stx) = 2 /\ Len(b) - 2 + 1 = Len(b) - 1 /\ 2 \in Octets
  BY BytesTyped DEF Stx, Octets
<1>2. IsFirst(k, b, Stx, 1, Len(b) - 1)
  <2>1. /\ Len(b) \in Nat /\ Len(b) <= Len(b) /\ Len(b) - 1 = Len(b) - 2 + 1
        /\ 2 = Len(Stx) /\ 2 \in Nat /\ 2 > 0 /\ 1 \in Nat /\ 1 > 0
    BY <1>1
  <2>2. IsFirst(FindIn(b, Stx, 1, Len(b)), b, Stx, 1, Len(b) - 1)
    BY <2>1, FoundFirst, Zenon
  <2> QED BY <2>2 DEF FirstStx
<1>3. \A i \in 1..(Len(b) - 1) : At(b, i, Stx) <=> PairAt(b, i, 2)
  BY <1>1, AtPair DEF Stx
<1>4. k \in 1..(Len(b) - 1) => \A i \in 1..(k - 1) : i \in 1..(Len(b) - 1)
  BY <1>1
<1> QED BY <1>1, <1>2, <1>3, <1>4 DEF IsFirst

LEMMA FirstEtxIs ==
  ASSUME NEW b \in Bytes, NEW k, k = FirstEtx(b),
         NEW w, w = IF Len(b) < IcMax THEN Len(b) ELSE IcMax
  PROVE  /\ w \in 0..Len(b)
         /\ \/ k = 0 /\ \A i \in 3..(w - 1) : ~PairAt(b, i, 3)
            \/ k \in 3..(w - 1) /\ PairAt(b, k, 3) /\ \A i \in 3..(k - 1) : ~PairAt(b, i, 3)
<1>1. Len(b) \in Nat /\ IcMax \in Nat /\ Len(Etx) = 2 /\ 3 \in Octets
  BY BytesTyped, FramerAssumption DEF Etx, Octets
<1>2. w \in Nat /\ w <= Len(b) /\ w - 2 + 1 = w - 1
  BY <1>1
<1>3. IsFirst(k, b, Etx, 3, w - 1)
  <2>1. /\ w \in Nat /\ w <= Len(b) /\ w - 1 = w - 2 + 1
        /\ 2 = Len(Etx) /\ 2 \in Nat /\ 2 > 0 /\ 3 \in Nat /\ 3 > 0
    BY <1>1, <1>2
  <2>2. IsFirst(FindIn(b, Etx, 3, w), b, Etx, 3, w - 1)
    BY <2>1, FoundFirst, Zenon
  <2> QED BY <2>2 DEF FirstEtx
<1>4. \A i \in 3..(w - 1) : i \in 1..(Len(b) - 1)
  BY <1>1, <1>2
<1>5. \A i \in 3..(w - 1) : At(b, i, Etx) <=> PairAt(b, i, 3)
  BY <1>1, <1>4, AtPair DEF Etx
<1>6. k \in 3..(w - 1) => \A i \in 3..(k - 1) : i \in 3..(w - 1)
  BY <1>2
<1> QED BY <1>1, <1>2, <1>3, <1>5, <1>6 DEF IsFirst
-----------------------------------------------------------------------------
(* The sync of a buffer, of which there is one at most. *)
ShortHit(b) ==
  Hit("A5", IF FirstShort(b) > 1 /\ b[FirstShort(b) - 1] = FF THEN FirstShort(b) - 1
            ELSE FirstShort(b), FirstShort(b) + 2)
StxHit(b)   == Hit("IntelliChlor", FirstStx(b), FirstStx(b))

NoSync(b)     == FirstShort(b) = 0 /\ FirstStx(b) = 0
ShortFirst(b) == FirstShort(b) # 0 /\ (FirstStx(b) = 0 \/ FirstShort(b) + 2 < FirstStx(b))

LEMMA FirstsTyped ==
  ASSUME NEW b \in Bytes
  PROVE  /\ FirstShort(b) \in Nat /\ FirstStx(b) \in Nat
         /\ FirstShort(b) # 0 /\ FirstStx(b) # 0 => FirstShort(b) + 2 # FirstStx(b)
<1>1. Len(b) \in Nat
  BY BytesTyped
<1>2. FirstShort(b) \in Nat
  BY <1>1, FirstShortIs
<1>3. FirstStx(b) \in Nat
  BY <1>1, FirstStxIs
<1>4. FirstShort(b) # 0 => b[FirstShort(b) + 2] = 165
  BY FirstShortIs DEF ShortAt
<1>5. FirstStx(b) # 0 => b[FirstStx(b)] = 16
  BY FirstStxIs DEF PairAt
<1> QED BY <1>2, <1>3, <1>4, <1>5

LEMMA SyncIs ==
  ASSUME NEW b \in Bytes
  PROVE  EarliestSync(b) = IF NoSync(b) THEN {}
                           ELSE IF ShortFirst(b) THEN {ShortHit(b)} ELSE {StxHit(b)}
<1> DEFINE i == FirstShort(b)
           j == FirstStx(b)
           x == ShortHit(b)
           y == StxHit(b)
<1>1. i \in Nat /\ j \in Nat /\ (i # 0 /\ j # 0 => i + 2 # j)
  BY FirstsTyped
<1>2. A5Syncs(b) = IF i = 0 THEN {} ELSE {x}
  BY DEF A5Syncs, FirstShort, ShortHit
<1>3. ChlorSyncs(b) = IF j = 0 THEN {} ELSE {y}
  BY DEF ChlorSyncs, FirstStx, StxHit
<1>4. x.mark = i + 2 /\ y.mark = j
  BY DEF ShortHit, StxHit, Hit
<1>5. EarliestSync(b) = {h \in A5Syncs(b) \cup ChlorSyncs(b) :
                           \A k \in A5Syncs(b) \cup ChlorSyncs(b) : h.mark <= k.mark}
  BY DEF EarliestSync
<1>6. NoSync(b) <=> i = 0 /\ j = 0
  BY DEF NoSync
<1>7. ShortFirst(b) <=> i # 0 /\ (j = 0 \/ i + 2 < j)
  BY DEF ShortFirst
<1> HIDE DEF i, j, x, y
<1>8. CASE i = 0 /\ j = 0
  BY <1>2, <1>3, <1>5, <1>6, <1>8
<1>9. CASE i # 0 /\ j = 0
  <2>1. EarliestSync(b) = {x}
    BY <1>1, <1>2, <1>3, <1>4, <1>5, <1>9
  <2> QED BY <1>6, <1>7, <1>9, <2>1 DEF x
<1>10. CASE i = 0 /\ j # 0
  <2>1. EarliestSync(b) = {y}
    BY <1>1, <1>2, <1>3, <1>4, <1>5, <1>10
  <2> QED BY <1>6, <1>7, <1>10, <2>1 DEF y
<1>11. CASE i # 0 /\ j # 0
  <2>0. EarliestSync(b) = {h \in {x, y} : \A k \in {x, y} : h.mark <= k.mark}
    BY <1>2, <1>3, <1>5, <1>11
  <2>1. CASE i + 2 < j
    <3>1. EarliestSync(b) = {x}
      BY <1>1, <1>4, <2>0, <2>1
    <3> QED BY <1>6, <1>7, <1>11, <2>1, <3>1 DEF x
  <2>2. CASE j < i + 2
    <3>1. EarliestSync(b) = {y}
      BY <1>1, <1>4, <2>0, <2>2
    <3>2. ~(i + 2 < j)
      BY <1>1, <2>2
    <3> QED BY <1>6, <1>7, <1>11, <3>1, <3>2 DEF y
  <2> QED BY <1>1, <1>11, <2>1, <2>2
<1> QED BY <1>8, <1>9, <1>10, <1>11

(* e begins with what is in b. *)
Begins(b, e) == Len(b) <= Len(e) /\ \A i \in 1..Len(b) : e[i] = b[i]

(* More bytes behind do not change where the first delimiter is.             *)
LEMMA MoreKeepsFirst ==
  ASSUME NEW b \in Bytes, NEW e \in Bytes, Begins(b, e)
  PROVE  /\ \/ FirstShort(e) = FirstShort(b)
            \/ FirstShort(b) = 0 /\ FirstShort(e) + 2 > Len(b)
         /\ \/ FirstStx(e) = FirstStx(b)
            \/ FirstStx(b) = 0 /\ FirstStx(e) + 1 > Len(b)
<1>1. Len(b) \in Nat /\ Len(e) \in Nat /\ Len(b) <= Len(e) /\ \A i \in 1..Len(b) : e[i] = b[i]
  BY BytesTyped DEF Begins
<1>2. \A i \in 1..(Len(b) - 2) : i \in 1..(Len(e) - 2) /\ (ShortAt(e, i) <=> ShortAt(b, i))
  <2> SUFFICES ASSUME NEW i \in 1..(Len(b) - 2)
               PROVE  i \in 1..(Len(e) - 2) /\ (ShortAt(e, i) <=> ShortAt(b, i))
    OBVIOUS
  <2>1. i \in 1..Len(b) /\ i + 1 \in 1..Len(b) /\ i + 2 \in 1..Len(b) /\ i \in 1..(Len(e) - 2)
    BY <1>1
  <2> QED BY <1>1, <2>1 DEF ShortAt
<1>3. \A i \in 1..(Len(b) - 1) : i \in 1..(Len(e) - 1) /\ (PairAt(e, i, 2) <=> PairAt(b, i, 2))
  <2> SUFFICES ASSUME NEW i \in 1..(Len(b) - 1)
               PROVE  i \in 1..(Len(e) - 1) /\ (PairAt(e, i, 2) <=> PairAt(b, i, 2))
    OBVIOUS
  <2>1. i \in 1..Len(b) /\ i + 1 \in 1..Len(b) /\ i \in 1..(Len(e) - 1)
    BY <1>1
  <2> QED BY <1>1, <2>1 DEF PairAt
<1>4. \/ FirstShort(e) = FirstShort(b)
      \/ FirstShort(b) = 0 /\ FirstShort(e) + 2 > Len(b)
  <2> DEFINE k == FirstShort(b)
             m == FirstShort(e)
  <2>1. \/ k = 0 /\ \A i \in 1..(Len(b) - 2) : ~ShortAt(b, i)
        \/ k \in 1..(Len(b) - 2) /\ ShortAt(b, k) /\ \A i \in 1..(k - 1) : ~ShortAt(b, i)
    BY FirstShortIs
  <2>2. \/ m = 0 /\ \A i \in 1..(Len(e) - 2) : ~ShortAt(e, i)
        \/ m \in 1..(Len(e) - 2) /\ ShortAt(e, m) /\ \A i \in 1..(m - 1) : ~ShortAt(e, i)
    BY FirstShortIs
  <2> SUFFICES m = k \/ (k = 0 /\ m + 2 > Len(b))
    OBVIOUS
  <2> HIDE DEF k, m
  <2>3. CASE k = 0 /\ \A i \in 1..(Len(b) - 2) : ~ShortAt(b, i)
    <3> SUFFICES ASSUME m # 0, m + 2 <= Len(b) PROVE FALSE
      <4>1. m \in Nat /\ Len(b) \in Nat
        BY <1>1, <2>2
      <4> QED BY <2>3, <4>1
    <3>1. m \in 1..(Len(b) - 2)
      BY <1>1, <2>2
    <3> QED BY <1>2, <2>2, <2>3, <3>1
  <2>4. CASE k \in 1..(Len(b) - 2) /\ ShortAt(b, k) /\ \A i \in 1..(k - 1) : ~ShortAt(b, i)
    <3>1. k \in 1..(Len(e) - 2) /\ ShortAt(e, k)
      BY <1>2, <2>4
    <3>2. \A i \in 1..(k - 1) : ~ShortAt(e, i)
      BY <1>1, <1>2, <2>4
    <3>3. m \in Nat \ {0} /\ k \in Nat \ {0}
      BY <1>1, <2>2, <2>4, <3>1
    <3>4. ~(m < k)
      BY <2>2, <3>2, <3>3
    <3>5. ~(k < m)
      BY <2>2, <3>1, <3>3
    <3> QED BY <3>3, <3>4, <3>5
  <2> QED BY <2>1, <2>3, <2>4
<1>5. \/ FirstStx(e) = FirstStx(b)
      \/ FirstStx(b) = 0 /\ FirstStx(e) + 1 > Len(b)
  <2> DEFINE k == FirstStx(b)
             m == FirstStx(e)
  <2>1. \/ k = 0 /\ \A i \in 1..(Len(b) - 1) : ~PairAt(b, i, 2)
        \/ k \in 1..(Len(b) - 1) /\ PairAt(b, k, 2) /\ \A i \in 1..(k - 1) : ~PairAt(b, i, 2)
    BY FirstStxIs
  <2>2. \/ m = 0 /\ \A i \in 1..(Len(e) - 1) : ~PairAt(e, i, 2)
        \/ m \in 1..(Len(e) - 1) /\ PairAt(e, m, 2) /\ \A i \in 1..(m - 1) : ~PairAt(e, i, 2)
    BY FirstStxIs
  <2> SUFFICES m = k \/ (k = 0 /\ m + 1 > Len(b))
    OBVIOUS
  <2> HIDE DEF k, m
  <2>3. CASE k = 0 /\ \A i \in 1..(Len(b) - 1) : ~PairAt(b, i, 2)
    <3> SUFFICES ASSUME m # 0, m + 1 <= Len(b) PROVE FALSE
      <4>1. m \in Nat /\ Len(b) \in Nat
        BY <1>1, <2>2
      <4> QED BY <2>3, <4>1
    <3>1. m \in 1..(Len(b) - 1)
      BY <1>1, <2>2
    <3> QED BY <1>3, <2>2, <2>3, <3>1
  <2>4. CASE k \in 1..(Len(b) - 1) /\ PairAt(b, k, 2) /\ \A i \in 1..(k - 1) : ~PairAt(b, i, 2)
    <3>1. k \in 1..(Len(e) - 1) /\ PairAt(e, k, 2)
      BY <1>3, <2>4
    <3>2. \A i \in 1..(k - 1) : ~PairAt(e, i, 2)
      BY <1>1, <1>3, <2>4
    <3>3. m \in Nat \ {0} /\ k \in Nat \ {0}
      BY <1>1, <2>2, <2>4, <3>1
    <3>4. ~(m < k)
      BY <2>2, <3>2, <3>3
    <3>5. ~(k < m)
      BY <2>2, <3>1, <3>3
    <3> QED BY <3>3, <3>4, <3>5
  <2> QED BY <2>1, <2>3, <2>4
<1> QED BY <1>4, <1>5

(* Nor which of the two comes first. *)
LEMMA MoreKeepsSync ==
  ASSUME NEW b \in Bytes, NEW e \in Bytes, Begins(b, e), ~NoSync(b)
  PROVE  ~NoSync(e) /\ (ShortFirst(e) <=> ShortFirst(b))
         /\ (ShortFirst(b) => ShortHit(e) = ShortHit(b))
         /\ (~ShortFirst(b) => StxHit(e) = StxHit(b))
<1> DEFINE k == FirstShort(b)
           m == FirstShort(e)
           x == FirstStx(b)
           y == FirstStx(e)
<1>1. k \in Nat /\ m \in Nat /\ x \in Nat /\ y \in Nat
  BY FirstsTyped
<1>2. m # 0 /\ y # 0 => m + 2 # y
  BY FirstsTyped
<1>3. (m = k \/ (k = 0 /\ m + 2 > Len(b))) /\ (y = x \/ (x = 0 /\ y + 1 > Len(b)))
  BY MoreKeepsFirst
<1>4. /\ k = 0 \/ k + 2 <= Len(b)
      /\ x = 0 \/ x + 1 <= Len(b)
      /\ Len(b) \in Nat
  <2>1. Len(b) \in Nat
    BY BytesTyped
  <2>2. k = 0 \/ k \in 1..(Len(b) - 2)
    BY FirstShortIs
  <2>3. x = 0 \/ x \in 1..(Len(b) - 1)
    BY FirstStxIs
  <2> HIDE DEF k, x
  <2> QED BY <2>1, <2>2, <2>3
<1>5. k # 0 \/ x # 0
  BY DEF NoSync
<1>6. ShortFirst(b) <=> k # 0 /\ (x = 0 \/ k + 2 < x)
  BY DEF ShortFirst
<1>7. ShortFirst(e) <=> m # 0 /\ (y = 0 \/ m + 2 < y)
  BY DEF ShortFirst
<1>8. NoSync(e) <=> m = 0 /\ y = 0
  BY DEF NoSync
<1>9. (k # 0 => m = k) /\ (x # 0 => y = x) /\ (m # 0 \/ y # 0)
  <2> HIDE DEF k, m, x, y
  <2> QED BY <1>1, <1>3, <1>5
<1>10. (k # 0 /\ (x = 0 \/ k + 2 < x)) <=> (m # 0 /\ (y = 0 \/ m + 2 < y))
  <2> HIDE DEF k, m, x, y
  <2> QED BY <1>1, <1>2, <1>3, <1>4, <1>5
<1>11. ShortFirst(b) => ShortHit(e) = ShortHit(b)
  <2> SUFFICES ASSUME ShortFirst(b) PROVE ShortHit(e) = ShortHit(b)
    OBVIOUS
  <2>1. m = k /\ k # 0
    BY <1>6, <1>9
  <2>2. k > 1 => e[k - 1] = b[k - 1]
    <3> HIDE DEF k
    <3>1. k > 1 => k - 1 \in 1..Len(b)
      BY <1>1, <1>4
    <3> QED BY <3>1 DEF Begins
  <2> QED BY <2>1, <2>2 DEF ShortHit
<1>12. ~ShortFirst(b) => StxHit(e) = StxHit(b)
  <2> SUFFICES ASSUME ~ShortFirst(b) PROVE y = x
    BY DEF StxHit
  <2>1. x # 0
    BY <1>5, <1>6
  <2> QED BY <1>9, <2>1
<1>13. ShortFirst(e) <=> ShortFirst(b)
  BY <1>6, <1>7, <1>10
<1> QED BY <1>8, <1>9, <1>11, <1>12, <1>13
-----------------------------------------------------------------------------
(* The buffer loses bytes at its front and gets more at its end. *)
LEMMA DropIs ==
  ASSUME NEW b \in Bytes, NEW n \in Nat, n <= Len(b)
  PROVE  /\ Drop(b, n) \in Bytes /\ Len(Drop(b, n)) = Len(b) - n
         /\ \A i \in 1..(Len(b) - n) : Drop(b, n)[i] = b[n + i]
<1>1. Len(b) \in Nat /\ n + 1 \in Int /\ Len(b) \in Int /\ \A i \in (n + 1)..Len(b) : i \in 1..Len(b)
  BY BytesTyped
<1>2. \A i \in (n + 1)..Len(b) : b[i] \in Octets
  BY <1>1, BytesTyped
<1>3. /\ SubSeq(b, n + 1, Len(b)) \in Seq(Octets)
      /\ Len(SubSeq(b, n + 1, Len(b))) = IF n + 1 <= Len(b) THEN Len(b) - (n + 1) + 1 ELSE 0
      /\ \A i \in 1..(Len(b) - (n + 1) + 1) : SubSeq(b, n + 1, Len(b))[i] = b[n + 1 + i - 1]
  BY <1>1, <1>2, SubSeqProperties
<1>4. /\ (IF n + 1 <= Len(b) THEN Len(b) - (n + 1) + 1 ELSE 0) = Len(b) - n
      /\ Len(b) - (n + 1) + 1 = Len(b) - n
      /\ \A i \in 1..(Len(b) - n) : n + 1 + i - 1 = n + i
  BY <1>1
<1> QED BY <1>3, <1>4 DEF Drop, Bytes

LEMMA FrontIs ==
  ASSUME NEW b \in Bytes, NEW n \in Nat, n <= Len(b)
  PROVE  /\ SubSeq(b, 1, n) \in Bytes /\ Len(SubSeq(b, 1, n)) = n
         /\ \A i \in 1..n : SubSeq(b, 1, n)[i] = b[i]
<1>1. Len(b) \in Nat /\ 1 \in Int /\ n \in Int /\ \A i \in 1..n : i \in 1..Len(b)
  BY BytesTyped
<1>2. \A i \in 1..n : b[i] \in Octets
  BY <1>1, BytesTyped
<1>3. /\ SubSeq(b, 1, n) \in Seq(Octets)
      /\ Len(SubSeq(b, 1, n)) = IF 1 <= n THEN n - 1 + 1 ELSE 0
      /\ \A i \in 1..(n - 1 + 1) : SubSeq(b, 1, n)[i] = b[1 + i - 1]
  BY <1>1, <1>2, SubSeqProperties
<1>4. (IF 1 <= n THEN n - 1 + 1 ELSE 0) = n /\ n - 1 + 1 = n /\ \A i \in 1..n : 1 + i - 1 = i
  OBVIOUS
<1> QED BY <1>3, <1>4 DEF Bytes

LEMMA JoinIs ==
  ASSUME NEW b \in Bytes, NEW c \in Bytes
  PROVE  /\ b \o c \in Bytes /\ Len(b \o c) = Len(b) + Len(c) /\ Begins(b, b \o c)
         /\ \A i \in 1..Len(c) : (b \o c)[Len(b) + i] = c[i]
<1>1. Len(b) \in Nat /\ Len(c) \in Nat
  BY BytesTyped
<1>2. /\ b \o c \in Bytes /\ Len(b \o c) = Len(b) + Len(c)
      /\ \A i \in 1..(Len(b) + Len(c)) : (b \o c)[i] = IF i <= Len(b) THEN b[i] ELSE c[i - Len(b)]
  BY ConcatProperties DEF Bytes
<1>3. \A i \in 1..Len(b) : i \in 1..(Len(b) + Len(c)) /\ i <= Len(b)
  BY <1>1
<1>4. \A i \in 1..Len(c) : /\ Len(b) + i \in 1..(Len(b) + Len(c)) /\ ~(Len(b) + i <= Len(b))
                           /\ Len(b) + i - Len(b) = i
  BY <1>1
<1>5. Len(b) <= Len(b \o c)
  BY <1>1, <1>2
<1> QED BY <1>2, <1>3, <1>4, <1>5 DEF Begins

LEMMA SameBytes ==
  ASSUME NEW b \in Bytes, NEW c \in Bytes, Len(b) = Len(c), \A i \in 1..Len(b) : b[i] = c[i]
  PROVE  b = c
  BY SeqEqual DEF Bytes

LEMMA DropOfJoin ==
  ASSUME NEW b \in Bytes, NEW c \in Bytes, NEW n \in Nat, n <= Len(b)
  PROVE  Drop(b \o c, n) = Drop(b, n) \o c
<1> DEFINE e == b \o c
           x == Drop(e, n)
           d == Drop(b, n)
           y == d \o c
<1>1. Len(b) \in Nat /\ Len(c) \in Nat
  BY BytesTyped
<1>2. /\ e \in Bytes /\ Len(e) = Len(b) + Len(c) /\ \A i \in 1..Len(b) : e[i] = b[i]
      /\ \A i \in 1..Len(c) : e[Len(b) + i] = c[i]
  BY JoinIs DEF Begins
<1>3. d \in Bytes /\ Len(d) = Len(b) - n /\ \A i \in 1..(Len(b) - n) : d[i] = b[n + i]
  BY DropIs
<1>4. /\ y \in Bytes /\ Len(y) = Len(d) + Len(c) /\ \A i \in 1..Len(d) : y[i] = d[i]
      /\ \A i \in 1..Len(c) : y[Len(d) + i] = c[i]
  <2> HIDE DEF d
  <2> QED BY <1>3, JoinIs DEF Begins
<1>5. x \in Bytes /\ Len(x) = Len(e) - n /\ \A i \in 1..(Len(e) - n) : x[i] = e[n + i]
  <2>1. n <= Len(e)
    BY <1>1, <1>2
  <2> HIDE DEF e
  <2> QED BY <1>2, <2>1, DropIs
<1> SUFFICES x = y
  OBVIOUS
<1> HIDE DEF e, x, d, y
<1>6. Len(x) = Len(y)
  BY <1>1, <1>2, <1>3, <1>4, <1>5
<1>7. ASSUME NEW i \in 1..Len(x) PROVE x[i] = y[i]
  <2>1. x[i] = e[n + i] /\ i \in 1..(Len(b) + Len(c) - n)
    BY <1>2, <1>5
  <2>2. CASE i <= Len(b) - n
    <3>1. i \in 1..(Len(b) - n) /\ i \in 1..Len(d) /\ n + i \in 1..Len(b)
      BY <1>1, <1>3, <2>1, <2>2
    <3> QED BY <1>2, <1>3, <1>4, <2>1, <3>1
  <2>3. CASE ~(i <= Len(b) - n)
    <3> DEFINE j == i - (Len(b) - n)
    <3>1. j \in 1..Len(c) /\ n + i = Len(b) + j /\ i = Len(d) + j
      BY <1>1, <1>3, <2>1, <2>3
    <3> HIDE DEF j
    <3>2. e[n + i] = c[j] /\ y[i] = c[j]
      BY <1>2, <1>4, <3>1
    <3> QED BY <2>1, <3>2
  <2> QED BY <2>2, <2>3
<1> QED BY <1>4, <1>5, <1>6, <1>7, SameBytes

LEMMA DropOfDrop ==
  ASSUME NEW b \in Bytes, NEW m \in Nat, NEW n \in Nat, m + n <= Len(b)
  PROVE  Drop(Drop(b, m), n) = Drop(b, m + n)
<1> DEFINE d == Drop(b, m)
           x == Drop(d, n)
           y == Drop(b, m + n)
<1>1. Len(b) \in Nat /\ m + n \in Nat /\ m <= Len(b)
  BY BytesTyped
<1>2. d \in Bytes /\ Len(d) = Len(b) - m /\ \A i \in 1..(Len(b) - m) : d[i] = b[m + i]
  BY <1>1, DropIs
<1>3. y \in Bytes /\ Len(y) = Len(b) - (m + n) /\ \A i \in 1..(Len(b) - (m + n)) : y[i] = b[m + n + i]
  BY <1>1, DropIs
<1>4. x \in Bytes /\ Len(x) = Len(d) - n /\ \A i \in 1..(Len(d) - n) : x[i] = d[n + i]
  <2>1. n <= Len(d)
    BY <1>1, <1>2
  <2> HIDE DEF d
  <2> QED BY <1>2, <2>1, DropIs
<1> SUFFICES x = y
  OBVIOUS
<1> HIDE DEF d, x, y
<1>5. Len(x) = Len(y)
  BY <1>1, <1>2, <1>3, <1>4
<1>6. ASSUME NEW i \in 1..Len(x) PROVE x[i] = y[i]
  <2>1. /\ i \in 1..(Len(d) - n) /\ n + i \in 1..(Len(b) - m) /\ i \in 1..(Len(b) - (m + n))
        /\ m + (n + i) = m + n + i
    BY <1>1, <1>2, <1>4
  <2> QED BY <1>2, <1>3, <1>4, <2>1
<1> QED BY <1>3, <1>4, <1>5, <1>6, SameBytes

LEMMA FrontOfMore ==
  ASSUME NEW b \in Bytes, NEW e \in Bytes, Begins(b, e), NEW n \in Nat, n <= Len(b)
  PROVE  SubSeq(e, 1, n) = SubSeq(b, 1, n)
<1> DEFINE x == SubSeq(e, 1, n)
           y == SubSeq(b, 1, n)
<1>1. Len(b) \in Nat /\ Len(e) \in Nat /\ n <= Len(e)
  BY BytesTyped DEF Begins
<1>2. y \in Bytes /\ Len(y) = n /\ \A i \in 1..n : y[i] = b[i]
  BY FrontIs
<1>3. x \in Bytes /\ Len(x) = n /\ \A i \in 1..n : x[i] = e[i]
  BY <1>1, FrontIs
<1> SUFFICES x = y
  OBVIOUS
<1> HIDE DEF x, y
<1>4. \A i \in 1..n : i \in 1..Len(b)
  BY <1>1
<1>5. \A i \in 1..Len(x) : x[i] = y[i]
  BY <1>2, <1>3, <1>4 DEF Begins
<1> QED BY <1>2, <1>3, <1>5, SameBytes
-----------------------------------------------------------------------------
(* What the loop does in one turn. *)
Sync(b)  == IF ShortFirst(b) THEN ShortHit(b) ELSE StxHit(b)
Taken(b) == IF Sync(b).kind = "A5" THEN TakeA5(b, Sync(b).mark) ELSE TakeChlor(b)

GivenFrame == [kind : {"A5", "IntelliChlor"}, raw : Bytes, checksum_ok : BOOLEAN]
States     == [buf : Bytes, frames : Seq(GivenFrame)]

FrameOf(b) == [kind |-> Taken(b).kind, raw |-> SubSeq(b, 1, Taken(b).n),
               checksum_ok |-> Taken(b).ok]

LEMMA TurnIs ==
  ASSUME NEW s \in States, NEW b, b = s.buf
  PROVE  Turn(s) =
           IF NoSync(b) THEN [s EXCEPT !.buf = TailKept(b)]
           ELSE IF Sync(b).first > 1 THEN [s EXCEPT !.buf = Drop(b, Sync(b).first - 1)]
           ELSE IF Taken(b).take = "more" THEN s
           ELSE IF Taken(b).take = "drop" THEN [s EXCEPT !.buf = Drop(b, 1)]
           ELSE [buf |-> Drop(b, Taken(b).n), frames |-> Append(s.frames, FrameOf(b))]
<1>1. b \in Bytes
  BY DEF States
<1>2. EarliestSync(b) = IF NoSync(b) THEN {} ELSE {Sync(b)}
  BY <1>1, SyncIs DEF Sync
<1>3. CASE NoSync(b)
  BY <1>2, <1>3 DEF Turn
<1>4. CASE ~NoSync(b)
  <2>1. EarliestSync(b) # {} /\ (CHOOSE h \in EarliestSync(b) : TRUE) = Sync(b)
    BY <1>2, <1>4
  <2>2. b # <<>>
    <3> SUFFICES ASSUME b = <<>> PROVE NoSync(b)
      BY <1>4
    <3>1. Len(b) = 0
      OBVIOUS
    <3> QED BY <1>1, <3>1, FirstShortIs, FirstStxIs DEF NoSync
  <2> QED BY <1>4, <2>1, <2>2 DEF Turn, Taken, FrameOf
<1> QED BY <1>3, <1>4

LEMMA SyncTyped ==
  ASSUME NEW b \in Bytes, ~NoSync(b)
  PROVE  /\ Sync(b).first \in Nat \ {0} /\ Sync(b).first <= Len(b)
         /\ Sync(b).mark \in Nat \ {0} /\ Sync(b).mark <= Len(b)
         /\ Sync(b).kind = "A5" <=> ShortFirst(b)
         /\ ShortFirst(b) => Sync(b) \in A5Syncs(b)
         /\ ~ShortFirst(b) => Sync(b).first = FirstStx(b)
<1> DEFINE k == FirstShort(b)
           x == FirstStx(b)
<1>1. k \in Nat /\ x \in Nat /\ Len(b) \in Nat
  BY FirstsTyped, BytesTyped
<1>2. k = 0 \/ k \in 1..(Len(b) - 2)
  BY FirstShortIs
<1>3. x = 0 \/ x \in 1..(Len(b) - 1)
  BY FirstStxIs
<1>4. CASE ShortFirst(b)
  <2>1. k # 0
    BY <1>4 DEF ShortFirst
  <2>2. /\ Sync(b).kind = "A5" /\ Sync(b).mark = k + 2
        /\ Sync(b).first = IF k > 1 /\ b[k - 1] = FF THEN k - 1 ELSE k
    BY <1>4 DEF Sync, ShortHit, Hit
  <2>3. Sync(b) \in A5Syncs(b)
    BY <1>4, <2>1 DEF Sync, ShortHit, A5Syncs, FirstShort
  <2> HIDE DEF k, x
  <2>4. Sync(b).first \in Nat \ {0} /\ Sync(b).first <= Len(b)
        /\ Sync(b).mark \in Nat \ {0} /\ Sync(b).mark <= Len(b)
    BY <1>1, <1>2, <2>1, <2>2
  <2> QED BY <1>4, <2>2, <2>3, <2>4
<1>5. CASE ~ShortFirst(b)
  <2>1. x # 0
    BY <1>5 DEF ShortFirst, NoSync
  <2>2. Sync(b).kind = "IntelliChlor" /\ Sync(b).mark = x /\ Sync(b).first = x
    BY <1>5 DEF Sync, StxHit, Hit
  <2>3. x \in Nat \ {0} /\ x <= Len(b)
    <3> HIDE DEF x
    <3> QED BY <1>1, <1>3, <2>1
  <2> QED BY <1>5, <2>2, <2>3
<1> QED BY <1>4, <1>5

(* What is taken leaves the buffer, and is not more than it holds.           *)
LEMMA TakenTyped ==
  ASSUME NEW b \in Bytes, ~NoSync(b)
  PROVE  /\ Taken(b).take \in {"more", "drop", "frame"}
         /\ Taken(b).take = "frame" =>
              /\ Taken(b).n \in Nat \ {0} /\ Taken(b).n <= Len(b)
              /\ Taken(b).kind \in {"A5", "IntelliChlor"} /\ Taken(b).ok \in BOOLEAN
<1>1. CASE Sync(b).kind = "A5"
  <2> DEFINE m == Sync(b).mark
  <2>1. Taken(b) = TakeA5(b, m)
    BY <1>1 DEF Taken
  <2>2. m \in Nat \ {0} /\ Len(b) \in Nat
    BY SyncTyped, BytesTyped
  <2> HIDE DEF m
  <2>3. CASE Len(b) < m + 5
    BY <2>1, <2>3 DEF TakeA5, NeedMore
  <2>4. CASE ~(Len(b) < m + 5)
    <3>1. m + 5 \in 1..Len(b)
      BY <2>2, <2>4
    <3>2. b[m + 5] \in Nat
      <4>1. b[m + 5] \in Octets
        BY <3>1, BytesTyped
      <4>2. Octets \subseteq Nat
        BY DEF Octets
      <4> QED BY <4>1, <4>2
    <3> DEFINE t == m + 5 + b[m + 5] + 2
    <3>3. t \in Nat \ {0}
      BY <2>2, <3>2
    <3>4. CASE Len(b) < t
      BY <2>1, <2>4, <3>4 DEF TakeA5, NeedMore
    <3>5. CASE ~(Len(b) < t)
      <4>1. Taken(b) = Took(t, "A5", VerifyA5(SubSeq(b, 1, t), m))
        BY <2>1, <2>4, <3>5 DEF TakeA5
      <4>2. VerifyA5(SubSeq(b, 1, t), m) \in BOOLEAN
        <5> DEFINE raw == SubSeq(b, 1, t)
        <5> HIDE DEF raw
        <5> DEFINE x == SumOf(SubSeq(raw, m, Len(raw) - 2)) % 65536
                   y == raw[Len(raw) - 1] * 256 + raw[Len(raw)]
        <5>1. VerifyA5(raw, m) = (x = y)
          BY DEF VerifyA5
        <5> HIDE DEF x, y
        <5>2. (x = y) \in BOOLEAN
          OBVIOUS
        <5>3. VerifyA5(raw, m) \in BOOLEAN
          BY <5>1, <5>2, Zenon
        <5> QED BY <5>3 DEF raw
      <4>3. t <= Len(b)
        BY <2>2, <3>3, <3>5
      <4> HIDE DEF t
      <4> QED BY <3>3, <4>1, <4>2, <4>3 DEF Took
    <3> QED BY <3>4, <3>5
  <2> QED BY <2>3, <2>4
<1>2. CASE Sync(b).kind # "A5"
  <2> DEFINE k == FirstEtx(b)
             w == IF Len(b) < IcMax THEN Len(b) ELSE IcMax
  <2>1. Taken(b) = TakeChlor(b)
    BY <1>2 DEF Taken
  <2>2. w \in 0..Len(b) /\ (k = 0 \/ k \in 3..(w - 1)) /\ Len(b) \in Nat
    BY FirstEtxIs, BytesTyped
  <2>3. TakeChlor(b) = IF k = 0 THEN (IF Len(b) >= IcMax THEN Advanced ELSE NeedMore)
                       ELSE IF k < 6 THEN Advanced
                       ELSE Took(k + 1, "IntelliChlor", VerifyChlor(SubSeq(b, 1, k + 1)))
    BY DEF TakeChlor, FirstEtx
  <2> HIDE DEF k, w
  <2>4. CASE k = 0 \/ k < 6
    BY <2>1, <2>3, <2>4 DEF Advanced, NeedMore
  <2>5. CASE ~(k = 0 \/ k < 6)
    <3>1. k + 1 \in Nat \ {0} /\ k + 1 <= Len(b)
      BY <2>2, <2>5
    <3>2. VerifyChlor(SubSeq(b, 1, k + 1)) \in BOOLEAN
      BY Zenon DEF VerifyChlor
    <3>3. Taken(b) = Took(k + 1, "IntelliChlor", VerifyChlor(SubSeq(b, 1, k + 1)))
      BY <2>1, <2>3, <2>5
    <3> QED BY <3>1, <3>2, <3>3 DEF Took
  <2> QED BY <2>4, <2>5
<1> QED BY <1>1, <1>2

(* More bytes behind do not change what is taken. *)
LEMMA MoreKeepsTaken ==
  ASSUME NEW b \in Bytes, NEW e \in Bytes, Begins(b, e), ~NoSync(b), Taken(b).take # "more"
  PROVE  ~NoSync(e) /\ Sync(e) = Sync(b) /\ Taken(e) = Taken(b)
<1>1. ~NoSync(e) /\ Sync(e) = Sync(b)
  BY MoreKeepsSync DEF Sync
<1>2. Len(b) \in Nat /\ Len(e) \in Nat /\ Len(b) <= Len(e) /\ \A i \in 1..Len(b) : e[i] = b[i]
  BY BytesTyped DEF Begins
<1>3. CASE Sync(b).kind = "A5"
  <2> DEFINE m == Sync(b).mark
  <2>1. Taken(b) = TakeA5(b, m) /\ Taken(e) = TakeA5(e, m)
    BY <1>1, <1>3 DEF Taken
  <2>2. m \in Nat \ {0}
    BY SyncTyped
  <2> HIDE DEF m
  <2>3. ~(Len(b) < m + 5) /\ ~(Len(e) < m + 5)
    <3>1. ~(Len(b) < m + 5)
      BY <2>1 DEF TakeA5, NeedMore
    <3> QED BY <1>2, <2>2, <3>1
  <2>4. b[m + 5] \in Nat /\ e[m + 5] = b[m + 5]
    <3>1. m + 5 \in 1..Len(b)
      BY <1>2, <2>2, <2>3
    <3>2. b[m + 5] \in Octets
      BY <3>1, BytesTyped
    <3>3. Octets \subseteq Nat
      BY DEF Octets
    <3>4. e[m + 5] = b[m + 5]
      BY <1>2, <3>1, Zenon
    <3> QED BY <3>2, <3>3, <3>4
  <2> DEFINE t == m + 5 + b[m + 5] + 2
  <2>5. t \in Nat
    BY <2>2, <2>4
  <2>6. Taken(b) = IF Len(b) < t THEN NeedMore ELSE Took(t, "A5", VerifyA5(SubSeq(b, 1, t), m))
    BY <2>1, <2>3 DEF TakeA5
  <2>7. Taken(e) = IF Len(e) < t THEN NeedMore ELSE Took(t, "A5", VerifyA5(SubSeq(e, 1, t), m))
    BY <2>1, <2>3, <2>4 DEF TakeA5
  <2> HIDE DEF t
  <2>8. ~(Len(b) < t)
    BY <2>6 DEF NeedMore
  <2>9. t <= Len(b) /\ ~(Len(e) < t)
    BY <1>2, <2>5, <2>8
  <2>10. SubSeq(e, 1, t) = SubSeq(b, 1, t)
    BY <2>5, <2>9, FrontOfMore
  <2>11. Taken(e) = Taken(b)
    BY <2>6, <2>7, <2>8, <2>9, <2>10
  <2> QED BY <1>1, <2>11
<1>4. CASE Sync(b).kind # "A5"
  <2> DEFINE k == FirstEtx(b)
             m == FirstEtx(e)
             w == IF Len(b) < IcMax THEN Len(b) ELSE IcMax
             v == IF Len(e) < IcMax THEN Len(e) ELSE IcMax
  <2>1. Taken(b) = TakeChlor(b) /\ Taken(e) = TakeChlor(e)
    BY <1>1, <1>4 DEF Taken
  <2>2. /\ w \in 0..Len(b)
        /\ \/ k = 0 /\ \A i \in 3..(w - 1) : ~PairAt(b, i, 3)
           \/ k \in 3..(w - 1) /\ PairAt(b, k, 3) /\ \A i \in 3..(k - 1) : ~PairAt(b, i, 3)
    BY FirstEtxIs
  <2>3. /\ v \in 0..Len(e)
        /\ \/ m = 0 /\ \A i \in 3..(v - 1) : ~PairAt(e, i, 3)
           \/ m \in 3..(v - 1) /\ PairAt(e, m, 3) /\ \A i \in 3..(m - 1) : ~PairAt(e, i, 3)
    BY FirstEtxIs
  <2>4. TakeChlor(b) = IF k = 0 THEN (IF Len(b) >= IcMax THEN Advanced ELSE NeedMore)
                       ELSE IF k < 6 THEN Advanced
                       ELSE Took(k + 1, "IntelliChlor", VerifyChlor(SubSeq(b, 1, k + 1)))
    BY DEF TakeChlor, FirstEtx
  <2>5. TakeChlor(e) = IF m = 0 THEN (IF Len(e) >= IcMax THEN Advanced ELSE NeedMore)
                       ELSE IF m < 6 THEN Advanced
                       ELSE Took(m + 1, "IntelliChlor", VerifyChlor(SubSeq(e, 1, m + 1)))
    BY DEF TakeChlor, FirstEtx
  <2>6. w <= v /\ IcMax \in Nat /\ w \in Nat /\ v \in Nat
        /\ (Len(b) >= IcMax => w = v /\ Len(e) >= IcMax)
    BY <1>2, FramerAssumption
  <2>7. k = 0 => Len(b) >= IcMax
    BY <2>1, <2>4 DEF NeedMore
  <2> HIDE DEF k, m, w, v
  <2>8. \A i \in 3..(w - 1) : PairAt(e, i, 3) <=> PairAt(b, i, 3)
    <3>1. \A i \in 3..(w - 1) : i \in 1..Len(b) /\ i + 1 \in 1..Len(b)
      BY <1>2, <2>2, <2>6
    <3> QED BY <1>2, <3>1 DEF PairAt
  <2>9. m = k
    <3>1. CASE k = 0
      <4>1. \A i \in 3..(v - 1) : ~PairAt(e, i, 3)
        BY <2>2, <2>6, <2>7, <2>8, <3>1
      <4> QED BY <2>3, <3>1, <4>1
    <3>2. CASE k # 0
      <4>1. k \in 3..(v - 1) /\ PairAt(e, k, 3)
        BY <2>2, <2>6, <2>8, <3>2
      <4>2. \A i \in 3..(k - 1) : ~PairAt(e, i, 3)
        BY <2>2, <2>6, <2>8, <3>2
      <4>3. m \in Nat /\ k \in Nat /\ m \in 3..(v - 1)
        BY <2>3, <4>1
      <4>4. ~(m < k)
        BY <2>3, <4>2, <4>3
      <4>5. ~(k < m)
        BY <2>3, <4>1, <4>3
      <4> QED BY <4>3, <4>4, <4>5
    <3> QED BY <3>1, <3>2
  <2>10. k # 0 => SubSeq(e, 1, k + 1) = SubSeq(b, 1, k + 1)
    <3> SUFFICES ASSUME k # 0 PROVE SubSeq(e, 1, k + 1) = SubSeq(b, 1, k + 1)
      OBVIOUS
    <3>1. k + 1 \in Nat /\ k + 1 <= Len(b)
      BY <1>2, <2>2, <2>6
    <3> QED BY <3>1, FrontOfMore
  <2>11. Taken(e) = Taken(b)
    BY <2>1, <2>4, <2>5, <2>6, <2>7, <2>9, <2>10
  <2> QED BY <1>1, <2>11
<1> QED BY <1>3, <1>4

(* A turn changes nothing, or takes a byte off the buffer at least. *)
LEMMA TurnTyped ==
  ASSUME NEW s \in States
  PROVE  Turn(s) \in States /\ (Turn(s) = s \/ Len(Turn(s).buf) < Len(s.buf))
<1> DEFINE b == s.buf
<1>1. b \in Bytes /\ s.frames \in Seq(GivenFrame) /\ s = [buf |-> b, frames |-> s.frames]
  BY DEF States
<1>2. Len(b) \in Nat
  BY <1>1, BytesTyped
<1>3. ASSUME NEW c \in Bytes PROVE [s EXCEPT !.buf = c] \in States /\ [s EXCEPT !.buf = c].buf = c
  BY <1>1 DEF States
<1>4. ASSUME NEW n \in Nat \ {0}, n <= Len(b)
      PROVE  [s EXCEPT !.buf = Drop(b, n)] \in States /\ Len([s EXCEPT !.buf = Drop(b, n)].buf) < Len(b)
  <2>1. Drop(b, n) \in Bytes /\ Len(Drop(b, n)) = Len(b) - n
    BY <1>1, <1>4, DropIs
  <2>2. Len(Drop(b, n)) < Len(b)
    BY <1>2, <2>1
  <2> QED BY <1>3, <2>1, <2>2
<1>5. CASE NoSync(b)
  <2>1. Turn(s) = [s EXCEPT !.buf = TailKept(b)]
    BY <1>5, TurnIs
  <2>2. CASE Len(b) > 4
    <3>1. Len(b) - 4 \in Nat \ {0} /\ Len(b) - 4 <= Len(b)
      <4> HIDE DEF b
      <4>1. \A n \in Nat : n > 4 => n - 4 \in Nat \ {0} /\ n - 4 <= n
        OBVIOUS
      <4> QED BY <1>2, <2>2, <4>1, Zenon
    <3> QED BY <1>4, <2>1, <2>2, <3>1 DEF TailKept
  <2>3. CASE ~(Len(b) > 4)
    <3>1. Turn(s) = s
      BY <1>1, <2>1, <2>3 DEF TailKept
    <3> QED BY <3>1
  <2> QED BY <2>2, <2>3
<1>6. CASE ~NoSync(b) /\ Sync(b).first > 1
  <2>1. Turn(s) = [s EXCEPT !.buf = Drop(b, Sync(b).first - 1)]
    BY <1>6, TurnIs
  <2>2. Sync(b).first - 1 \in Nat \ {0} /\ Sync(b).first - 1 <= Len(b)
    BY <1>1, <1>2, <1>6, SyncTyped
  <2> QED BY <1>4, <2>1, <2>2
<1>7. CASE ~NoSync(b) /\ ~(Sync(b).first > 1)
  <2>1. CASE Taken(b).take = "more"
    <3>1. Turn(s) = s
      BY <1>7, <2>1, TurnIs
    <3> QED BY <3>1
  <2>2. CASE Taken(b).take = "drop"
    <3>1. Turn(s) = [s EXCEPT !.buf = Drop(b, 1)]
      BY <1>7, <2>2, TurnIs
    <3>2. 1 \in Nat \ {0} /\ 1 <= Len(b)
      BY <1>1, <1>2, <1>7, SyncTyped
    <3> QED BY <1>4, <3>1, <3>2
  <2>3. CASE Taken(b).take = "frame"
    <3> DEFINE n == Taken(b).n
               d == Drop(b, n)
               f == FrameOf(b)
    <3>1. Turn(s) = [buf |-> d, frames |-> Append(s.frames, f)]
      BY <1>7, <2>3, TurnIs
    <3>2. n \in Nat \ {0} /\ n <= Len(b) /\ Taken(b).kind \in {"A5", "IntelliChlor"}
          /\ Taken(b).ok \in BOOLEAN
      BY <1>1, <1>7, <2>3, TakenTyped
    <3>3. d \in Bytes /\ Len(d) < Len(b)
      <4> HIDE DEF n
      <4>1. d \in Bytes /\ Len(d) = Len(b) - n
        BY <1>1, <3>2, DropIs
      <4> QED BY <1>2, <3>2, <4>1
    <3>4. f \in GivenFrame
      <4>1. SubSeq(b, 1, n) \in Bytes
        <5> HIDE DEF n
        <5> QED BY <1>1, <3>2, FrontIs
      <4> QED BY <3>2, <4>1 DEF FrameOf, GivenFrame
    <3> HIDE DEF d, f
    <3>5. Append(s.frames, f) \in Seq(GivenFrame)
      BY <1>1, <3>4, AppendProperties
    <3> QED BY <3>1, <3>3, <3>5 DEF States
  <2>4. Taken(b).take \in {"more", "drop", "frame"}
    BY <1>1, <1>7, TakenTyped
  <2> QED BY <2>1, <2>2, <2>3, <2>4
<1> QED BY <1>5, <1>6, <1>7

(* The same buffer with more bytes behind, and with more frames before.      *)
With(s, c)     == [buf |-> s.buf \o c, frames |-> s.frames]
Behind(fs, s)  == [buf |-> s.buf, frames |-> fs \o s.frames]

LEMMA WithTyped ==
  ASSUME NEW s \in States, NEW c \in Bytes
  PROVE  With(s, c) \in States /\ With(s, c).buf = s.buf \o c /\ With(s, c).frames = s.frames
<1>1. s.buf \in Bytes /\ s.frames \in Seq(GivenFrame)
  BY DEF States
<1>2. s.buf \o c \in Bytes
  BY <1>1, JoinIs
<1> QED BY <1>1, <1>2 DEF With, States

(* In a tail that was kept the next sync is where it is in what was not cut, *)
(* and never at its start.                                                   *)
LEMMA TailKeepsSync ==
  ASSUME NEW b \in Bytes, NoSync(b), NEW k \in Nat, Len(b) = k + 4,
         NEW e \in Bytes, Begins(b, e), NEW u, u = Drop(e, k)
  PROVE  /\ u \in Bytes /\ Len(u) = Len(e) - k
         /\ NoSync(u) <=> NoSync(e)
         /\ ~NoSync(e) => Sync(u).first = Sync(e).first - k /\ Sync(u).first > 1
<1> DEFINE i == FirstShort(e)
           j == FirstStx(e)
           p == FirstShort(u)
           q == FirstStx(u)
<1>1. Len(e) \in Nat /\ k + 4 <= Len(e)
  BY BytesTyped DEF Begins
<1>2. u \in Bytes /\ Len(u) = Len(e) - k /\ \A n \in 1..(Len(e) - k) : u[n] = e[k + n]
  <2>1. k <= Len(e)
    BY <1>1
  <2> QED BY <2>1, DropIs
<1>3. i \in Nat /\ j \in Nat /\ p \in Nat /\ q \in Nat
  BY <1>2, FirstsTyped
<1>4. (i = 0 \/ i >= k + 3) /\ (j = 0 \/ j >= k + 4)
  <2>1. FirstShort(b) = 0 /\ FirstStx(b) = 0
    BY DEF NoSync
  <2>2. (i = 0 \/ i + 2 > Len(b)) /\ (j = 0 \/ j + 1 > Len(b))
    BY <2>1, MoreKeepsFirst
  <2> HIDE DEF i, j
  <2> QED BY <1>3, <2>2
<1>5. \A n \in 1..(Len(u) - 2) : /\ k + n \in 1..(Len(e) - 2)
                                 /\ ShortAt(u, n) <=> ShortAt(e, k + n)
  <2> SUFFICES ASSUME NEW n \in 1..(Len(u) - 2)
               PROVE  k + n \in 1..(Len(e) - 2) /\ (ShortAt(u, n) <=> ShortAt(e, k + n))
    OBVIOUS
  <2>1. /\ n \in 1..(Len(e) - k) /\ n + 1 \in 1..(Len(e) - k) /\ n + 2 \in 1..(Len(e) - k)
        /\ k + n \in 1..(Len(e) - 2) /\ k + (n + 1) = k + n + 1 /\ k + (n + 2) = k + n + 2
    BY <1>1, <1>2
  <2>2. u[n] = e[k + n] /\ u[n + 1] = e[k + n + 1] /\ u[n + 2] = e[k + n + 2]
    BY <1>2, <2>1
  <2> QED BY <2>1, <2>2 DEF ShortAt
<1>6. \A n \in 1..(Len(u) - 1) : /\ k + n \in 1..(Len(e) - 1)
                                 /\ PairAt(u, n, 2) <=> PairAt(e, k + n, 2)
  <2> SUFFICES ASSUME NEW n \in 1..(Len(u) - 1)
               PROVE  k + n \in 1..(Len(e) - 1) /\ (PairAt(u, n, 2) <=> PairAt(e, k + n, 2))
    OBVIOUS
  <2>1. /\ n \in 1..(Len(e) - k) /\ n + 1 \in 1..(Len(e) - k)
        /\ k + n \in 1..(Len(e) - 1) /\ k + (n + 1) = k + n + 1
    BY <1>1, <1>2
  <2>2. u[n] = e[k + n] /\ u[n + 1] = e[k + n + 1]
    BY <1>2, <2>1
  <2> QED BY <2>1, <2>2 DEF PairAt
<1>7. p = IF i = 0 THEN 0 ELSE i - k
  <2>1. \/ i = 0 /\ \A n \in 1..(Len(e) - 2) : ~ShortAt(e, n)
        \/ i \in 1..(Len(e) - 2) /\ ShortAt(e, i) /\ \A n \in 1..(i - 1) : ~ShortAt(e, n)
    BY FirstShortIs
  <2>2. \/ p = 0 /\ \A n \in 1..(Len(u) - 2) : ~ShortAt(u, n)
        \/ p \in 1..(Len(u) - 2) /\ ShortAt(u, p) /\ \A n \in 1..(p - 1) : ~ShortAt(u, n)
    BY <1>2, FirstShortIs
  <2> HIDE DEF i, p
  <2>3. CASE i = 0 /\ \A n \in 1..(Len(e) - 2) : ~ShortAt(e, n)
    BY <1>5, <2>2, <2>3
  <2>4. CASE i \in 1..(Len(e) - 2) /\ ShortAt(e, i) /\ \A n \in 1..(i - 1) : ~ShortAt(e, n)
    <3> DEFINE m == i - k
    <3>1. m \in 1..(Len(u) - 2) /\ k + m = i /\ i # 0
      BY <1>1, <1>2, <1>3, <1>4, <2>4
    <3> HIDE DEF m
    <3>2. ShortAt(u, m)
      BY <1>5, <2>4, <3>1
    <3>3. \A n \in 1..(m - 1) : ~ShortAt(u, n)
      <4>1. \A n \in 1..(m - 1) : n \in 1..(Len(u) - 2) /\ k + n \in 1..(i - 1)
        BY <1>1, <1>2, <3>1
      <4> QED BY <1>5, <2>4, <4>1
    <3>4. p \in 1..(Len(u) - 2) /\ p \in Nat /\ m \in Nat
      BY <1>3, <2>2, <3>1, <3>2
    <3>5. ~(p < m)
      BY <2>2, <3>3, <3>4
    <3>6. ~(m < p)
      BY <2>2, <3>1, <3>2, <3>4
    <3>7. p = m
      BY <3>4, <3>5, <3>6
    <3> QED BY <3>1, <3>7 DEF m
  <2>5. p = IF i = 0 THEN 0 ELSE i - k
    BY <2>1, <2>3, <2>4
  <2> QED BY <2>5 DEF i, p
<1>8. q = IF j = 0 THEN 0 ELSE j - k
  <2>1. \/ j = 0 /\ \A n \in 1..(Len(e) - 1) : ~PairAt(e, n, 2)
        \/ j \in 1..(Len(e) - 1) /\ PairAt(e, j, 2) /\ \A n \in 1..(j - 1) : ~PairAt(e, n, 2)
    BY FirstStxIs
  <2>2. \/ q = 0 /\ \A n \in 1..(Len(u) - 1) : ~PairAt(u, n, 2)
        \/ q \in 1..(Len(u) - 1) /\ PairAt(u, q, 2) /\ \A n \in 1..(q - 1) : ~PairAt(u, n, 2)
    BY <1>2, FirstStxIs
  <2> HIDE DEF j, q
  <2>3. CASE j = 0 /\ \A n \in 1..(Len(e) - 1) : ~PairAt(e, n, 2)
    BY <1>6, <2>2, <2>3
  <2>4. CASE j \in 1..(Len(e) - 1) /\ PairAt(e, j, 2) /\ \A n \in 1..(j - 1) : ~PairAt(e, n, 2)
    <3> DEFINE m == j - k
    <3>1. m \in 1..(Len(u) - 1) /\ k + m = j /\ j # 0
      BY <1>1, <1>2, <1>3, <1>4, <2>4
    <3> HIDE DEF m
    <3>2. PairAt(u, m, 2)
      BY <1>6, <2>4, <3>1
    <3>3. \A n \in 1..(m - 1) : ~PairAt(u, n, 2)
      <4>1. \A n \in 1..(m - 1) : n \in 1..(Len(u) - 1) /\ k + n \in 1..(j - 1)
        BY <1>1, <1>2, <3>1
      <4> QED BY <1>6, <2>4, <4>1
    <3>4. q \in 1..(Len(u) - 1) /\ q \in Nat /\ m \in Nat
      BY <1>3, <2>2, <3>1, <3>2
    <3>5. ~(q < m)
      BY <2>2, <3>3, <3>4
    <3>6. ~(m < q)
      BY <2>2, <3>1, <3>2, <3>4
    <3>7. q = m
      BY <3>4, <3>5, <3>6
    <3> QED BY <3>1, <3>7 DEF m
  <2>5. q = IF j = 0 THEN 0 ELSE j - k
    BY <2>1, <2>3, <2>4
  <2> QED BY <2>5 DEF j, q
<1>9. NoSync(u) <=> NoSync(e)
  <2>1. (NoSync(u) <=> p = 0 /\ q = 0) /\ (NoSync(e) <=> i = 0 /\ j = 0)
    BY DEF NoSync
  <2> HIDE DEF i, j, p, q
  <2> QED BY <1>3, <1>4, <1>7, <1>8, <2>1
<1>10. ASSUME ~NoSync(e) PROVE Sync(u).first = Sync(e).first - k /\ Sync(u).first > 1
  <2>1. (ShortFirst(u) <=> p # 0 /\ (q = 0 \/ p + 2 < q))
        /\ (ShortFirst(e) <=> i # 0 /\ (j = 0 \/ i + 2 < j))
    BY DEF ShortFirst
  <2>2. i # 0 \/ j # 0
    BY <1>10 DEF NoSync
  <2>3. Sync(u).first = IF ShortFirst(u) THEN (IF p > 1 /\ u[p - 1] = FF THEN p - 1 ELSE p) ELSE q
    BY DEF Sync, ShortHit, StxHit, Hit
  <2>4. Sync(e).first = IF ShortFirst(e) THEN (IF i > 1 /\ e[i - 1] = FF THEN i - 1 ELSE i) ELSE j
    BY DEF Sync, ShortHit, StxHit, Hit
  <2>5. i # 0 => i \in 1..(Len(e) - 2)
    BY FirstShortIs
  <2> HIDE DEF i, j, p, q
  <2>6. ShortFirst(u) <=> ShortFirst(e)
    BY <1>3, <1>4, <1>7, <1>8, <2>1
  <2>7. CASE ShortFirst(e)
    <3>1. i # 0 /\ p = i - k /\ i > 1 /\ p > 2
      BY <1>3, <1>4, <1>7, <2>1, <2>7
    <3>2. u[p - 1] = e[i - 1]
      <4>1. p - 1 \in 1..(Len(e) - k) /\ k + (p - 1) = i - 1
        BY <1>1, <1>3, <2>5, <3>1
      <4> QED BY <1>2, <4>1
    <3> QED BY <1>3, <2>3, <2>4, <2>6, <2>7, <3>1, <3>2
  <2>8. CASE ~ShortFirst(e)
    <3>1. j # 0
      BY <2>1, <2>2, <2>8
    <3>2. q = j - k /\ q > 1
      BY <1>3, <1>4, <1>8, <3>1
    <3> QED BY <2>3, <2>4, <2>6, <2>8, <3>2
  <2> QED BY <2>7, <2>8
<1> QED BY <1>2, <1>9, <1>10

LEMMA SameState ==
  ASSUME NEW s \in States, NEW t \in States, s.buf = t.buf, s.frames = t.frames
  PROVE  s = t
  BY DEF States

(* A turn with more bytes behind is the turn without them, but where a tail   *)
(* was kept: there the next turn is the same.                                *)
LEMMA TailTurn ==
  ASSUME NEW s \in States, NEW c \in Bytes, NoSync(s.buf), Len(s.buf) > 4
  PROVE  Turn(With(s, c)) = Turn(With(Turn(s), c))
<1> DEFINE b == s.buf
           k == Len(b) - 4
           e == b \o c
           u == Drop(e, k)
           x == With(s, c)
           y == With(Turn(s), c)
<1>1. b \in Bytes /\ s.frames \in Seq(GivenFrame)
  BY DEF States
<1>2. Len(b) \in Nat /\ k \in Nat /\ Len(b) = k + 4 /\ k <= Len(b)
  <2> HIDE DEF b
  <2>1. Len(b) \in Nat
    BY <1>1, BytesTyped
  <2>2. \A n \in Nat : n > 4 => n - 4 \in Nat /\ n = n - 4 + 4 /\ n - 4 <= n
    OBVIOUS
  <2>3. Len(b) > 4
    BY DEF b
  <2> QED BY <2>1, <2>2, <2>3, Zenon
<1>3. e \in Bytes /\ Begins(b, e)
  <2> HIDE DEF b
  <2> QED BY <1>1, JoinIs
<1>4. Len(e) \in Nat /\ k + 4 <= Len(e)
  <2> HIDE DEF e, k, b
  <2> QED BY <1>2, <1>3, BytesTyped DEF Begins
<1>5. u \in Bytes /\ Len(u) = Len(e) - k
      /\ (NoSync(u) <=> NoSync(e))
      /\ (~NoSync(e) => Sync(u).first = Sync(e).first - k /\ Sync(u).first > 1)
  <2>1. NoSync(b)
    OBVIOUS
  <2> HIDE DEF e, k, b
  <2> QED BY <1>1, <1>2, <1>3, <2>1, TailKeepsSync
<1>6. x \in States /\ x.buf = e /\ x.frames = s.frames
  BY WithTyped
<1>7. y \in States /\ y.buf = u /\ y.frames = s.frames
  <2>1. Turn(s) = [s EXCEPT !.buf = TailKept(b)]
    BY TurnIs
  <2>2. TailKept(b) = Drop(b, k)
    BY DEF TailKept
  <2>3. Turn(s).buf = Drop(b, k) /\ Turn(s).frames = s.frames
    BY <2>1, <2>2 DEF States
  <2>4. Drop(b, k) \o c = u
    <3> HIDE DEF k, b
    <3> QED BY <1>1, <1>2, DropOfJoin
  <2>5. Turn(s) \in States
    BY TurnTyped
  <2>6. y \in States /\ y.buf = Turn(s).buf \o c /\ y.frames = Turn(s).frames
    BY <2>5, WithTyped
  <2> QED BY <2>3, <2>4, <2>6
<1> SUFFICES Turn(x) = Turn(y)
  OBVIOUS
<1>8. u = Drop(e, k)
  OBVIOUS
<1> HIDE DEF b, k, e, u, x, y
<1>9. CASE NoSync(e)
  <2>1. Turn(x) = [x EXCEPT !.buf = TailKept(e)] /\ Turn(y) = [y EXCEPT !.buf = TailKept(u)]
    BY <1>5, <1>6, <1>7, <1>9, TurnIs
  <2>2. TailKept(e) = TailKept(u)
    <3>1. CASE Len(u) > 4
      <4>1. Len(e) > 4 /\ Len(u) - 4 \in Nat /\ k + (Len(u) - 4) = Len(e) - 4 /\ Len(e) - 4 <= Len(e)
        BY <1>2, <1>4, <1>5, <3>1
      <4>2. Drop(u, Len(u) - 4) = Drop(e, k + (Len(u) - 4))
        BY <1>2, <1>3, <1>8, <4>1, DropOfDrop
      <4> QED BY <3>1, <4>1, <4>2 DEF TailKept
    <3>2. CASE ~(Len(u) > 4)
      <4>1. Len(e) - 4 = k
        BY <1>2, <1>4, <1>5, <3>2
      <4>2. TailKept(e) = u
        <5>1. CASE Len(e) > 4
          BY <1>8, <4>1, <5>1 DEF TailKept
        <5>2. CASE ~(Len(e) > 4)
          <6>1. k = 0 /\ Len(u) = Len(e)
            BY <1>2, <1>4, <1>5, <4>1, <5>2
          <6>2. \A i \in 1..Len(e) : u[i] = e[i]
            <7>1. \A i \in 1..(Len(e) - 0) : Drop(e, 0)[i] = e[0 + i]
              BY <1>3, <1>4, DropIs
            <7>2. Len(e) - 0 = Len(e) /\ \A i \in 1..Len(e) : 0 + i = i
              BY <1>4
            <7> QED BY <1>8, <6>1, <7>1, <7>2
          <6>3. u = e
            BY <1>3, <1>5, <6>1, <6>2, SameBytes
          <6> QED BY <5>2, <6>3 DEF TailKept
        <5> QED BY <5>1, <5>2
      <4> QED BY <3>2, <4>2 DEF TailKept
    <3> QED BY <3>1, <3>2
  <2> QED BY <1>6, <1>7, <2>1, <2>2 DEF States
<1>10. CASE ~NoSync(e)
  <2> DEFINE f == Sync(e).first
  <2>1. f \in Nat \ {0} /\ f <= Len(e) /\ Sync(u).first = f - k /\ f - k > 1
    BY <1>3, <1>5, <1>10, SyncTyped
  <2> HIDE DEF f
  <2>2. f > 1 /\ f - k - 1 \in Nat /\ k + (f - k - 1) = f - 1 /\ f - 1 <= Len(e)
    BY <1>2, <1>4, <2>1
  <2>3. Turn(x) = [x EXCEPT !.buf = Drop(e, f - 1)]
    BY <1>6, <1>10, <2>2, TurnIs DEF f
  <2>4. Turn(y) = [y EXCEPT !.buf = Drop(u, f - k - 1)]
    BY <1>5, <1>7, <1>10, <2>1, TurnIs
  <2>5. Drop(u, f - k - 1) = Drop(e, f - 1)
    BY <1>2, <1>3, <1>8, <2>2, DropOfDrop
  <2> QED BY <1>6, <1>7, <2>3, <2>4, <2>5 DEF States
<1> QED BY <1>9, <1>10

LEMMA TurnWithMore ==
  ASSUME NEW s \in States, NEW c \in Bytes
  PROVE  \/ Turn(s) = s
         \/ Turn(With(s, c)) = With(Turn(s), c)
         \/ Turn(With(s, c)) = Turn(With(Turn(s), c))
<1> DEFINE b == s.buf
           e == b \o c
           x == With(s, c)
<1>1. b \in Bytes /\ s.frames \in Seq(GivenFrame) /\ s = [buf |-> b, frames |-> s.frames]
  BY DEF States
<1>2. e \in Bytes /\ Begins(b, e) /\ Len(b) \in Nat
  <2> HIDE DEF b
  <2> QED BY <1>1, JoinIs, BytesTyped
<1>3. x \in States /\ x.buf = e /\ x.frames = s.frames
  BY WithTyped
<1>4. ASSUME NEW n \in Nat, n <= Len(b), Turn(s) = [s EXCEPT !.buf = Drop(b, n)],
             Turn(x) = [x EXCEPT !.buf = Drop(e, n)]
      PROVE  Turn(x) = With(Turn(s), c)
  <2>1. Drop(e, n) = Drop(b, n) \o c
    <3> HIDE DEF b
    <3> QED BY <1>1, <1>4, DropOfJoin DEF e
  <2>2. Turn(s).buf = Drop(b, n) /\ Turn(s).frames = s.frames
    BY <1>1, <1>4
  <2>3. Turn(x) = [buf |-> Drop(b, n) \o c, frames |-> s.frames]
    <3> HIDE DEF b, e, x
    <3> QED BY <1>3, <1>4, <2>1 DEF States
  <2> QED BY <2>2, <2>3 DEF With
<1>5. CASE NoSync(b)
  <2>1. CASE Len(b) > 4
    BY <1>5, <2>1, TailTurn
  <2>2. CASE ~(Len(b) > 4)
    <3>1. Turn(s) = [s EXCEPT !.buf = b]
      BY <1>5, <2>2, TurnIs DEF TailKept
    <3> QED BY <1>1, <3>1
  <2> QED BY <2>1, <2>2
<1>6. CASE ~NoSync(b) /\ Sync(b).first > 1
  <2>1. ~NoSync(e) /\ Sync(e) = Sync(b)
    <3> HIDE DEF b, e
    <3> QED BY <1>1, <1>2, <1>6, MoreKeepsSync DEF Sync
  <2>2. Turn(s) = [s EXCEPT !.buf = Drop(b, Sync(b).first - 1)]
    BY <1>6, TurnIs
  <2>3. Turn(x) = [x EXCEPT !.buf = Drop(e, Sync(b).first - 1)]
    <3> HIDE DEF b, e, x
    <3> QED BY <1>3, <1>6, <2>1, TurnIs
  <2>4. Sync(b).first - 1 \in Nat /\ Sync(b).first - 1 <= Len(b)
    <3> HIDE DEF b
    <3>1. Sync(b).first \in Nat \ {0} /\ Sync(b).first <= Len(b)
      BY <1>1, <1>6, SyncTyped
    <3> QED BY <1>2, <3>1
  <2> QED BY <1>4, <2>2, <2>3, <2>4
<1>7. CASE ~NoSync(b) /\ ~(Sync(b).first > 1) /\ Taken(b).take = "more"
  <2>1. Turn(s) = s
    BY <1>7, TurnIs
  <2> QED BY <2>1
<1>8. CASE ~NoSync(b) /\ ~(Sync(b).first > 1) /\ Taken(b).take # "more"
  <2>1. ~NoSync(e) /\ Sync(e) = Sync(b) /\ Taken(e) = Taken(b)
    <3> HIDE DEF b, e
    <3> QED BY <1>1, <1>2, <1>8, MoreKeepsTaken
  <2>2. CASE Taken(b).take = "drop"
    <3>1. Turn(s) = [s EXCEPT !.buf = Drop(b, 1)]
      BY <1>8, <2>2, TurnIs
    <3>2. Turn(x) = [x EXCEPT !.buf = Drop(e, 1)]
      <4> HIDE DEF b, e, x
      <4> QED BY <1>3, <1>8, <2>1, <2>2, TurnIs
    <3>3. 1 \in Nat /\ 1 <= Len(b)
      <4> HIDE DEF b
      <4>1. Sync(b).first \in Nat \ {0} /\ Sync(b).first <= Len(b)
        BY <1>1, <1>8, SyncTyped
      <4> QED BY <1>2, <4>1
    <3> QED BY <1>4, <3>1, <3>2, <3>3
  <2>3. CASE Taken(b).take # "drop"
    <3> DEFINE n == Taken(b).n
    <3>1. Turn(s) = [buf |-> Drop(b, n), frames |-> Append(s.frames, FrameOf(b))]
      BY <1>8, <2>3, TurnIs
    <3>2. Turn(x) = [buf |-> Drop(e, n), frames |-> Append(s.frames, FrameOf(e))]
      <4> HIDE DEF b, e, x
      <4> QED BY <1>3, <1>8, <2>1, <2>3, TurnIs
    <3>3. n \in Nat /\ n <= Len(b)
      <4> HIDE DEF b
      <4> QED BY <1>1, <1>8, <2>3, TakenTyped
    <3>4. Drop(e, n) = Drop(b, n) \o c
      <4> HIDE DEF b, n
      <4> QED BY <1>1, <3>3, DropOfJoin DEF e
    <3>5. SubSeq(e, 1, n) = SubSeq(b, 1, n)
      <4> HIDE DEF b, n, e
      <4> QED BY <1>1, <1>2, <3>3, FrontOfMore
    <3>6. FrameOf(e) = FrameOf(b)
      BY <2>1, <3>5 DEF FrameOf
    <3>7. Turn(x) = With(Turn(s), c)
      BY <3>1, <3>2, <3>4, <3>6 DEF With
    <3> QED BY <3>7
  <2> QED BY <2>2, <2>3
<1> QED BY <1>5, <1>6, <1>7, <1>8

(* What was given before does not matter to a turn. *)
LEMMA TurnBehind ==
  ASSUME NEW s \in States, NEW fs \in Seq(GivenFrame)
  PROVE  Behind(fs, s) \in States /\ Turn(Behind(fs, s)) = Behind(fs, Turn(s))
<1> DEFINE b == s.buf
           x == Behind(fs, s)
           g == s.frames
<1>1. b \in Bytes /\ g \in Seq(GivenFrame) /\ s = [buf |-> b, frames |-> g]
  BY DEF States
<1>2. fs \o g \in Seq(GivenFrame)
  <2> HIDE DEF g
  <2> QED BY <1>1, ConcatProperties
<1>3. x = [buf |-> b, frames |-> fs \o g] /\ x \in States /\ x.buf = b
  BY <1>1, <1>2 DEF Behind, States
<1>4. ASSUME NEW d, Turn(s) = [s EXCEPT !.buf = d], Turn(x) = [x EXCEPT !.buf = d]
      PROVE  Turn(x) = Behind(fs, Turn(s))
  BY <1>1, <1>3, <1>4 DEF Behind
<1>5. CASE NoSync(b)
  BY <1>3, <1>4, <1>5, TurnIs
<1>6. CASE ~NoSync(b) /\ Sync(b).first > 1
  BY <1>3, <1>4, <1>6, TurnIs
<1>7. CASE ~NoSync(b) /\ ~(Sync(b).first > 1) /\ Taken(b).take = "more"
  <2>1. Turn(s) = s /\ Turn(x) = x
    BY <1>3, <1>7, TurnIs
  <2> QED BY <1>3, <2>1
<1>8. CASE ~NoSync(b) /\ ~(Sync(b).first > 1) /\ Taken(b).take = "drop"
  BY <1>3, <1>4, <1>8, TurnIs
<1>9. CASE ~NoSync(b) /\ ~(Sync(b).first > 1) /\ Taken(b).take \notin {"more", "drop"}
  <2> DEFINE f == FrameOf(b)
  <2>1. Turn(s) = [buf |-> Drop(b, Taken(b).n), frames |-> Append(g, f)]
    BY <1>9, TurnIs
  <2>2. Turn(x) = [buf |-> Drop(b, Taken(b).n), frames |-> Append(fs \o g, f)]
    BY <1>3, <1>9, TurnIs
  <2>3. Append(fs \o g, f) = fs \o Append(g, f)
    <3>1. Turn(s) \in States
      BY TurnTyped
    <3>2. Append(g, f) \in Seq(GivenFrame) 
      BY <2>1, <3>1 DEF States
    <3>3. f \in GivenFrame
      <4>1. Append(g, f)[Len(g) + 1] = f /\ Len(Append(g, f)) = Len(g) + 1 /\ Len(g) \in Nat
        BY <1>1
      <4> HIDE DEF f, g
      <4>2. Len(g) + 1 \in 1..Len(Append(g, f))
        BY <4>1
      <4> QED BY <3>2, <4>1, <4>2, ElementOfSeq
    <3> HIDE DEF f, g
    <3>4. <<f>> \in Seq(GivenFrame)
      BY <3>3
    <3>5. Append(fs \o g, f) = (fs \o g) \o <<f>> /\ Append(g, f) = g \o <<f>>
      BY <1>1, <1>2, <3>3, AppendIsConcat
    <3>6. (fs \o g) \o <<f>> = fs \o (g \o <<f>>)
      BY <1>1, <3>4, ConcatAssociative
    <3> QED BY <3>5, <3>6
  <2>4. Turn(x) = Behind(fs, Turn(s))
    BY <2>1, <2>2, <2>3 DEF Behind
  <2> QED BY <1>3, <2>4
<1> QED BY <1>3, <1>5, <1>6, <1>7, <1>8, <1>9
-----------------------------------------------------------------------------
(* The loop: turn after turn from a state, n of them. *)
Turns(f, s, n) == f = [i \in 0..n |-> IF i = 0 THEN s ELSE Turn(f[i - 1])]

LEMMA TurnsExist ==
  ASSUME NEW s \in States, NEW n \in Nat
  PROVE  \E f \in [0..n -> States] : Turns(f, s, n)
<1> DEFINE next == [i \in 1..n |-> [x \in States |-> Turn(x)]]
<1>1. next \in [1..n -> [States -> States]]
  BY TurnTyped
<1>2. PICK f \in [0..n -> States] : Iterates(f, s, next, n)
  <2> HIDE DEF next
  <2> QED BY <1>1, IterationExists
<1>3. ASSUME NEW i \in 0..n, i # 0 PROVE next[i][f[i - 1]] = Turn(f[i - 1])
  <2>1. i \in 1..n /\ i - 1 \in 0..n
    BY <1>3
  <2>2. f[i - 1] \in States
    BY <2>1
  <2> QED BY <2>1, <2>2
<1>4. [i \in 0..n |-> IF i = 0 THEN s ELSE next[i][f[i - 1]]]
      = [i \in 0..n |-> IF i = 0 THEN s ELSE Turn(f[i - 1])]
  <2> HIDE DEF next
  <2> QED BY <1>3
<1>5. Turns(f, s, n)
  <2> HIDE DEF next
  <2> QED BY <1>2, <1>4 DEF Iterates, Turns
<1> QED BY <1>5

LEMMA TurnsStep ==
  ASSUME NEW s, NEW n \in Nat, NEW f, Turns(f, s, n)
  PROVE  f[0] = s /\ \A i \in Nat : i + 1 <= n => f[i + 1] = Turn(f[i])
<1>1. \A i \in 0..n : f[i] = IF i = 0 THEN s ELSE Turn(f[i - 1])
  BY DEF Turns
<1>2. ASSUME NEW i \in Nat, i + 1 <= n PROVE f[i + 1] = Turn(f[i])
  <2>1. i + 1 \in 0..n /\ i + 1 # 0 /\ i + 1 - 1 = i
    BY <1>2
  <2> QED BY <1>1, <2>1
<1>3. 0 \in 0..n
  OBVIOUS
<1> QED BY <1>1, <1>2, <1>3

(* As far as both go, they go alike. *)
LEMMA TurnsAgree ==
  ASSUME NEW s, NEW n \in Nat, NEW m \in Nat, n <= m, NEW f, NEW g, Turns(f, s, n), Turns(g, s, m)
  PROVE  g[n] = f[n]
<1> DEFINE T == {i \in Nat : i <= n => g[i] = f[i]}
<1>1. 0 \in T
  BY TurnsStep
<1>2. ASSUME NEW i \in Nat, i \in T PROVE i + 1 \in T
  <2> SUFFICES ASSUME i + 1 <= n PROVE g[i + 1] = f[i + 1]
    OBVIOUS
  <2>1. i <= n /\ i + 1 <= m
    OBVIOUS
  <2>2. g[i] = f[i]
    BY <1>2, <2>1
  <2>3. f[i + 1] = Turn(f[i])
    BY TurnsStep
  <2>4. g[i + 1] = Turn(g[i])
    BY <2>1, TurnsStep
  <2> QED BY <2>2, <2>3, <2>4
<1>3. Nat \subseteq T
  <2> HIDE DEF T
  <2> QED BY <1>1, <1>2, SetInduction
<1> QED BY <1>3

(* A turn that changes nothing is the last that does anything. *)
LEMMA TurnsStay ==
  ASSUME NEW s, NEW n \in Nat, NEW m \in Nat, n <= m, NEW f, Turns(f, s, m), Turn(f[n]) = f[n]
  PROVE  f[m] = f[n]
<1> DEFINE T == {i \in Nat : n <= i /\ i <= m => f[i] = f[n]}
<1>1. 0 \in T
  OBVIOUS
<1>2. ASSUME NEW i \in Nat, i \in T PROVE i + 1 \in T
  <2> SUFFICES ASSUME n <= i + 1, i + 1 <= m PROVE f[i + 1] = f[n]
    OBVIOUS
  <2>1. CASE n = i + 1
    BY <2>1
  <2>2. CASE n # i + 1
    <3>1. n <= i /\ i <= m
      BY <2>2
    <3>2. f[i] = f[n]
      BY <1>2, <3>1
    <3>3. f[i + 1] = Turn(f[i])
      BY TurnsStep
    <3> QED BY <3>2, <3>3
  <2> QED BY <2>1, <2>2
<1>3. Nat \subseteq T
  <2> HIDE DEF T
  <2> QED BY <1>1, <1>2, SetInduction
<1> QED BY <1>3

(* Every turn but the last takes a byte: there are no more turns than bytes. *)
LEMMA TurnsEnd ==
  ASSUME NEW s \in States, NEW n \in Nat, n >= Len(s.buf), NEW f, Turns(f, s, n)
  PROVE  f[n] \in States /\ Turn(f[n]) = f[n] /\ Len(f[n].buf) <= Len(s.buf)
<1> DEFINE L == Len(s.buf)
           T == {i \in Nat : i <= n =>
                  f[i] \in States
                  /\ ((Turn(f[i]) = f[i] /\ Len(f[i].buf) <= L) \/ Len(f[i].buf) <= L - i)}
<1>0. L \in Nat
  BY BytesTyped DEF States
<1>1. 0 \in T
  <2>1. f[0] = s
    BY TurnsStep
  <2> QED BY <1>0, <2>1
<1>2. ASSUME NEW i \in Nat, i \in T PROVE i + 1 \in T
  <2> SUFFICES ASSUME i + 1 <= n
               PROVE  f[i + 1] \in States
                      /\ \/ Turn(f[i + 1]) = f[i + 1] /\ Len(f[i + 1].buf) <= L
                         \/ Len(f[i + 1].buf) <= L - (i + 1)
    OBVIOUS
  <2> DEFINE x == f[i]
             y == f[i + 1]
  <2>1. i <= n
    OBVIOUS
  <2>2. x \in States /\ ((Turn(x) = x /\ Len(x.buf) <= L) \/ Len(x.buf) <= L - i)
    BY <1>2, <2>1
  <2>3. y = Turn(x)
    BY TurnsStep
  <2> HIDE DEF x, y
  <2>4. y \in States /\ (y = x \/ Len(y.buf) < Len(x.buf))
    BY <2>2, <2>3, TurnTyped
  <2>5. Len(x.buf) \in Nat /\ Len(y.buf) \in Nat
    BY <2>2, <2>4, BytesTyped DEF States
  <2>6. CASE y = x
    <3>1. Turn(y) = y
      BY <2>3, <2>6
    <3>2. Len(y.buf) <= L
      <4> HIDE DEF L
      <4> QED BY <1>0, <2>2, <2>5, <2>6
    <3> QED BY <2>4, <3>1, <3>2 DEF y
  <2>7. CASE y # x
    <3>1. Turn(x) # x
      BY <2>3, <2>7
    <3>2. Len(y.buf) <= L - (i + 1)
      <4> HIDE DEF L
      <4> QED BY <1>0, <2>2, <2>4, <2>5, <2>7, <3>1
    <3> QED BY <2>4, <3>2 DEF y
  <2> QED BY <2>6, <2>7
<1>3. Nat \subseteq T
  <2> HIDE DEF T
  <2> QED BY <1>1, <1>2, SetInduction
<1>4. f[n] \in States /\ ((Turn(f[n]) = f[n] /\ Len(f[n].buf) <= L) \/ Len(f[n].buf) <= L - n)
  BY <1>3
<1>5. CASE Turn(f[n]) = f[n] /\ Len(f[n].buf) <= L
  BY <1>4, <1>5
<1>6. CASE Len(f[n].buf) <= L - n
  <2> DEFINE x == f[n]
  <2>1. x \in States
    BY <1>4
  <2>2. Turn(x) \in States /\ (Turn(x) = x \/ Len(Turn(x).buf) < Len(x.buf))
    BY <2>1, TurnTyped
  <2>3. Len(x.buf) \in Nat /\ Len(Turn(x).buf) \in Nat
    BY <2>1, <2>2, BytesTyped DEF States
  <2>4. Len(x.buf) = 0 /\ Len(x.buf) <= L
    <3>1. Len(x.buf) <= L - n
      BY <1>6
    <3> HIDE DEF L, x
    <3> QED BY <1>0, <2>3, <3>1 DEF L
  <2>5. Turn(x) = x
    BY <2>2, <2>3, <2>4
  <2> QED BY <1>4, <2>4, <2>5
<1> QED BY <1>4, <1>5, <1>6
-----------------------------------------------------------------------------
(* What the loop leaves. *)
Final(s) == LET after[n \in 0..Len(s.buf)] == IF n = 0 THEN s ELSE Turn(after[n - 1])
            IN  after[Len(s.buf)]

LEMMA FinalIs ==
  ASSUME NEW s \in States, NEW n \in Nat, NEW f, Turns(f, s, n), Turn(f[n]) = f[n]
  PROVE  Final(s) = f[n]
<1> DEFINE g == CHOOSE h : Turns(h, s, Len(s.buf))
           m == n + Len(s.buf)
<1>0. Len(s.buf) \in Nat
  BY BytesTyped DEF States
<1>1. Final(s) = g[Len(s.buf)]
  BY DEF Final, Turns
<1>2. Turns(g, s, Len(s.buf))
  <2>1. \E h : Turns(h, s, Len(s.buf))
    BY <1>0, TurnsExist
  <2> QED BY <2>1
<1> HIDE DEF g
<1>3. Turn(g[Len(s.buf)]) = g[Len(s.buf)]
  BY <1>0, <1>2, TurnsEnd
<1>4. m \in Nat /\ n <= m /\ Len(s.buf) <= m
  BY <1>0
<1> HIDE DEF m
<1>5. PICK h : Turns(h, s, m)
  BY <1>4, TurnsExist
<1>6. h[n] = f[n] /\ h[Len(s.buf)] = g[Len(s.buf)]
  BY <1>0, <1>2, <1>4, <1>5, TurnsAgree
<1>7. h[m] = h[n]
  BY <1>4, <1>5, <1>6, TurnsStay
<1>8. ASSUME NEW k \in Nat, k = Len(s.buf) PROVE h[m] = h[k]
  <2>1. Turn(h[k]) = h[k] /\ k <= m
    BY <1>3, <1>4, <1>6, <1>8
  <2> HIDE <1>8
  <2> QED BY <1>4, <1>5, <2>1, TurnsStay
<1>9. h[m] = h[Len(s.buf)]
  BY <1>0, <1>8
<1> QED BY <1>1, <1>6, <1>7, <1>9

LEMMA FinalTyped ==
  ASSUME NEW s \in States
  PROVE  Final(s) \in States /\ Turn(Final(s)) = Final(s) /\ Len(Final(s).buf) <= Len(s.buf)
<1>0. Len(s.buf) \in Nat
  BY BytesTyped DEF States
<1>1. PICK f : Turns(f, s, Len(s.buf))
  BY <1>0, TurnsExist
<1>2. /\ f[Len(s.buf)] \in States /\ Turn(f[Len(s.buf)]) = f[Len(s.buf)]
      /\ Len(f[Len(s.buf)].buf) <= Len(s.buf)
  BY <1>0, <1>1, TurnsEnd
<1>3. Final(s) = f[Len(s.buf)]
  BY <1>0, <1>1, <1>2, FinalIs
<1> QED BY <1>2, <1>3

(* The first turn is one of those that lead there. *)
LEMMA FinalOfTurn ==
  ASSUME NEW s \in States
  PROVE  Final(Turn(s)) = Final(s)
<1> DEFINE t == Turn(s)
           m == Len(t.buf)
<1>1. t \in States /\ m \in Nat /\ m + 1 \in Nat
  BY TurnTyped, BytesTyped DEF States
<1> HIDE DEF t, m
<1>2. PICK g : Turns(g, t, m)
  BY <1>1, TurnsExist
<1>3. PICK f : Turns(f, s, m + 1)
  BY <1>1, TurnsExist
<1> DEFINE T == {i \in Nat : i <= m => f[i + 1] = g[i]}
<1>4. 0 \in T
  <2>1. g[0] = t
    BY <1>1, <1>2, TurnsStep
  <2>2. f[0] = s /\ 0 \in Nat /\ 0 + 1 <= m + 1
    BY <1>1, <1>3, TurnsStep
  <2>3. f[0 + 1] = Turn(f[0])
    BY <1>1, <1>3, <2>2, TurnsStep
  <2> QED BY <2>1, <2>2, <2>3 DEF t
<1>5. ASSUME NEW i \in Nat, i \in T PROVE i + 1 \in T
  <2> SUFFICES ASSUME i + 1 <= m PROVE f[i + 1 + 1] = g[i + 1]
    OBVIOUS
  <2>1. f[i + 1] = g[i]
    BY <1>1, <1>5
  <2>2. g[i + 1] = Turn(g[i])
    BY <1>1, <1>2, TurnsStep
  <2>3. f[i + 1 + 1] = Turn(f[i + 1])
    <3>1. i + 1 \in Nat /\ i + 1 + 1 <= m + 1
      BY <1>1
    <3> QED BY <1>1, <1>3, <3>1, TurnsStep
  <2> QED BY <2>1, <2>2, <2>3
<1>6. Nat \subseteq T
  <2> HIDE DEF T
  <2> QED BY <1>4, <1>5, SetInduction
<1>7. f[m + 1] = g[m]
  BY <1>1, <1>6
<1>8. Turn(g[m]) = g[m]
  BY <1>1, <1>2, TurnsEnd DEF m
<1>9. Final(t) = g[m]
  BY <1>1, <1>2, <1>8, FinalIs
<1>10. Final(s) = f[m + 1]
  BY <1>1, <1>3, <1>7, <1>8, FinalIs
<1> QED BY <1>7, <1>9, <1>10 DEF t

(* More bytes may come before the loop has run or after: it ends the same.   *)
LEMMA FinalWithMore ==
  ASSUME NEW s \in States, NEW c \in Bytes
  PROVE  Final(With(Final(s), c)) = Final(With(s, c))
<1> DEFINE L == Len(s.buf)
<1>0. L \in Nat
  BY BytesTyped DEF States
<1>1. PICK f \in [0..L -> States] : Turns(f, s, L)
  BY <1>0, TurnsExist
<1>2. Turn(f[L]) = f[L]
  BY <1>0, <1>1, TurnsEnd
<1>3. Final(s) = f[L]
  BY <1>0, <1>1, <1>2, FinalIs
<1> HIDE DEF L
<1>4. ASSUME NEW x \in States PROVE Final(With(Turn(x), c)) = Final(With(x, c))
  <2>1. With(x, c) \in States /\ With(Turn(x), c) \in States
    BY TurnTyped, WithTyped
  <2>2. Final(Turn(With(x, c))) = Final(With(x, c))
    BY <2>1, FinalOfTurn
  <2>3. Final(Turn(With(Turn(x), c))) = Final(With(Turn(x), c))
    BY <2>1, FinalOfTurn
  <2>4. \/ Turn(x) = x
        \/ Turn(With(x, c)) = With(Turn(x), c)
        \/ Turn(With(x, c)) = Turn(With(Turn(x), c))
    BY TurnWithMore
  <2> QED BY <2>2, <2>3, <2>4
<1> DEFINE T == {i \in Nat : i <= L => Final(With(f[i], c)) = Final(With(s, c))}
<1>5. 0 \in T
  BY <1>0, <1>1, TurnsStep
<1>6. ASSUME NEW i \in Nat, i \in T PROVE i + 1 \in T
  <2> SUFFICES ASSUME i + 1 <= L PROVE Final(With(f[i + 1], c)) = Final(With(s, c))
    OBVIOUS
  <2>1. i \in 0..L /\ i <= L
    BY <1>0
  <2>2. f[i] \in States
    BY <1>1, <2>1
  <2>3. f[i + 1] = Turn(f[i])
    BY <1>0, <1>1, TurnsStep
  <2>4. Final(With(f[i], c)) = Final(With(s, c))
    BY <1>6, <2>1
  <2> QED BY <1>4, <2>2, <2>3, <2>4
<1>7. Nat \subseteq T
  <2> HIDE DEF T
  <2> QED BY <1>5, <1>6, SetInduction
<1>8. Final(With(f[L], c)) = Final(With(s, c))
  BY <1>0, <1>7
<1> QED BY <1>3, <1>8

(* The frames given before stay before those the loop gives. *)
LEMMA FinalBehind ==
  ASSUME NEW s \in States, NEW fs \in Seq(GivenFrame)
  PROVE  Final(Behind(fs, s)) = Behind(fs, Final(s))
<1> DEFINE L == Len(s.buf)
           x == Behind(fs, s)
<1>0. L \in Nat
  BY BytesTyped DEF States
<1>1. PICK f \in [0..L -> States] : Turns(f, s, L)
  BY <1>0, TurnsExist
<1>2. Turn(f[L]) = f[L] /\ f[L] \in States
  BY <1>0, <1>1, TurnsEnd
<1>3. Final(s) = f[L]
  BY <1>0, <1>1, <1>2, FinalIs
<1> HIDE DEF L
<1>4. x \in States
  BY TurnBehind
<1>5. PICK g : Turns(g, x, L)
  BY <1>0, <1>4, TurnsExist
<1> DEFINE T == {i \in Nat : i <= L => g[i] = Behind(fs, f[i])}
<1>6. 0 \in T
  <2>1. g[0] = x /\ f[0] = s
    <3> HIDE DEF x
    <3> QED BY <1>0, <1>1, <1>5, TurnsStep
  <2> QED BY <2>1
<1>7. ASSUME NEW i \in Nat, i \in T PROVE i + 1 \in T
  <2> SUFFICES ASSUME i + 1 <= L PROVE g[i + 1] = Behind(fs, f[i + 1])
    OBVIOUS
  <2>1. i \in 0..L /\ i <= L
    BY <1>0
  <2>2. f[i] \in States
    BY <1>1, <2>1
  <2>3. f[i + 1] = Turn(f[i])
    BY <1>0, <1>1, TurnsStep
  <2>4. g[i + 1] = Turn(g[i])
    <3> HIDE DEF x
    <3> QED BY <1>0, <1>5, TurnsStep
  <2>5. g[i] = Behind(fs, f[i])
    BY <1>7, <2>1
  <2>6. Turn(Behind(fs, f[i])) = Behind(fs, Turn(f[i]))
    BY <2>2, TurnBehind
  <2> QED BY <2>3, <2>4, <2>5, <2>6
<1>8. Nat \subseteq T
  <2> HIDE DEF T
  <2> QED BY <1>6, <1>7, SetInduction
<1>9. g[L] = Behind(fs, f[L])
  BY <1>0, <1>8
<1>10. Turn(g[L]) = g[L]
  BY <1>2, <1>9, TurnBehind
<1>11. Final(x) = g[L]
  <2> HIDE DEF x
  <2> QED BY <1>0, <1>4, <1>5, <1>10, FinalIs
<1> QED BY <1>3, <1>9, <1>11
-----------------------------------------------------------------------------
Fresh(b) == [buf |-> b, frames |-> <<>>]

LEMMA FreshTyped ==
  ASSUME NEW b \in Bytes
  PROVE  Fresh(b) \in States /\ Fresh(b).buf = b
<1>1. <<>> \in Seq(GivenFrame)
  BY EmptySeq
<1> QED BY <1>1 DEF Fresh, States

LEMMA DrainIsFinal ==
  ASSUME NEW b \in Bytes
  PROVE  /\ Drain(b) = Final(Fresh(b)) /\ Drain(b) \in States /\ Turn(Drain(b)) = Drain(b)
         /\ Len(Drain(b).buf) <= Len(b)
<1> DEFINE s == Fresh(b)
<1>1. s \in States /\ s.buf = b
  BY FreshTyped
<1>2. Drain(b) = (CHOOSE h : Turns(h, s, Len(b)))[Len(b)]
  BY DEF Drain, Turns, Fresh
<1>3. Final(s) = (CHOOSE h : Turns(h, s, Len(s.buf)))[Len(s.buf)]
  BY DEF Final, Turns
<1> HIDE DEF s
<1>4. Drain(b) = Final(s)
  BY <1>1, <1>2, <1>3
<1>5. Final(s) \in States /\ Turn(Final(s)) = Final(s) /\ Len(Final(s).buf) <= Len(b)
  BY <1>1, FinalTyped
<1> QED BY <1>4, <1>5 DEF s

(* Two feeds give what one feed of both gives. *)
LEMMA DrainInTwo ==
  ASSUME NEW b \in Bytes, NEW c \in Bytes
  PROVE  LET first  == Drain(b)
             second == Drain(first.buf \o c)
             once   == Drain(b \o c)
         IN  once.buf = second.buf /\ once.frames = first.frames \o second.frames
<1> DEFINE first == Drain(b)
           second == Drain(first.buf \o c)
           once == Drain(b \o c)
<1>1. first \in States /\ first = Final(Fresh(b)) /\ first.buf \in Bytes
      /\ first.frames \in Seq(GivenFrame)
  BY DrainIsFinal DEF States
<1> HIDE DEF first
<1>2. first.buf \o c \in Bytes /\ b \o c \in Bytes
  BY <1>1, JoinIs
<1>3. second \in States /\ second = Final(Fresh(first.buf \o c))
  BY <1>2, DrainIsFinal
<1>4. once = Final(Fresh(b \o c))
  BY <1>2, DrainIsFinal
<1>5. Fresh(b \o c) = With(Fresh(b), c)
  BY DEF Fresh, With
<1>6. Final(With(first, c)) = Final(With(Fresh(b), c))
  BY <1>1, FreshTyped, FinalWithMore
<1>7. With(first, c) = Behind(first.frames, Fresh(first.buf \o c))
  <2>1. first.frames \o <<>> = first.frames
    BY <1>1, ConcatEmptySeq
  <2> QED BY <2>1 DEF With, Behind, Fresh
<1>8. Final(Behind(first.frames, Fresh(first.buf \o c)))
      = Behind(first.frames, Final(Fresh(first.buf \o c)))
  BY <1>1, <1>2, FreshTyped, FinalBehind
<1>9. once = Behind(first.frames, second)
  BY <1>3, <1>4, <1>5, <1>6, <1>7, <1>8
<1>10. once.buf = second.buf /\ once.frames = first.frames \o second.frames
  <2> HIDE DEF once, second
  <2> QED BY <1>9 DEF Behind
<1> QED BY <1>10 DEF first

LEMMA DrainOfNothing == Drain(<<>>).buf = <<>> /\ Drain(<<>>).frames = <<>>
<1> DEFINE b == <<>>
<1>1. b \in Bytes /\ Len(b) = 0
  BY EmptySeq DEF Bytes
<1>2. Fresh(b) \in States /\ Fresh(b).buf = b
  BY <1>1, FreshTyped
<1>3. Turn(Fresh(b)) = Fresh(b)
  <2> DEFINE t == Turn(Fresh(b))
  <2>1. t \in States /\ (t = Fresh(b) \/ Len(t.buf) < 0)
    BY <1>1, <1>2, TurnTyped
  <2>2. Len(t.buf) \in Nat
    BY <2>1, BytesTyped DEF States
  <2> QED BY <2>1, <2>2
<1>4. PICK f : Turns(f, Fresh(b), 0)
  BY <1>2, TurnsExist
<1>5. f[0] = Fresh(b)
  BY <1>4, TurnsStep
<1>6. Final(Fresh(b)) = Fresh(b)
  BY <1>2, <1>3, <1>4, <1>5, FinalIs
<1>7. Drain(b) = Fresh(b)
  BY <1>1, <1>6, DrainIsFinal
<1> QED BY <1>7 DEF Fresh

(* A turn that changes nothing leaves less than a frame. *)
LEMMA LittleWaits ==
  ASSUME NEW s \in States, Turn(s) = s, NEW b, b = s.buf
  PROVE  \/ Len(b) <= 4
         \/ \E h \in A5Syncs(b) :
              h.first = 1 /\ (Len(b) < h.mark + 5 \/ Len(b) < h.mark + 7 + b[h.mark + 5])
         \/ At(b, 1, Stx) /\ Len(b) < IcMax
<1>1. b \in Bytes /\ Len(b) \in Nat
  BY BytesTyped DEF States
<1>0. ASSUME NEW d, s = [s EXCEPT !.buf = d] PROVE b = d
  <2>1. [s EXCEPT !.buf = d].buf = d
    BY DEF States
  <2> QED BY <1>0, <2>1
<1>2. ASSUME NEW n \in Nat \ {0}, n <= Len(b), b = Drop(b, n) PROVE FALSE
  <2>1. Len(Drop(b, n)) = Len(b) - n
    BY <1>1, <1>2, DropIs
  <2> QED BY <1>1, <1>2, <2>1
<1>3. CASE NoSync(b)
  <2>1. TailKept(b) = b
    <3>1. s = [s EXCEPT !.buf = TailKept(b)]
      BY <1>3, TurnIs
    <3> QED BY <1>0, <3>1
  <2>2. ASSUME Len(b) > 4 PROVE FALSE
    <3>1. b = Drop(b, Len(b) - 4)
      BY <2>1, <2>2 DEF TailKept
    <3>2. ASSUME NEW n, n = Len(b) PROVE n - 4 \in Nat \ {0} /\ n - 4 <= n
      <4>1. n \in Nat /\ n > 4
        BY <1>1, <2>2, <3>2
      <4> HIDE <3>2
      <4> QED BY <4>1
    <3>3. Len(b) - 4 \in Nat \ {0} /\ Len(b) - 4 <= Len(b)
      BY <3>2
    <3> QED BY <1>2, <3>1, <3>3
  <2> QED BY <1>1, <2>2
<1>4. CASE ~NoSync(b)
  <2> DEFINE h == Sync(b)
  <2>1. /\ h.first \in Nat \ {0} /\ h.first <= Len(b) /\ h.mark \in Nat \ {0} /\ h.mark <= Len(b)
        /\ (h.kind = "A5" <=> ShortFirst(b)) /\ (ShortFirst(b) => h \in A5Syncs(b))
        /\ (~ShortFirst(b) => h.first = FirstStx(b))
    BY <1>1, <1>4, SyncTyped
  <2>2. h.first = 1
    <3> SUFFICES ASSUME h.first > 1 PROVE FALSE
      BY <2>1
    <3>1. b = Drop(b, h.first - 1)
      <4>1. s = [s EXCEPT !.buf = Drop(b, h.first - 1)]
        BY <1>4, TurnIs
      <4> QED BY <1>0, <4>1
    <3> HIDE DEF h
    <3>2. h.first - 1 \in Nat \ {0} /\ h.first - 1 <= Len(b)
      BY <1>1, <2>1
    <3> QED BY <1>2, <3>1, <3>2
  <2>3. Taken(b).take = "more"
    <3> SUFFICES ASSUME Taken(b).take # "more" PROVE FALSE
      OBVIOUS
    <3>0. ~(h.first > 1)
      <4> HIDE DEF h
      <4> QED BY <2>2
    <3>1. CASE Taken(b).take = "drop"
      <4>1. b = Drop(b, 1)
        <5>1. s = [s EXCEPT !.buf = Drop(b, 1)]
          BY <1>4, <3>0, <3>1, TurnIs
        <5> QED BY <1>0, <5>1
      <4>2. 1 \in Nat \ {0} /\ 1 <= Len(b)
        <5> HIDE DEF h
        <5> QED BY <1>1, <2>1, <2>2
      <4> QED BY <1>2, <4>1, <4>2
    <3>2. CASE Taken(b).take # "drop"
      <4>1. b = Drop(b, Taken(b).n)
        <5>1. s = [buf |-> Drop(b, Taken(b).n), frames |-> Append(s.frames, FrameOf(b))]
          BY <1>4, <3>0, <3>2, TurnIs
        <5>2. s.buf = Drop(b, Taken(b).n)
          BY <5>1
        <5> QED BY <5>2
      <4>2. Taken(b).n \in Nat \ {0} /\ Taken(b).n <= Len(b)
        BY <1>1, <1>4, <3>2, TakenTyped
      <4> QED BY <1>2, <4>1, <4>2
    <3> QED BY <3>1, <3>2
  <2>4. CASE ShortFirst(b)
    <3>1. TakeA5(b, h.mark).take = "more" /\ h \in A5Syncs(b) /\ h.kind = "A5"
      BY <2>1, <2>3, <2>4 DEF Taken
    <3> HIDE DEF h
    <3>2. Len(b) < h.mark + 5 \/ Len(b) < h.mark + 5 + b[h.mark + 5] + 2
      BY <3>1 DEF TakeA5, Took
    <3>3. CASE Len(b) < h.mark + 5
      BY <2>2, <3>1, <3>3
    <3>4. CASE ~(Len(b) < h.mark + 5)
      <4>1. h.mark + 5 \in 1..Len(b)
        BY <1>1, <2>1, <3>4
      <4>2. b[h.mark + 5] \in Octets
        BY <1>1, <4>1, BytesTyped
      <4>3. b[h.mark + 5] \in Nat
        BY <4>2 DEF Octets
      <4>4. Len(b) < h.mark + 7 + b[h.mark + 5]
        BY <1>1, <2>1, <3>2, <3>4, <4>3
      <4> QED BY <2>2, <3>1, <4>4
    <3> QED BY <3>3, <3>4
  <2>5. CASE ~ShortFirst(b)
    <3>1. TakeChlor(b).take = "more" /\ FirstStx(b) = 1
      BY <2>1, <2>2, <2>3, <2>5 DEF Taken
    <3>2. Len(b) < IcMax
      <4>1. ~(Len(b) >= IcMax)
        BY <3>1 DEF TakeChlor, Advanced, Took
      <4> QED BY <1>1, <4>1, FramerAssumption
    <3>3. At(b, 1, Stx)
      <4>1. 1 \in 1..(Len(b) - 1) /\ PairAt(b, 1, 2)
        BY <1>1, <3>1, FirstStxIs
      <4>2. 2 \in Octets
        BY DEF Octets
      <4> QED BY <1>1, <4>1, <4>2, AtPair DEF Stx
    <3> QED BY <3>2, <3>3
  <2> QED BY <2>4, <2>5
<1> QED BY <1>3, <1>4
-----------------------------------------------------------------------------
(* The stream, and parts of it.                                              *)
LEMMA PartOfStream ==
  ASSUME NEW b \in Bytes, NEW i \in Nat, NEW j \in Nat, i <= j, j <= Len(b)
  PROVE  SubSeq(b, i + 1, j) \in Bytes /\ Len(SubSeq(b, i + 1, j)) = j - i
<1>1. i + 1 \in Int /\ j \in Int /\ \A k \in (i + 1)..j : k \in 1..Len(b)
  BY BytesTyped
<1>2. \A k \in (i + 1)..j : b[k] \in Octets
  BY <1>1, BytesTyped
<1>3. /\ SubSeq(b, i + 1, j) \in Seq(Octets)
      /\ Len(SubSeq(b, i + 1, j)) = IF i + 1 <= j THEN j - (i + 1) + 1 ELSE 0
  BY <1>1, <1>2, SubSeqProperties
<1>4. (IF i + 1 <= j THEN j - (i + 1) + 1 ELSE 0) = j - i
  OBVIOUS
<1> QED BY <1>3, <1>4 DEF Bytes

(* What the bus carries is a sequence of bytes. *)
LEMMA StreamTyped ==
  ASSUME NEW p \in Seq(Piece)
  PROVE  /\ [i \in DOMAIN p |-> p[i].bytes] \in Seq(Bytes)
         /\ StreamOf(p) \in Bytes
<1> DEFINE ss == [i \in DOMAIN p |-> p[i].bytes]
<1>1. DOMAIN p = 1..Len(p) /\ Len(p) \in Nat
  OBVIOUS
<1>2. ASSUME NEW i \in 1..Len(p) PROVE p[i].bytes \in Bytes
  <2>1. p[i] \in Piece
    BY ElementOfSeq
  <2> QED BY <2>1 DEF Piece, Bytes, Octets
<1>3. ss \in Seq(Bytes)
  <2>1. ss = [i \in 1..Len(p) |-> p[i].bytes]
    BY <1>1
  <2>2. [i \in 1..Len(p) |-> p[i].bytes] \in [1..Len(p) -> Bytes]
    BY <1>2
  <2>3. [i \in 1..Len(p) |-> p[i].bytes] \in Seq(Bytes)
    BY <1>1, <2>2, IsASeq
  <2> QED BY <2>1, <2>3
<1> HIDE DEF ss
<1>4. PICK g \in [0..Len(ss) -> Seq(Octets)] : FlattenSeq(ss) = g[Len(ss)]
  BY <1>3, FlattenIs DEF Bytes
<1>5. Len(ss) \in Nat
  BY <1>3
<1>6. FlattenSeq(ss) \in Bytes
  <2>1. Len(ss) \in 0..Len(ss)
    BY <1>5
  <2> QED BY <1>4, <2>1 DEF Bytes
<1>7. StreamOf(p) = FlattenSeq(ss)
  BY DEF StreamOf, ss
<1> QED BY <1>3, <1>6, <1>7 DEF ss

-----------------------------------------------------------------------------
(* Where the syncs of some bytes lie, and what the framer makes of a buffer   *)
(* that begins with a quiet stretch and then a sync.                         *)
(* SumOf adds up one number after the other. *)
Sums(g, s) == g = [n \in 0..Len(s) |-> IF n = 0 THEN 0 ELSE g[n - 1] + s[n]]

LEMMA SumIs ==
  ASSUME NEW s \in Seq(Nat)
  PROVE  \E g \in [0..Len(s) -> Nat] : Sums(g, s) /\ SumOf(s) = g[Len(s)]
<1> DEFINE n == Len(s)
           next == [i \in 1..n |-> [x \in Nat |-> x + s[i]]]
<1>1. n \in Nat /\ 0 \in Nat
  OBVIOUS
<1>2. next \in [1..n -> [Nat -> Nat]]
  <2>1. ASSUME NEW i \in 1..n, NEW x \in Nat PROVE x + s[i] \in Nat
    <3>1. s[i] \in Nat
      BY ElementOfSeq
    <3> QED BY <3>1
  <2> QED BY <2>1
<1>3. PICK f \in [0..n -> Nat] : Iterates(f, 0, next, n)
  <2> HIDE DEF next, n
  <2> QED BY <1>1, <1>2, IterationExists
<1>4. ASSUME NEW i \in 0..n, i # 0 PROVE next[i][f[i - 1]] = f[i - 1] + s[i]
  <2>1. i \in 1..n /\ i - 1 \in 0..n
    BY <1>1, <1>4
  <2>2. f[i - 1] \in Nat
    BY <1>3, <2>1, Zenon
  <2> QED BY <2>1, <2>2, Zenon
<1> HIDE DEF next
<1>5. [i \in 0..n |-> IF i = 0 THEN 0 ELSE next[i][f[i - 1]]]
      = [i \in 0..n |-> IF i = 0 THEN 0 ELSE f[i - 1] + s[i]]
  BY <1>4, Zenon
<1>6. Sums(f, s)
  BY <1>3, <1>5, Zenon DEF Iterates, Sums
<1> DEFINE g == CHOOSE h : Sums(h, s)
<1>7. Sums(g, s) /\ SumOf(s) = g[n]
  <2>1. Sums(g, s)
    BY <1>6, Zenon
  <2>2. SumOf(s) = g[n]
    BY Zenon DEF SumOf, Sums
  <2> QED BY <2>1, <2>2
<1> HIDE DEF g
<1>8. ASSUME NEW a, Sums(a, s) PROVE \A i \in 0..n : a[i] = IF i = 0 THEN 0 ELSE a[i - 1] + s[i]
  BY <1>8, Zenon DEF Sums
<1> DEFINE T == {k \in Nat : k <= n => g[k] = f[k]}
<1>9. 0 \in T
  <2>1. 0 \in 0..n
    BY <1>1
  <2>2. g[0] = 0 /\ f[0] = 0
    BY <1>6, <1>7, <1>8, <2>1, Zenon
  <2> QED BY <2>2
<1>10. ASSUME NEW k \in Nat, k \in T PROVE k + 1 \in T
  <2> SUFFICES ASSUME k + 1 <= n PROVE g[k + 1] = f[k + 1]
    OBVIOUS
  <2> DEFINE m == k + 1
  <2>1. m \in 0..n /\ m # 0 /\ m - 1 = k /\ k <= n
    BY <1>1
  <2>2. g[k] = f[k]
    BY <1>10, <2>1
  <2> HIDE DEF m
  <2>3. g[m] = g[m - 1] + s[m] /\ f[m] = f[m - 1] + s[m]
    BY <1>6, <1>7, <1>8, <2>1, Zenon
  <2> QED BY <2>1, <2>2, <2>3 DEF m
<1>11. Nat \subseteq T
  <2> HIDE DEF T
  <2> QED BY <1>9, <1>10, SetInduction
<1>12. g[n] = f[n]
  BY <1>1, <1>11
<1> QED BY <1>3, <1>6, <1>7, <1>12

LEMMA SumsStep ==
  ASSUME NEW s, Len(s) \in Nat, NEW g, Sums(g, s)
  PROVE  g[0] = 0 /\ \A i \in 1..Len(s) : g[i] = g[i - 1] + s[i]
<1>1. \A i \in 0..Len(s) : g[i] = IF i = 0 THEN 0 ELSE g[i - 1] + s[i]
  BY Zenon DEF Sums
<1>2. 0 \in 0..Len(s) /\ \A i \in 1..Len(s) : i \in 0..Len(s) /\ i # 0
  OBVIOUS
<1> QED BY <1>1, <1>2, Zenon

(* The sum of one number more. *)
LEMMA SumOfMore ==
  ASSUME NEW s \in Seq(Nat), NEW t \in Seq(Nat), Len(t) = Len(s) + 1,
         \A i \in 1..Len(s) : t[i] = s[i]
  PROVE  SumOf(s) \in Nat /\ SumOf(t) = SumOf(s) + t[Len(t)]
<1> DEFINE n == Len(s)
<1>1. n \in Nat /\ Len(t) \in Nat
  OBVIOUS
<1>2. PICK f \in [0..n -> Nat] : Sums(f, s) /\ SumOf(s) = f[n]
  BY SumIs
<1> DEFINE m == Len(t)
<1>3. PICK g \in [0..m -> Nat] : Sums(g, t) /\ SumOf(t) = g[m]
  BY SumIs
<1>4. f[0] = 0 /\ \A i \in 1..n : f[i] = f[i - 1] + s[i]
  BY <1>1, <1>2, SumsStep
<1>5. g[0] = 0 /\ \A i \in 1..m : g[i] = g[i - 1] + t[i]
  BY <1>1, <1>3, SumsStep
<1>13. m = n + 1
  OBVIOUS
<1>0. \A i \in 1..n : t[i] = s[i]
  OBVIOUS
<1> HIDE DEF n, m
<1> DEFINE T == {k \in Nat : k <= n => g[k] = f[k]}
<1>6. 0 \in T
  BY <1>4, <1>5
<1>7. ASSUME NEW k \in Nat, k \in T PROVE k + 1 \in T
  <2> SUFFICES ASSUME k + 1 <= n PROVE g[k + 1] = f[k + 1]
    OBVIOUS
  <2> DEFINE j == k + 1
  <2>1. j \in 1..n /\ j \in 1..m /\ j - 1 = k /\ k <= n
    BY <1>1, <1>13
  <2>2. g[k] = f[k]
    BY <1>7, <2>1
  <2> HIDE DEF j
  <2>3. g[j] = g[j - 1] + t[j] /\ f[j] = f[j - 1] + s[j] /\ t[j] = s[j]
    BY <1>0, <1>4, <1>5, <2>1, Zenon
  <2> QED BY <2>1, <2>2, <2>3 DEF j
<1>8. Nat \subseteq T
  <2> HIDE DEF T
  <2> QED BY <1>6, <1>7, SetInduction
<1>9. g[n] = f[n]
  BY <1>1, <1>8
<1>10. m \in 1..m /\ m - 1 = n /\ n \in 0..n
  BY <1>1, <1>13
<1>11. g[m] = g[m - 1] + t[m]
  BY <1>5, <1>10, Zenon
<1>12. f[n] \in Nat
  BY <1>2, <1>10
<1> QED BY <1>2, <1>3, <1>9, <1>10, <1>11, <1>12 DEF n, m

LEMMA SumOfNone == SumOf(<<>>) = 0
<1>1. <<>> \in Seq(Nat) /\ Len(<<>>) = 0
  OBVIOUS
<1>2. PICK g \in [0..0 -> Nat] : Sums(g, <<>>) /\ SumOf(<<>>) = g[0]
  BY <1>1, SumIs
<1>3. g[0] = 0
  BY <1>1, <1>2, SumsStep
<1> QED BY <1>2, <1>3

(* Where a sync begins: 00 FF A5, or STX. *)
SyncAt(b, q) ==
  \/ q <= Len(b) - 2 /\ ShortAt(b, q)
  \/ q <= Len(b) - 1 /\ PairAt(b, q, 2)

LEMMA SyncsAre ==
  ASSUME NEW b \in Bytes
  PROVE  SyncsOf(b) = {q \in 1..Len(b) : SyncAt(b, q)}
<1>1. Len(b) \in Nat /\ Len(SyncShort) = 3 /\ Len(Stx) = 2 /\ 2 \in Octets
  BY BytesTyped DEF SyncShort, Stx, Octets
<1>2. Len(b) - Len(SyncShort) + 1 = Len(b) - 2 /\ Len(b) - Len(Stx) + 1 = Len(b) - 1
  BY <1>1
<1>3. Occurrences(b, SyncShort) = {q \in 1..(Len(b) - 2) : ShortAt(b, q)}
  <2>1. Occurrences(b, SyncShort) = {q \in 1..(Len(b) - 2) : At(b, q, SyncShort)}
    BY <1>2 DEF Occurrences
  <2>2. \A q \in 1..(Len(b) - 2) : At(b, q, SyncShort) <=> ShortAt(b, q)
    BY AtShort
  <2> QED BY <2>1, <2>2
<1>4. Occurrences(b, Stx) = {q \in 1..(Len(b) - 1) : PairAt(b, q, 2)}
  <2>1. Occurrences(b, Stx) = {q \in 1..(Len(b) - 1) : At(b, q, Stx)}
    BY <1>2 DEF Occurrences
  <2>2. \A q \in 1..(Len(b) - 1) : At(b, q, Stx) <=> PairAt(b, q, 2)
    BY <1>1, AtPair DEF Stx
  <2> QED BY <2>1, <2>2
<1>5. /\ \A q : q \in 1..(Len(b) - 2) <=> q \in 1..Len(b) /\ q <= Len(b) - 2
      /\ \A q : q \in 1..(Len(b) - 1) <=> q \in 1..Len(b) /\ q <= Len(b) - 1
  BY <1>1
<1>6. ASSUME NEW q
      PROVE  q \in SyncsOf(b) <=> q \in 1..Len(b) /\ SyncAt(b, q)
  <2>1. q \in SyncsOf(b) <=> q \in Occurrences(b, SyncShort) \/ q \in Occurrences(b, Stx)
    BY DEF SyncsOf
  <2>2. q \in Occurrences(b, SyncShort) <=> q \in 1..(Len(b) - 2) /\ ShortAt(b, q)
    BY <1>3
  <2>3. q \in Occurrences(b, Stx) <=> q \in 1..(Len(b) - 1) /\ PairAt(b, q, 2)
    BY <1>4
  <2> QED BY <1>5, <2>1, <2>2, <2>3, Zenon DEF SyncAt
<1> QED BY <1>6

LEMMA NoSyncIs ==
  ASSUME NEW b \in Bytes
  PROVE  NoSync(b) <=> \A q \in 1..Len(b) : ~SyncAt(b, q)
<1> DEFINE i == FirstShort(b)
           j == FirstStx(b)
<1>1. Len(b) \in Nat /\ i \in Nat /\ j \in Nat
  BY BytesTyped, FirstsTyped
<1>2. \/ i = 0 /\ \A q \in 1..(Len(b) - 2) : ~ShortAt(b, q)
      \/ i \in 1..(Len(b) - 2) /\ ShortAt(b, i)
  BY FirstShortIs
<1>3. \/ j = 0 /\ \A q \in 1..(Len(b) - 1) : ~PairAt(b, q, 2)
      \/ j \in 1..(Len(b) - 1) /\ PairAt(b, j, 2)
  BY FirstStxIs
<1>4. NoSync(b) <=> i = 0 /\ j = 0
  BY DEF NoSync
<1> HIDE DEF i, j
<1>5. /\ \A q \in 1..Len(b) : q <= Len(b) - 2 => q \in 1..(Len(b) - 2)
      /\ \A q \in 1..Len(b) : q <= Len(b) - 1 => q \in 1..(Len(b) - 1)
      /\ \A q \in 1..(Len(b) - 2) : q \in 1..Len(b) /\ q <= Len(b) - 2 /\ q # 0
      /\ \A q \in 1..(Len(b) - 1) : q \in 1..Len(b) /\ q <= Len(b) - 1 /\ q # 0
  BY <1>1
<1> QED BY <1>2, <1>3, <1>4, <1>5, Zenon DEF SyncAt

(* The bytes of a stream after the first a and up to e. *)
Part(b, a, e) == SubSeq(b, a + 1, e)

LEMMA PartIs ==
  ASSUME NEW b \in Bytes, NEW a \in Nat, NEW e \in Nat, a <= e, e <= Len(b)
  PROVE  /\ Part(b, a, e) \in Bytes /\ Len(Part(b, a, e)) = e - a
         /\ \A k \in 1..(e - a) : Part(b, a, e)[k] = b[a + k]
<1>1. Len(b) \in Nat /\ b \in Seq(Octets)
  BY BytesTyped DEF Bytes
<1>2. a + 1 \in 1..(Len(b) + 1) /\ e \in (a + 1 - 1)..Len(b)
  BY <1>1
<1>3. \A i \in 1..(e - (a + 1) + 1) : SubSeq(b, a + 1, e)[i] = b[a + 1 + i - 1]
  BY <1>1, <1>2, SubSeqProperties
<1>4. \A k \in 1..(e - a) : k \in 1..(e - (a + 1) + 1) /\ a + 1 + k - 1 = a + k
  OBVIOUS
<1>5. \A k \in 1..(e - a) : SubSeq(b, a + 1, e)[k] = b[a + k]
  BY <1>3, <1>4
<1>6. SubSeq(b, a + 1, e) \in Bytes /\ Len(SubSeq(b, a + 1, e)) = e - a
  BY PartOfStream
<1> QED BY <1>5, <1>6 DEF Part

LEMMA PartsJoin ==
  ASSUME NEW b \in Bytes, NEW a \in Nat, NEW e \in Nat, NEW f \in Nat,
         a <= e, e <= f, f <= Len(b)
  PROVE  Part(b, a, e) \o Part(b, e, f) = Part(b, a, f)
<1> DEFINE m == a + 1
<1>1. Len(b) \in Nat /\ m \in 1..(Len(b) + 1) /\ e \in (m - 1)..Len(b) /\ f \in e..Len(b)
  BY BytesTyped
<1>2. b \in Seq(Octets)
  BY DEF Bytes
<1> HIDE DEF m
<1>3. SubSeq(b, m, e) \o SubSeq(b, e + 1, f) = SubSeq(b, m, f)
  BY <1>1, <1>2, ConcatAdjacentSubSeq
<1> QED BY <1>3 DEF Part, m

(* A sync in a part of a stream is one of the stream. *)
LEMMA PartSyncs ==
  ASSUME NEW b \in Bytes, NEW a \in Nat, NEW e \in Nat, a <= e, e <= Len(b),
         NEW k \in 1..(e - a), SyncAt(Part(b, a, e), k)
  PROVE  SyncAt(b, a + k)
<1> DEFINE x == Part(b, a, e)
           m == e - a
<1>1. x \in Bytes /\ Len(x) = m /\ \A i \in 1..m : x[i] = b[a + i]
  BY PartIs
<1>2. Len(b) \in Nat /\ m \in Nat /\ a + m = e
  BY BytesTyped
<1>3. SyncAt(x, k)
  OBVIOUS
<1> HIDE DEF x
<1>4. k <= m - 2 => k + 1 \in 1..m /\ k + 2 \in 1..m /\ a + k <= Len(b) - 2
  BY <1>2
<1>5. k <= m - 1 => k + 1 \in 1..m /\ a + k <= Len(b) - 1
  BY <1>2
<1>6. a + (k + 1) = a + k + 1 /\ a + (k + 2) = a + k + 2
  OBVIOUS
<1>7. k \in 1..m
  OBVIOUS
<1> HIDE DEF m
<1>8. CASE k <= m - 2 /\ ShortAt(x, k)
  <2>1. ShortAt(b, a + k)
    BY <1>1, <1>4, <1>6, <1>7, <1>8 DEF ShortAt
  <2> QED BY <1>4, <1>8, <2>1 DEF SyncAt
<1>9. CASE k <= m - 1 /\ PairAt(x, k, 2)
  BY <1>1, <1>5, <1>6, <1>7, <1>9 DEF PairAt, SyncAt
<1> QED BY <1>1, <1>3, <1>8, <1>9 DEF SyncAt
-----------------------------------------------------------------------------
(* What a feed gives, by what the buffer begins with. *)

(* A state that a turn does not change is where the turns end. *)
LEMMA FixedFinal ==
  ASSUME NEW b \in Bytes, Turn(Fresh(b)) = Fresh(b)
  PROVE  Final(Fresh(b)) = Fresh(b)
<1>1. Fresh(b) \in States
  BY FreshTyped
<1>2. PICK f : Turns(f, Fresh(b), 0)
  BY <1>1, TurnsExist
<1>3. f[0] = Fresh(b)
  BY <1>2, TurnsStep
<1> QED BY <1>1, <1>2, <1>3, FinalIs

(* No sync: nothing is given, and a tail is kept. *)
LEMMA QuietGiven ==
  ASSUME NEW b \in Bytes, NoSync(b)
  PROVE  Drain(b).frames = <<>> /\ Drain(b).buf = TailKept(b)
<1> DEFINE s == Fresh(b)
           u == TailKept(b)
<1>1. s \in States /\ s.buf = b /\ s = [buf |-> b, frames |-> <<>>]
  BY FreshTyped DEF Fresh
<1>2. Turn(s) = [s EXCEPT !.buf = u]
  BY <1>1, TurnIs
<1>3. Turn(s) = Fresh(u)
  BY <1>1, <1>2 DEF Fresh
<1>4. u \in Bytes /\ Len(u) <= 4 /\ NoSync(u)
  <2>1. Len(b) \in Nat
    BY BytesTyped
  <2>2. CASE Len(b) > 4
    <3> DEFINE k == Len(b) - 4
    <3>1. k \in Nat /\ Len(b) = k + 4 /\ Begins(b, b)
      BY <2>1, <2>2 DEF Begins
    <3>2. u = Drop(b, k)
      BY <2>2 DEF TailKept
    <3> HIDE DEF k, u
    <3>3. u \in Bytes /\ Len(u) = Len(b) - k /\ (NoSync(u) <=> NoSync(b))
      BY <3>1, <3>2, TailKeepsSync
    <3> QED BY <2>1, <3>1, <3>3
  <2>3. CASE Len(b) <= 4
    <3>1. u = b
      BY <2>1, <2>3 DEF TailKept
    <3> QED BY <2>3, <3>1
  <2> QED BY <2>1, <2>2, <2>3
<1>5. Turn(Fresh(u)) = Fresh(u)
  <2>1. TailKept(u) = u
    <3>1. Len(u) \in Nat
      BY <1>4, BytesTyped
    <3>2. ~(Len(u) > 4)
      BY <1>4, <3>1
    <3> HIDE DEF u
    <3> QED BY <3>2 DEF TailKept
  <2> HIDE DEF u
  <2>2. Fresh(u) \in States /\ Fresh(u).buf = u
    BY <1>4, FreshTyped
  <2>3. Turn(Fresh(u)) = [Fresh(u) EXCEPT !.buf = TailKept(u)]
    BY <1>4, <2>2, TurnIs
  <2> QED BY <2>1, <2>3 DEF Fresh
<1> HIDE DEF s, u
<1>6. Final(Fresh(u)) = Fresh(u)
  BY <1>4, <1>5, FixedFinal
<1>7. Final(s) = Fresh(u)
  BY <1>1, <1>3, <1>6, FinalOfTurn
<1>8. Drain(b) = Fresh(u)
  BY <1>7, DrainIsFinal DEF s
<1> QED BY <1>8 DEF Fresh, u

(* A buffer whose first sync begins behind its first l bytes. *)
OpensA5(b, l, k) ==
  /\ k \in {1, 2} /\ l + k + 2 <= Len(b) /\ ShortAt(b, l + k)
  /\ k = 2 => b[l + 1] = FF
  /\ k = 1 /\ l > 0 => b[l] # FF

OpensChlor(b, l) == l + 2 <= Len(b) /\ PairAt(b, l + 1, 2)

QuietTo(b, l) == \A q \in 1..l : ~SyncAt(b, q)

LEMMA A5SyncIs ==
  ASSUME NEW b \in Bytes, NEW l \in Nat, NEW k, QuietTo(b, l), OpensA5(b, l, k)
  PROVE  ~NoSync(b) /\ Sync(b) = Hit("A5", l + 1, l + k + 2)
<1> DEFINE i == FirstShort(b)
           j == FirstStx(b)
<1>1. Len(b) \in Nat /\ i \in Nat /\ j \in Nat /\ FF = 255
  BY BytesTyped, FirstsTyped DEF FF
<1>2. \/ i = 0 /\ \A q \in 1..(Len(b) - 2) : ~ShortAt(b, q)
      \/ i \in 1..(Len(b) - 2) /\ ShortAt(b, i) /\ \A q \in 1..(i - 1) : ~ShortAt(b, q)
  BY FirstShortIs
<1>3. j = 0 \/ (j \in 1..(Len(b) - 1) /\ PairAt(b, j, 2))
  BY FirstStxIs
<1>4. /\ k \in {1, 2} /\ l + k + 2 <= Len(b) /\ ShortAt(b, l + k)
      /\ (k = 2 => b[l + 1] = FF) /\ (k = 1 /\ l > 0 => b[l] # FF)
  BY DEF OpensA5
<1>5. \A q \in 1..l : ~(q <= Len(b) - 2 /\ ShortAt(b, q)) /\ ~(q <= Len(b) - 1 /\ PairAt(b, q, 2))
  BY Zenon DEF QuietTo, SyncAt
<1>6. NoSync(b) <=> i = 0 /\ j = 0
  BY DEF NoSync
<1>7. ShortFirst(b) <=> i # 0 /\ (j = 0 \/ i + 2 < j)
  BY DEF ShortFirst
<1>8. ShortHit(b) = Hit("A5", IF i > 1 /\ b[i - 1] = FF THEN i - 1 ELSE i, i + 2)
  BY DEF ShortHit
<1> HIDE DEF i, j
<1>9. l + k \in 1..(Len(b) - 2)
  BY <1>1, <1>4
<1>10. i # 0 /\ i <= l + k
  BY <1>1, <1>2, <1>4, <1>9
<1>11. i > l
  <2> SUFFICES ASSUME i <= l PROVE FALSE
    BY <1>1
  <2>1. i \in 1..l /\ i <= Len(b) - 2
    BY <1>1, <1>2, <1>10
  <2> QED BY <1>2, <1>5, <1>10, <2>1, Zenon
<1>12. b[l + k] = 0 /\ b[l + k + 1] = 255 /\ b[l + k + 2] = 165
  BY <1>1, <1>4 DEF ShortAt
<1>13. i = l + k
  <2> SUFFICES ASSUME i # l + k PROVE FALSE
    OBVIOUS
  <2>1. k = 2 /\ i = l + 1
    BY <1>1, <1>4, <1>10, <1>11
  <2>2. b[l + 1] = 0
    BY <1>2, <1>10, <2>1 DEF ShortAt
  <2> QED BY <1>1, <1>4, <2>1, <2>2
<1>14. j = 0 \/ i + 2 < j
  <2> SUFFICES ASSUME j # 0, j <= i + 2 PROVE FALSE
    BY <1>1
  <2>1. j > l
    <3> SUFFICES ASSUME j <= l PROVE FALSE
      BY <1>1
    <3>1. j \in 1..l /\ j <= Len(b) - 1
      BY <1>1, <1>3
    <3> QED BY <1>3, <1>5, <3>1, Zenon
  <2>2. b[j] = 16
    BY <1>3 DEF PairAt
  <2>3. j = l + k \/ j = l + k + 1 \/ j = l + k + 2 \/ (k = 2 /\ j = l + 1)
    <3>1. k = 1 \/ k = 2
      BY <1>4
    <3>2. j <= l + k + 2
      BY <1>13
    <3> QED BY <1>1, <2>1, <3>1, <3>2
  <2> QED BY <1>1, <1>4, <1>12, <2>2, <2>3
<1>15. ShortFirst(b) /\ ~NoSync(b)
  BY <1>6, <1>7, <1>10, <1>14
<1>16. (IF i > 1 /\ b[i - 1] = FF THEN i - 1 ELSE i) = l + 1
  <2>1. CASE k = 2
    <3>1. i - 1 = l + 1 /\ i > 1
      BY <1>13, <2>1
    <3> QED BY <1>4, <2>1, <3>1
  <2>2. CASE k = 1
    <3>1. i = l + 1 /\ i - 1 = l /\ (i > 1 <=> l > 0)
      BY <1>13, <2>2
    <3> QED BY <1>4, <2>2, <3>1
  <2> QED BY <1>4, <2>1, <2>2
<1>17. Sync(b) = Hit("A5", l + 1, i + 2)
  BY <1>8, <1>15, <1>16 DEF Sync
<1>18. i + 2 = l + k + 2
  BY <1>13
<1> QED BY <1>15, <1>17, <1>18

LEMMA ChlorSyncIs ==
  ASSUME NEW b \in Bytes, NEW l \in Nat, QuietTo(b, l), OpensChlor(b, l)
  PROVE  ~NoSync(b) /\ Sync(b) = Hit("IntelliChlor", l + 1, l + 1)
<1> DEFINE i == FirstShort(b)
           j == FirstStx(b)
<1>1. Len(b) \in Nat /\ i \in Nat /\ j \in Nat
  BY BytesTyped, FirstsTyped
<1>2. i = 0 \/ (i \in 1..(Len(b) - 2) /\ ShortAt(b, i))
  BY FirstShortIs
<1>3. \/ j = 0 /\ \A q \in 1..(Len(b) - 1) : ~PairAt(b, q, 2)
      \/ j \in 1..(Len(b) - 1) /\ PairAt(b, j, 2) /\ \A q \in 1..(j - 1) : ~PairAt(b, q, 2)
  BY FirstStxIs
<1>4. l + 2 <= Len(b) /\ PairAt(b, l + 1, 2)
  BY DEF OpensChlor
<1>5. \A q \in 1..l : ~(q <= Len(b) - 2 /\ ShortAt(b, q)) /\ ~(q <= Len(b) - 1 /\ PairAt(b, q, 2))
  BY Zenon DEF QuietTo, SyncAt
<1>6. NoSync(b) <=> i = 0 /\ j = 0
  BY DEF NoSync
<1>7. ShortFirst(b) <=> i # 0 /\ (j = 0 \/ i + 2 < j)
  BY DEF ShortFirst
<1>8. StxHit(b) = Hit("IntelliChlor", j, j)
  BY DEF StxHit
<1> HIDE DEF i, j
<1>9. l + 1 \in 1..(Len(b) - 1)
  BY <1>1, <1>4
<1>10. j # 0 /\ j <= l + 1
  BY <1>1, <1>3, <1>4, <1>9
<1>11. j > l
  <2> SUFFICES ASSUME j <= l PROVE FALSE
    BY <1>1
  <2>1. j \in 1..l /\ j <= Len(b) - 1
    BY <1>1, <1>3, <1>10
  <2> QED BY <1>3, <1>5, <1>10, <2>1, Zenon
<1>12. j = l + 1
  BY <1>1, <1>10, <1>11
<1>13. i = 0 \/ ~(i + 2 < j)
  <2> SUFFICES ASSUME i # 0, i + 2 < j PROVE FALSE
    BY <1>1
  <2>1. i \in 1..l /\ i <= Len(b) - 2
    BY <1>1, <1>2, <1>12
  <2> QED BY <1>2, <1>5, <2>1, Zenon
<1>14. ~ShortFirst(b) /\ ~NoSync(b)
  BY <1>1, <1>6, <1>7, <1>10, <1>13
<1> QED BY <1>8, <1>12, <1>14 DEF Sync

(* The bytes before the first sync make no difference. *)
LEMMA QuietSkipped ==
  ASSUME NEW b \in Bytes, NEW l \in Nat, l <= Len(b), ~NoSync(b), Sync(b).first = l + 1
  PROVE  Drain(b) = Drain(Drop(b, l))
<1> DEFINE s == Fresh(b)
           u == Drop(b, l)
<1>1. s \in States /\ s.buf = b /\ s = [buf |-> b, frames |-> <<>>]
  BY FreshTyped DEF Fresh
<1>2. u \in Bytes /\ Len(u) = Len(b) - l /\ \A i \in 1..(Len(b) - l) : u[i] = b[l + i]
  BY DropIs
<1>3. CASE l = 0
  <2>1. Len(b) \in Nat
    BY BytesTyped
  <2>2. Len(u) = Len(b) /\ \A i \in 1..Len(b) : l + i = i /\ i \in 1..(Len(b) - l)
    BY <1>2, <1>3, <2>1
  <2>3. \A i \in 1..Len(b) : b[i] = u[i]
    BY <1>2, <2>2, Zenon
  <2>4. b = u
    BY <1>2, <2>2, <2>3, SameBytes
  <2> QED BY <2>4
<1>4. CASE l # 0
  <2>1. l + 1 > 1 /\ l + 1 - 1 = l
    BY <1>4
  <2>2. Turn(s) = [s EXCEPT !.buf = Drop(b, Sync(b).first - 1)]
    BY <1>1, <2>1, TurnIs
  <2>3. Turn(s) = Fresh(u)
    BY <1>1, <2>1, <2>2 DEF Fresh
  <2> HIDE DEF s, u
  <2>4. Final(Fresh(u)) = Final(s)
    BY <1>1, <2>3, FinalOfTurn
  <2> QED BY <1>2, <2>4, DrainIsFinal DEF s, u
<1> QED BY <1>3, <1>4

(* What is taken of a buffer that begins with a sync. *)
LEMMA TakenGiven ==
  ASSUME NEW b \in Bytes, ~NoSync(b), Sync(b).first = 1
  PROVE  /\ Taken(b).take = "more" => Drain(b).buf = b /\ Drain(b).frames = <<>>
         /\ Taken(b).take = "drop" => Drain(b) = Drain(Drop(b, 1))
         /\ Taken(b).take = "frame" =>
              /\ FrameOf(b) \in GivenFrame
              /\ Drain(b).frames = <<FrameOf(b)>> \o Drain(Drop(b, Taken(b).n)).frames
              /\ Drain(b).buf = Drain(Drop(b, Taken(b).n)).buf
<1> DEFINE s == Fresh(b)
<1>1. s \in States /\ s.buf = b /\ s = [buf |-> b, frames |-> <<>>]
  BY FreshTyped DEF Fresh
<1>2. ~(Sync(b).first > 1)
  OBVIOUS
<1>3. Len(b) \in Nat
  BY BytesTyped
<1>4. ASSUME Taken(b).take = "more" PROVE Drain(b).buf = b /\ Drain(b).frames = <<>>
  <2>1. Turn(s) = s
    BY <1>1, <1>2, <1>4, TurnIs
  <2>2. Final(s) = s
    BY <2>1, FixedFinal
  <2>3. Drain(b) = s
    BY <2>2, DrainIsFinal
  <2> QED BY <1>1, <2>3
<1>5. ASSUME Taken(b).take = "drop" PROVE Drain(b) = Drain(Drop(b, 1))
  <2> DEFINE u == Drop(b, 1)
  <2>0. Len(b) >= 1
    BY <1>3, SyncTyped
  <2>1. u \in Bytes
    BY <2>0, DropIs
  <2>2. Turn(s) = [s EXCEPT !.buf = u]
    BY <1>1, <1>2, <1>5, TurnIs
  <2>3. Turn(s) = Fresh(u)
    BY <1>1, <2>2 DEF Fresh
  <2> HIDE DEF s, u
  <2>4. Final(Fresh(u)) = Final(s)
    BY <1>1, <2>3, FinalOfTurn
  <2> QED BY <2>1, <2>4, DrainIsFinal DEF s, u
<1>6. ASSUME Taken(b).take = "frame"
      PROVE  /\ FrameOf(b) \in GivenFrame
             /\ Drain(b).frames = <<FrameOf(b)>> \o Drain(Drop(b, Taken(b).n)).frames
             /\ Drain(b).buf = Drain(Drop(b, Taken(b).n)).buf
  <2> DEFINE n == Taken(b).n
             u == Drop(b, n)
             f == FrameOf(b)
  <2>1. n \in Nat \ {0} /\ n <= Len(b) /\ Taken(b).kind \in {"A5", "IntelliChlor"}
        /\ Taken(b).ok \in BOOLEAN
    BY <1>6, TakenTyped
  <2>2. u \in Bytes /\ SubSeq(b, 1, n) \in Bytes
    BY <2>1, DropIs, FrontIs
  <2>3. f \in GivenFrame
    BY <2>1, <2>2 DEF FrameOf, GivenFrame
  <2>4. Turn(s) = [buf |-> u, frames |-> Append(<<>>, f)]
    <3>1. ~(Taken(b).take = "more") /\ ~(Taken(b).take = "drop")
      BY <1>6
    <3> QED BY <1>1, <1>2, <3>1, TurnIs
  <2> HIDE DEF s, u, f, n
  <2>5. Turn(s) = Behind(<<f>>, Fresh(u))
    <3>1. Append(<<>>, f) = <<f>> /\ <<f>> \o <<>> = <<f>>
      OBVIOUS
    <3> QED BY <2>4, <3>1 DEF Behind, Fresh
  <2>6. <<f>> \in Seq(GivenFrame) /\ Fresh(u) \in States
    BY <2>2, <2>3, FreshTyped
  <2>7. Final(Behind(<<f>>, Fresh(u))) = Behind(<<f>>, Final(Fresh(u)))
    BY <2>6, FinalBehind
  <2>8. Final(Turn(s)) = Final(s)
    BY <1>1, FinalOfTurn
  <2>9. Drain(b) = Behind(<<f>>, Drain(u))
    BY <2>2, <2>5, <2>7, <2>8, DrainIsFinal DEF s
  <2>10. Drain(b).frames = <<f>> \o Drain(u).frames /\ Drain(b).buf = Drain(u).buf
    BY <2>9 DEF Behind
  <2> QED BY <2>3, <2>10 DEF f, u, n
<1> QED BY <1>4, <1>5, <1>6

OpensFrame(b, l) == (\E k \in {1, 2} : OpensA5(b, l, k)) \/ OpensChlor(b, l)

LEMMA OpenedSync ==
  ASSUME NEW b \in Bytes, NEW l \in Nat, QuietTo(b, l), OpensFrame(b, l)
  PROVE  ~NoSync(b) /\ Sync(b).first = l + 1
<1>1. CASE \E k \in {1, 2} : OpensA5(b, l, k)
  <2>1. PICK k \in {1, 2} : OpensA5(b, l, k)
    BY <1>1
  <2>2. ~NoSync(b) /\ Sync(b) = Hit("A5", l + 1, l + k + 2)
    BY <2>1, A5SyncIs
  <2> QED BY <2>2 DEF Hit
<1>2. CASE OpensChlor(b, l)
  <2>1. ~NoSync(b) /\ Sync(b) = Hit("IntelliChlor", l + 1, l + 1)
    BY <1>2, ChlorSyncIs
  <2> QED BY <2>1 DEF Hit
<1> QED BY <1>1, <1>2 DEF OpensFrame

(* What opens a part opens the buffer behind it. *)
LEMMA OpensBehind ==
  ASSUME NEW b \in Bytes, NEW l \in Nat, l <= Len(b), NEW x, x = Drop(b, l)
  PROVE  /\ \A k \in {1, 2} : OpensA5(x, 0, k) /\ (k = 1 /\ l > 0 => b[l] # FF) => OpensA5(b, l, k)
         /\ OpensChlor(x, 0) => OpensChlor(b, l)
<1>1. x \in Bytes /\ Len(x) = Len(b) - l /\ \A i \in 1..(Len(b) - l) : x[i] = b[l + i]
  BY DropIs
<1>2. Len(b) \in Nat
  BY BytesTyped
<1>3. ASSUME NEW k \in {1, 2}, OpensA5(x, 0, k), k = 1 /\ l > 0 => b[l] # FF
      PROVE  OpensA5(b, l, k)
  <2>1. k + 2 <= Len(x) /\ ShortAt(x, k) /\ (k = 2 => x[1] = FF)
    BY <1>3 DEF OpensA5
  <2>2. /\ 1 \in 1..(Len(b) - l) /\ k \in 1..(Len(b) - l) /\ k + 1 \in 1..(Len(b) - l)
        /\ k + 2 \in 1..(Len(b) - l) /\ l + k + 2 <= Len(b)
        /\ l + (k + 1) = l + k + 1 /\ l + (k + 2) = l + k + 2
    BY <1>1, <1>2, <2>1
  <2>3. x[1] = b[l + 1] /\ x[k] = b[l + k] /\ x[k + 1] = b[l + k + 1] /\ x[k + 2] = b[l + k + 2]
    BY <1>1, <2>2
  <2>4. ShortAt(b, l + k)
    BY <2>1, <2>3 DEF ShortAt
  <2> QED BY <1>3, <2>1, <2>2, <2>3, <2>4 DEF OpensA5
<1>4. ASSUME OpensChlor(x, 0) PROVE OpensChlor(b, l)
  <2>1. 2 <= Len(x) /\ PairAt(x, 1, 2)
    BY <1>4 DEF OpensChlor
  <2>2. /\ 1 \in 1..(Len(b) - l) /\ 1 + 1 \in 1..(Len(b) - l) /\ l + 2 <= Len(b)
        /\ l + (1 + 1) = l + 1 + 1
    BY <1>1, <1>2, <2>1
  <2>3. x[1] = b[l + 1] /\ x[1 + 1] = b[l + 1 + 1]
    BY <1>1, <2>2
  <2>4. PairAt(b, l + 1, 2)
    BY <2>1, <2>3 DEF PairAt
  <2> QED BY <2>2, <2>4 DEF OpensChlor
<1> QED BY <1>3, <1>4

(* Bytes that the framer takes as one frame. *)
Whole(x, f) ==
  /\ ~NoSync(x) /\ Sync(x).first = 1 /\ Taken(x).take = "frame" /\ Taken(x).n = Len(x)
  /\ FrameOf(x) = f

LEMMA WholeGiven ==
  ASSUME NEW b \in Bytes, NEW l \in Nat, l <= Len(b), ~NoSync(b), Sync(b).first = l + 1,
         NEW f, Whole(Drop(b, l), f)
  PROVE  Drain(b).frames = <<f>> /\ Drain(b).buf = <<>>
<1> DEFINE x == Drop(b, l)
           n == Taken(x).n
<1>1. x \in Bytes
  BY DropIs
<1>2. /\ ~NoSync(x) /\ Sync(x).first = 1 /\ Taken(x).take = "frame" /\ Taken(x).n = Len(x)
      /\ FrameOf(x) = f
  BY DEF Whole
<1>3. Drain(b) = Drain(x)
  BY QuietSkipped
<1> HIDE DEF x
<1>4. Drain(x).frames = <<f>> \o Drain(Drop(x, n)).frames /\ Drain(x).buf = Drain(Drop(x, n)).buf
  BY <1>1, <1>2, TakenGiven
<1>5. Drop(x, n) = <<>>
  <2>1. Len(x) \in Nat
    BY <1>1, BytesTyped
  <2>2. Drop(x, n) \in Bytes /\ Len(Drop(x, n)) = 0
    BY <1>1, <1>2, <2>1, DropIs
  <2> QED BY <2>2, EmptySeq DEF Bytes
<1>6. <<f>> \o <<>> = <<f>>
  OBVIOUS
<1> QED BY <1>3, <1>4, <1>5, <1>6, DrainOfNothing

LEMMA PartialGiven ==
  ASSUME NEW b \in Bytes, NEW l \in Nat, l <= Len(b), ~NoSync(b), Sync(b).first = l + 1,
         NEW f, Whole(Drop(b, l), f), NEW c \in Bytes, Begins(c, b), Len(c) < Len(b)
  PROVE  Drain(c).frames = <<>>
<1> DEFINE x == Drop(b, l)
           z == Drop(c, l)
<1>1. /\ x \in Bytes /\ Len(x) = Len(b) - l /\ \A i \in 1..(Len(b) - l) : x[i] = b[l + i]
      /\ ~NoSync(x) /\ Sync(x).first = 1 /\ Taken(x).take = "frame" /\ Taken(x).n = Len(x)
  BY DropIs DEF Whole
<1>2. Len(b) \in Nat /\ Len(c) \in Nat
  BY BytesTyped
<1>3. CASE NoSync(c)
  BY <1>3, QuietGiven
<1>4. CASE ~NoSync(c)
  <2>1. Sync(c) = Sync(b)
    <3>1. (ShortFirst(b) <=> ShortFirst(c)) /\ (ShortFirst(c) => ShortHit(b) = ShortHit(c))
          /\ (~ShortFirst(c) => StxHit(b) = StxHit(c))
      BY <1>4, MoreKeepsSync
    <3> QED BY <3>1, Zenon DEF Sync
  <2>2. l + 1 <= Len(c)
    BY <1>4, <2>1, SyncTyped
  <2>3. l <= Len(c)
    BY <1>2, <2>2
  <2>4. Drain(c) = Drain(z)
    BY <1>4, <2>1, <2>3, QuietSkipped
  <2>5. z \in Bytes /\ Len(z) = Len(c) - l /\ \A i \in 1..(Len(c) - l) : z[i] = c[l + i]
    BY <2>3, DropIs
  <2> HIDE DEF x, z
  <2>6. Begins(z, x) /\ Len(z) < Len(x)
    <3>1. Len(z) < Len(x)
      BY <1>1, <1>2, <2>5
    <3>2. ASSUME NEW i \in 1..Len(z) PROVE x[i] = z[i]
      <4>1. i \in 1..(Len(c) - l) /\ i \in 1..(Len(b) - l) /\ l + i \in 1..Len(c)
        BY <1>1, <1>2, <2>3, <2>5, <3>1
      <4>2. b[l + i] = c[l + i]
        BY <4>1, Zenon DEF Begins
      <4> QED BY <1>1, <2>5, <4>1, <4>2
    <3>3. Len(z) <= Len(x)
      BY <1>1, <1>2, <2>5
    <3> QED BY <3>1, <3>2, <3>3 DEF Begins
  <2>7. CASE NoSync(z)
    BY <2>4, <2>5, <2>7, QuietGiven
  <2>8. CASE ~NoSync(z)
    <3>1. Sync(z) = Sync(x)
      <4>1. (ShortFirst(x) <=> ShortFirst(z)) /\ (ShortFirst(z) => ShortHit(x) = ShortHit(z))
            /\ (~ShortFirst(z) => StxHit(x) = StxHit(z))
        BY <1>1, <2>5, <2>6, <2>8, MoreKeepsSync
      <4> QED BY <4>1, Zenon DEF Sync
    <3>2. Taken(z).take = "more"
      <4> SUFFICES ASSUME Taken(z).take # "more" PROVE FALSE
        OBVIOUS
      <4>1. Taken(x) = Taken(z)
        BY <1>1, <2>5, <2>6, <2>8, MoreKeepsTaken
      <4>2. Taken(z).n <= Len(z)
        BY <1>1, <2>5, <2>8, <4>1, TakenTyped
      <4>3. Len(z) \in Nat /\ Len(x) \in Nat
        BY <1>1, <2>5, BytesTyped
      <4> QED BY <1>1, <2>6, <4>1, <4>2, <4>3
    <3> QED BY <1>1, <2>4, <2>5, <2>8, <3>1, <3>2, TakenGiven
  <2> QED BY <2>7, <2>8
<1> QED BY <1>3, <1>4

LEMMA A5Whole ==
  ASSUME NEW x \in Bytes, NEW k \in {1, 2}, ShortAt(x, k), k = 2 => x[1] = FF,
         Len(x) >= k + 9, Len(x) = k + 9 + x[k + 7]
  PROVE  /\ OpensA5(x, 0, k)
         /\ Whole(x, [kind |-> "A5", raw |-> x, checksum_ok |-> VerifyA5(x, k + 2)])
<1>1. Len(x) \in Nat
  BY BytesTyped
<1>2. OpensA5(x, 0, k)
  <2>1. 0 + k + 2 <= Len(x) /\ 0 + k = k /\ 0 + 1 = 1 /\ ~(0 > 0)
    BY <1>1
  <2> QED BY <2>1 DEF OpensA5
<1>3. ~NoSync(x) /\ Sync(x) = Hit("A5", 0 + 1, 0 + k + 2)
  <2>1. QuietTo(x, 0)
    BY DEF QuietTo
  <2> QED BY <1>2, <2>1, A5SyncIs
<1>4. Sync(x).kind = "A5" /\ Sync(x).first = 1 /\ Sync(x).mark = k + 2
  BY <1>3 DEF Hit
<1> DEFINE n == k + 2 + 5 + x[k + 2 + 5] + 2
<1>5. n = Len(x)
  <2>1. k + 2 + 5 = k + 7
    OBVIOUS
  <2>2. k + 7 \in 1..Len(x)
    BY <1>1
  <2>3. x[k + 7] \in Octets
    BY <2>2, BytesTyped
  <2>4. x[k + 2 + 5] = x[k + 7]
    BY <2>1, Zenon
  <2> DEFINE y == x[k + 7]
  <2>5. Len(x) = k + 9 + y
    BY Zenon
  <2>7. y \in Nat
    <3>1. \A i \in Octets : i \in Nat
      BY DEF Octets
    <3> QED BY <2>3, <3>1, Zenon
  <2>6. n = k + 2 + 5 + y + 2
    BY <2>4, Zenon
  <2> HIDE DEF y, n
  <2> QED BY <2>5, <2>6, <2>7
<1>6. ~(Len(x) < k + 2 + 5) /\ ~(Len(x) < n)
  BY <1>1, <1>5
<1>7. SubSeq(x, 1, Len(x)) = x
  BY SubSeqFull DEF Bytes
<1>8. TakeA5(x, k + 2) = Took(n, "A5", VerifyA5(SubSeq(x, 1, n), k + 2))
  BY <1>6, Zenon DEF TakeA5
<1> HIDE DEF n
<1>9. Taken(x) = Took(Len(x), "A5", VerifyA5(x, k + 2))
  BY <1>4, <1>5, <1>7, <1>8 DEF Taken
<1>10. Taken(x).take = "frame" /\ Taken(x).n = Len(x) /\ Taken(x).kind = "A5"
       /\ Taken(x).ok = VerifyA5(x, k + 2)
  BY <1>9 DEF Took
<1> QED BY <1>2, <1>3, <1>4, <1>7, <1>10 DEF Whole, FrameOf

LEMMA ChlorWhole ==
  ASSUME NEW x \in Bytes, Len(x) \in 7..IcMax, PairAt(x, 1, 2),
         FindIn(x, Etx, 3, Len(x)) = Len(x) - 1
  PROVE  /\ OpensChlor(x, 0)
         /\ Whole(x, [kind |-> "IntelliChlor", raw |-> x, checksum_ok |-> VerifyChlor(x)])
<1>1. Len(x) \in Nat /\ IcMax \in Nat /\ Len(x) >= 7 /\ Len(x) <= IcMax
  BY BytesTyped, FramerAssumption
<1>2. OpensChlor(x, 0)
  <2>1. 0 + 2 <= Len(x) /\ 0 + 1 = 1
    BY <1>1
  <2> QED BY <2>1 DEF OpensChlor
<1>3. ~NoSync(x) /\ Sync(x) = Hit("IntelliChlor", 0 + 1, 0 + 1)
  <2>1. QuietTo(x, 0)
    BY DEF QuietTo
  <2> QED BY <1>2, <2>1, ChlorSyncIs
<1>4. Sync(x).kind # "A5" /\ Sync(x).first = 1
  BY <1>3 DEF Hit
<1>5. FindIn(x, Etx, 3, IF Len(x) < IcMax THEN Len(x) ELSE IcMax) = Len(x) - 1
  <2>1. (IF Len(x) < IcMax THEN Len(x) ELSE IcMax) = Len(x)
    BY <1>1
  <2> QED BY <2>1, Zenon
<1>6. Len(x) - 1 # 0 /\ ~(Len(x) - 1 < 6) /\ Len(x) - 1 + 1 = Len(x)
  <2> DEFINE m == Len(x)
  <2>1. m \in Nat /\ m >= 7
    BY <1>1
  <2> HIDE DEF m
  <2>2. m - 1 # 0 /\ ~(m - 1 < 6) /\ m - 1 + 1 = m
    BY <2>1
  <2> QED BY <2>2 DEF m
<1>7. SubSeq(x, 1, Len(x)) = x
  BY SubSeqFull DEF Bytes
<1> DEFINE e == Len(x) - 1
<1> HIDE DEF e
<1>8. TakeChlor(x) = Took(e + 1, "IntelliChlor", VerifyChlor(SubSeq(x, 1, e + 1)))
  <2>1. FindIn(x, Etx, 3, IF Len(x) < IcMax THEN Len(x) ELSE IcMax) = e
    BY <1>5 DEF e
  <2>2. e # 0 /\ ~(e < 6)
    BY <1>6 DEF e
  <2> QED BY <2>1, <2>2, Zenon DEF TakeChlor
<1>9. e + 1 = Len(x)
  BY <1>6 DEF e
<1>10. Taken(x) = Took(Len(x), "IntelliChlor", VerifyChlor(x))
  BY <1>4, <1>7, <1>8, <1>9 DEF Taken
<1>11. Taken(x).take = "frame" /\ Taken(x).n = Len(x) /\ Taken(x).kind = "IntelliChlor"
       /\ Taken(x).ok = VerifyChlor(x)
  BY <1>10 DEF Took
<1> QED BY <1>2, <1>3, <1>4, <1>7, <1>11 DEF Whole, FrameOf
-----------------------------------------------------------------------------
(* The pieces of a plan in its stream. *)
(* Where the pieces of a plan begin and end. *)
LEMMA EndsAre ==
  ASSUME NEW p \in Seq(Piece)
  PROVE  /\ EndIn(p, 0) = 0
         /\ \A i \in 0..Len(p) : EndIn(p, i) \in Nat
         /\ \A i \in 1..Len(p) :
              /\ p[i].bytes \in Bytes /\ p[i].kind \in {"A5", "IntelliChlor", "noise", "cut"}
              /\ p[i].ok \in BOOLEAN
              /\ EndIn(p, i) = EndIn(p, i - 1) + Len(p[i].bytes)
              /\ StartIn(p, i) = EndIn(p, i - 1)
<1> DEFINE n == Len(p)
           L(i) == [k \in 1..i |-> Len(p[k].bytes)]
<1>1. n \in Nat
  OBVIOUS
<1>2. ASSUME NEW i \in 1..n
      PROVE  /\ p[i].bytes \in Bytes /\ p[i].kind \in {"A5", "IntelliChlor", "noise", "cut"}
             /\ p[i].ok \in BOOLEAN /\ Len(p[i].bytes) \in Nat
  <2>1. p[i] \in Piece
    BY ElementOfSeq
  <2>2. p[i].bytes \in Bytes /\ p[i].kind \in {"A5", "IntelliChlor", "noise", "cut"}
        /\ p[i].ok \in BOOLEAN
    BY <2>1 DEF Piece, Bytes, Octets
  <2> QED BY <2>2, BytesTyped
<1>3. ASSUME NEW i \in 0..n PROVE L(i) \in Seq(Nat) /\ Len(L(i)) = i /\ i \in Nat
  <2>1. i \in Nat /\ \A k \in 1..i : k \in 1..n
    BY <1>1
  <2>2. L(i) \in [1..i -> Nat]
    BY <1>2, <2>1
  <2>3. L(i) \in Seq(Nat) /\ DOMAIN L(i) = 1..i
    BY <2>1, <2>2, IsASeq
  <2>4. Len(L(i)) \in Nat /\ DOMAIN L(i) = 1..Len(L(i))
    BY <2>3
  <2>5. 1..Len(L(i)) = 1..i
    BY <2>3, <2>4
  <2> DEFINE m == Len(L(i))
  <2>6. m \in Nat /\ 1..m = 1..i
    BY <2>4, <2>5
  <2> HIDE DEF m, L
  <2>7. m = i
    BY <2>1, <2>6
  <2> QED BY <2>1, <2>3, <2>7 DEF m
<1>4. EndIn(p, 0) = 0
  <2>1. L(0) = <<>>
    BY <1>1, <1>3, EmptySeq
  <2> QED BY <2>1, SumOfNone DEF EndIn
<1>5. ASSUME NEW i \in 1..n
      PROVE  EndIn(p, i) = EndIn(p, i - 1) + Len(p[i].bytes) /\ EndIn(p, i - 1) \in Nat
  <2> DEFINE s == L(i - 1)
             t == L(i)
  <2>1. i - 1 \in 0..n /\ i \in 0..n /\ i - 1 + 1 = i /\ i \in 1..i /\ i \in Nat
    BY <1>1
  <2>2. s \in Seq(Nat) /\ Len(s) = i - 1 /\ t \in Seq(Nat) /\ Len(t) = i
    BY <1>3, <2>1
  <2>3. \A k \in 1..(i - 1) : k \in 1..i
    BY <2>1
  <2>4. \A k \in 1..(i - 1) : t[k] = s[k]
    BY <2>3
  <2>5. t[i] = Len(p[i].bytes)
    BY <2>1
  <2>6. EndIn(p, i) = SumOf(t) /\ EndIn(p, i - 1) = SumOf(s)
    BY DEF EndIn
  <2> HIDE DEF s, t, L
  <2>7. Len(t) = Len(s) + 1 /\ \A k \in 1..Len(s) : t[k] = s[k]
    BY <2>1, <2>2, <2>4
  <2>8. SumOf(s) \in Nat /\ SumOf(t) = SumOf(s) + t[Len(t)]
    BY <2>2, <2>7, SumOfMore
  <2> QED BY <2>2, <2>5, <2>6, <2>8
<1>6. ASSUME NEW i \in 0..n PROVE EndIn(p, i) \in Nat
  <2>1. CASE i = 0
    BY <1>4, <2>1
  <2>2. CASE i # 0
    <3>1. i \in 1..n
      BY <1>1, <2>2
    <3> DEFINE x == EndIn(p, i)
               y == EndIn(p, i - 1)
               w == Len(p[i].bytes)
    <3>2. x = y + w /\ y \in Nat /\ w \in Nat
      BY <1>2, <1>5, <3>1
    <3> HIDE DEF x, y, w
    <3>3. x \in Nat
      BY <3>2
    <3> QED BY <3>3 DEF x
  <2> QED BY <2>1, <2>2
<1>7. ASSUME NEW i \in 1..n PROVE StartIn(p, i) = EndIn(p, i - 1)
  <2>1. EndIn(p, i) = EndIn(p, i - 1) + Len(p[i].bytes) /\ EndIn(p, i - 1) \in Nat
        /\ Len(p[i].bytes) \in Nat
    BY <1>2, <1>5
  <2> QED BY <2>1 DEF StartIn
<1> QED BY <1>2, <1>4, <1>5, <1>6, <1>7

LEMMA EndsGrow ==
  ASSUME NEW p \in Seq(Piece), NEW i \in 0..Len(p), NEW j \in 0..Len(p), i <= j
  PROVE  EndIn(p, i) <= EndIn(p, j)
<1> DEFINE T == {k \in Nat : i + k <= Len(p) => EndIn(p, i) <= EndIn(p, i + k)}
<1>1. Len(p) \in Nat /\ i \in Nat /\ j \in Nat
  OBVIOUS
<1>2. 0 \in T
  <2>1. i + 0 = i
    BY <1>1
  <2>2. EndIn(p, i) \in Nat
    BY EndsAre
  <2>3. EndIn(p, i) <= EndIn(p, i)
    BY <2>2
  <2>4. EndIn(p, i) <= EndIn(p, i + 0)
    BY <2>1, <2>3
  <2> QED BY <2>4
<1>3. ASSUME NEW k \in Nat, k \in T PROVE k + 1 \in T
  <2> SUFFICES ASSUME i + (k + 1) <= Len(p) PROVE EndIn(p, i) <= EndIn(p, i + (k + 1))
    OBVIOUS
  <2> DEFINE m == i + (k + 1)
  <2>1. m \in 1..Len(p) /\ m - 1 = i + k /\ i + k <= Len(p) /\ i + k \in 0..Len(p)
    BY <1>1
  <2>2. EndIn(p, i) <= EndIn(p, i + k)
    BY <1>3, <2>1
  <2> HIDE DEF m
  <2>3. EndIn(p, m) = EndIn(p, m - 1) + Len(p[m].bytes) /\ Len(p[m].bytes) \in Nat
    BY <2>1, EndsAre, BytesTyped
  <2>4. EndIn(p, m - 1) = EndIn(p, i + k)
    BY <2>1
  <2>5. EndIn(p, i) \in Nat /\ EndIn(p, i + k) \in Nat
    BY <2>1, EndsAre
  <2> DEFINE x == EndIn(p, i)
             y == EndIn(p, i + k)
             z == EndIn(p, m)
             w == Len(p[m].bytes)
  <2>6. x \in Nat /\ y \in Nat /\ w \in Nat /\ x <= y /\ z = y + w
    BY <2>2, <2>3, <2>4, <2>5
  <2> HIDE DEF x, y, z, w
  <2>7. x <= z
    BY <2>6
  <2> QED BY <2>7 DEF x, z, m
<1>4. Nat \subseteq T
  <2> HIDE DEF T
  <2> QED BY <1>2, <1>3, SetInduction
<1>5. j - i \in T /\ i + (j - i) = j
  <2>1. j - i \in Nat /\ i + (j - i) = j
    BY <1>1
  <2> HIDE DEF T
  <2> QED BY <1>4, <2>1
<1>6. EndIn(p, i) <= EndIn(p, i + (j - i))
  BY <1>1, <1>5
<1> QED BY <1>5, <1>6

(* The stream is the pieces, one behind the other. *)
LEMMA StreamIs ==
  ASSUME NEW p \in Seq(Piece)
  PROVE  /\ StreamOf(p) \in Bytes /\ Len(StreamOf(p)) = EndIn(p, Len(p))
         /\ \A i \in 1..Len(p) :
              Part(StreamOf(p), EndIn(p, i - 1), EndIn(p, i)) = p[i].bytes
<1> DEFINE n == Len(p)
           ss == [i \in DOMAIN p |-> p[i].bytes]
           S == StreamOf(p)
<1>1. n \in Nat /\ DOMAIN p = 1..n
  OBVIOUS
<1>2. ss \in Seq(Bytes) /\ S \in Bytes /\ S = FlattenSeq(ss)
  BY StreamTyped DEF StreamOf
<1>3. DOMAIN ss = 1..n /\ \A i \in 1..n : ss[i] = p[i].bytes
  BY <1>1
<1> HIDE DEF ss, S
<1>4. Len(ss) = n
  <2>1. Len(ss) \in Nat /\ 1..Len(ss) = 1..n
    BY <1>2, <1>3
  <2> HIDE DEF n
  <2> QED BY <1>1, <2>1
<1>5. PICK g \in [0..n -> Bytes] : Flattens(g, ss) /\ S = g[n]
  BY <1>2, <1>4, FlattenIs DEF Bytes
<1>6. g[0] = <<>> /\ \A i \in 1..n : g[i] = g[i - 1] \o ss[i]
  BY <1>1, <1>4, <1>5, FlattensStep
<1>7. /\ EndIn(p, 0) = 0 /\ \A i \in 0..n : EndIn(p, i) \in Nat
      /\ \A i \in 1..n : EndIn(p, i) = EndIn(p, i - 1) + Len(ss[i]) /\ ss[i] \in Bytes
  BY <1>3, EndsAre
<1> HIDE DEF n
<1>8. ASSUME NEW i \in 1..n
      PROVE  /\ i - 1 \in 0..n /\ i \in 0..n /\ g[i - 1] \in Bytes /\ g[i] \in Bytes
             /\ Len(g[i]) = Len(g[i - 1]) + Len(ss[i]) /\ Begins(g[i - 1], g[i])
             /\ \A k \in 1..Len(ss[i]) : g[i][Len(g[i - 1]) + k] = ss[i][k]
  <2>1. i - 1 \in 0..n /\ i \in 0..n
    BY <1>1
  <2>2. g[i - 1] \in Bytes /\ ss[i] \in Bytes /\ g[i] = g[i - 1] \o ss[i]
    BY <1>5, <1>6, <1>7, <2>1
  <2> QED BY <2>1, <2>2, JoinIs
<1>9. ASSUME NEW i \in 0..n PROVE Len(g[i]) = EndIn(p, i)
  <2> DEFINE T == {k \in Nat : k <= n => Len(g[k]) = EndIn(p, k)}
  <2>1. 0 \in T
    BY <1>6, <1>7
  <2>2. ASSUME NEW k \in Nat, k \in T PROVE k + 1 \in T
    <3> SUFFICES ASSUME k + 1 <= n PROVE Len(g[k + 1]) = EndIn(p, k + 1)
      OBVIOUS
    <3> DEFINE m == k + 1
    <3>1. m \in 1..n /\ m - 1 = k /\ k <= n
      BY <1>1
    <3>2. Len(g[k]) = EndIn(p, k)
      BY <2>2, <3>1
    <3> HIDE DEF m
    <3>3. Len(g[m]) = Len(g[m - 1]) + Len(ss[m]) /\ EndIn(p, m) = EndIn(p, m - 1) + Len(ss[m])
      BY <1>7, <1>8, <3>1
    <3>4. Len(g[m]) = EndIn(p, m)
      BY <3>1, <3>2, <3>3, Zenon
    <3> QED BY <3>4 DEF m
  <2>3. Nat \subseteq T
    <3> HIDE DEF T
    <3> QED BY <2>1, <2>2, SetInduction
  <2> QED BY <1>1, <2>3
<1>10. ASSUME NEW i \in 0..n PROVE Begins(g[i], S)
  <2> DEFINE T == {k \in Nat : i + k <= n => Begins(g[i], g[i + k])}
  <2>0. i \in Nat /\ g[i] \in Bytes
    BY <1>1, <1>5
  <2>1. 0 \in T
    <3>1. Begins(g[i], g[i])
      BY <2>0, BytesTyped DEF Begins
    <3>2. i + 0 = i
      BY <2>0
    <3>3. Begins(g[i], g[i + 0])
      BY <3>1, <3>2
    <3> QED BY <3>3
  <2>2. ASSUME NEW k \in Nat, k \in T PROVE k + 1 \in T
    <3> SUFFICES ASSUME i + (k + 1) <= n PROVE Begins(g[i], g[i + (k + 1)])
      OBVIOUS
    <3> DEFINE m == i + (k + 1)
    <3>1. m \in 1..n /\ m - 1 = i + k /\ i + k <= n
      BY <1>1, <2>0
    <3>2. Begins(g[i], g[i + k])
      BY <2>2, <3>1
    <3> HIDE DEF m
    <3>3. Begins(g[m - 1], g[m]) /\ g[m - 1] \in Bytes /\ g[m] \in Bytes
      BY <1>8, <3>1
    <3>4. Begins(g[i], g[m - 1])
      BY <3>1, <3>2
    <3> DEFINE x == g[i]
               y == g[m - 1]
               z == g[m]
    <3>5. x \in Bytes /\ y \in Bytes /\ z \in Bytes /\ Begins(x, y) /\ Begins(y, z)
      BY <2>0, <3>3, <3>4
    <3> HIDE DEF x, y, z
    <3>6. Begins(x, z)
      BY <3>5, BytesTyped DEF Begins
    <3> QED BY <3>6 DEF x, z, m
  <2>3. Nat \subseteq T
    <3> HIDE DEF T
    <3> QED BY <2>1, <2>2, SetInduction
  <2>4. n - i \in T /\ i + (n - i) = n
    BY <1>1, <2>3
  <2>5. Begins(g[i], g[i + (n - i)])
    BY <1>1, <2>4
  <2> QED BY <1>5, <2>4, <2>5
<1>11. Len(S) = EndIn(p, n)
  BY <1>1, <1>5, <1>9
<1>12. ASSUME NEW i \in 1..n
       PROVE  Part(S, EndIn(p, i - 1), EndIn(p, i)) = ss[i]
  <2> DEFINE a == EndIn(p, i - 1)
             e == EndIn(p, i)
             x == Part(S, a, e)
             y == ss[i]
             h == g[i]
  <2>1. i - 1 \in 0..n /\ i \in 0..n /\ h \in Bytes /\ y \in Bytes
    BY <1>7, <1>8
  <2>2. a \in Nat /\ e = a + Len(y) /\ Len(y) \in Nat /\ e \in Nat
    BY <1>7, <2>1, BytesTyped
  <2>3. Len(h) = e /\ Len(g[i - 1]) = a
    BY <1>9, <2>1
  <2>4. Begins(h, S)
    BY <1>10, <2>1
  <2>5. \A k \in 1..Len(y) : h[a + k] = y[k]
    BY <1>8, <2>3
  <2> HIDE DEF a, e, y, h
  <2>6. Len(h) <= Len(S) /\ \A k \in 1..Len(h) : S[k] = h[k]
    BY <2>4 DEF Begins
  <2>7. x \in Bytes /\ Len(x) = e - a /\ \A k \in 1..(e - a) : x[k] = S[a + k]
    <3>1. a <= e /\ e <= Len(S)
      BY <2>2, <2>3, <2>6
    <3> QED BY <1>2, <2>2, <3>1, PartIs
  <2>8. e - a = Len(y) /\ \A k \in 1..Len(y) : a + k \in 1..e
    BY <2>2
  <2>9. \A k \in 1..Len(x) : x[k] = y[k]
    BY <2>3, <2>5, <2>6, <2>7, <2>8
  <2> HIDE DEF x
  <2>10. x = y
    BY <2>1, <2>7, <2>8, <2>9, SameBytes
  <2> QED BY <2>10 DEF x, y, a, e
<1> QED BY <1>2, <1>3, <1>11, <1>12 DEF n, S

LEMMA DropOfPart ==
  ASSUME NEW b \in Bytes, NEW a \in Nat, NEW c \in Nat, NEW e \in Nat,
         a <= c, c <= e, e <= Len(b)
  PROVE  Drop(Part(b, a, e), c - a) = Part(b, c, e)
<1> DEFINE x == Part(b, a, e)
           y == Part(b, c, e)
           z == Drop(x, c - a)
<1>0. a <= e
  OBVIOUS
<1>1. x \in Bytes /\ Len(x) = e - a /\ \A k \in 1..(e - a) : x[k] = b[a + k]
  BY <1>0, PartIs
<1>2. y \in Bytes /\ Len(y) = e - c /\ \A k \in 1..(e - c) : y[k] = b[c + k]
  BY PartIs
<1> HIDE DEF x, y
<1> DEFINE l == c - a
<1>3. l \in Nat /\ l <= Len(x) /\ Len(x) - l = e - c
  BY <1>1
<1>4. \A k \in 1..(e - c) : l + k \in 1..(e - a) /\ a + (l + k) = c + k
  OBVIOUS
<1> HIDE DEF l
<1>5. z = Drop(x, l)
  BY DEF l
<1> HIDE DEF z
<1>6. z \in Bytes /\ Len(z) = e - c /\ \A k \in 1..(e - c) : z[k] = x[l + k]
  <2>1. z \in Bytes /\ Len(z) = Len(x) - l /\ \A k \in 1..(Len(x) - l) : z[k] = x[l + k]
    BY <1>1, <1>3, <1>5, DropIs
  <2> QED BY <1>3, <2>1
<1>7. \A k \in 1..(e - c) : z[k] = b[a + (l + k)]
  BY <1>1, <1>4, <1>6
<1>8. \A k \in 1..(e - c) : z[k] = y[k]
  BY <1>2, <1>4, <1>7
<1>9. z = y
  BY <1>2, <1>6, <1>8, SameBytes
<1> QED BY <1>9 DEF x, y, z

LEMMA BeginOfPart ==
  ASSUME NEW b \in Bytes, NEW a \in Nat, NEW c \in Nat, NEW e \in Nat,
         a <= c, c <= e, e <= Len(b)
  PROVE  Begins(Part(b, a, c), Part(b, a, e))
<1> DEFINE x == Part(b, a, c)
           y == Part(b, a, e)
<1>1. Len(x) = c - a /\ \A k \in 1..(c - a) : x[k] = b[a + k]
  <2>1. c <= Len(b)
    BY BytesTyped
  <2> QED BY <2>1, PartIs
<1>0. a <= e
  OBVIOUS
<1>2. Len(y) = e - a /\ \A k \in 1..(e - a) : y[k] = b[a + k]
  BY <1>0, PartIs
<1> HIDE DEF x, y
<1>3. \A k \in 1..(c - a) : k \in 1..(e - a)
  OBVIOUS
<1>4. Begins(x, y)
  BY <1>1, <1>2, <1>3 DEF Begins
<1> QED BY <1>4 DEF x, y

(* No sync begins after the first a bytes and up to e. *)
QuietIn(b, a, e) == \A q \in (a + 1)..e : ~SyncAt(b, q)

LEMMA QuietPart ==
  ASSUME NEW b \in Bytes, NEW a \in Nat, NEW c \in Nat, NEW e \in Nat,
         a <= c, c <= e, e <= Len(b), QuietIn(b, a, c)
  PROVE  QuietTo(Part(b, a, e), c - a)
<1> SUFFICES ASSUME NEW q \in 1..(c - a), SyncAt(Part(b, a, e), q) PROVE FALSE
  BY DEF QuietTo
<1>1. q \in 1..(e - a) /\ a + q \in (a + 1)..c
  OBVIOUS
<1>2. a <= e
  OBVIOUS
<1>3. SyncAt(b, a + q)
  BY <1>1, <1>2, PartSyncs
<1> QED BY <1>1, <1>3 DEF QuietIn

(* Bytes in which no sync begins give nothing. *)
LEMMA CalmGiven ==
  ASSUME NEW b \in Bytes, NEW a \in Nat, NEW e \in Nat, a <= e, e <= Len(b), QuietIn(b, a, e)
  PROVE  /\ Drain(Part(b, a, e)).frames = <<>>
         /\ \E l \in Nat : l <= e - a /\ Drain(Part(b, a, e)).buf = Part(b, e - l, e)
<1> DEFINE x == Part(b, a, e)
<1>1. x \in Bytes /\ Len(x) = e - a /\ e - a \in Nat
  BY PartIs
<1>2. NoSync(x)
  <2>1. QuietTo(x, e - a)
    <3>1. e <= e /\ a <= e
      OBVIOUS
    <3> QED BY <3>1, QuietPart
  <2> HIDE DEF x
  <2>2. \A q \in 1..Len(x) : ~SyncAt(x, q)
    BY <1>1, <2>1 DEF QuietTo
  <2> QED BY <1>1, <2>2, NoSyncIs
<1>3. Drain(x).frames = <<>> /\ Drain(x).buf = TailKept(x)
  BY <1>1, <1>2, QuietGiven
<1>4. CASE e - a > 4
  <2> DEFINE c == e - 4
  <2>1. c \in Nat /\ a <= c /\ c <= e /\ e - a - 4 = c - a
    BY <1>4
  <2>2. TailKept(x) = Drop(x, e - a - 4)
    <3> HIDE DEF x
    <3> QED BY <1>1, <1>4 DEF TailKept
  <2> HIDE DEF c
  <2>3. Drop(x, c - a) = Part(b, c, e)
    BY <2>1, DropOfPart
  <2>4. TailKept(x) = Part(b, c, e)
    BY <2>1, <2>2, <2>3, Zenon
  <2>5. 4 \in Nat /\ 4 <= e - a /\ e - 4 = c
    BY <1>4 DEF c
  <2>6. Drain(x).buf = Part(b, e - 4, e)
    BY <1>3, <2>4, <2>5, Zenon
  <2> QED BY <1>3, <2>5, <2>6, Zenon
<1>5. CASE ~(e - a > 4)
  <2>1. TailKept(x) = x
    <3> HIDE DEF x
    <3> QED BY <1>1, <1>5 DEF TailKept
  <2> DEFINE l == e - a
  <2>2. l \in Nat /\ l <= e - a /\ e - l = a
    OBVIOUS
  <2> HIDE DEF l
  <2>3. Drain(x).buf = Part(b, e - l, e)
    BY <1>3, <2>1, <2>2, Zenon
  <2> QED BY <1>3, <2>2, <2>3, Zenon
<1> QED BY <1>4, <1>5

(* A piece that is a frame opens with its sync, and is taken whole. *)
LEMMA PieceWhole ==
  ASSUME NEW p \in Plans, NEW i \in 1..Len(p), IsFrame(p[i]), NEW x, x = p[i].bytes
  PROVE  /\ x \in Bytes /\ Whole(x, FrameIn(p[i]))
         /\ \/ \E k \in {1, 2} : OpensA5(x, 0, k)
            \/ OpensChlor(x, 0)
<1>1. p \in Seq(Piece)
  BY FramerAssumption
<1>2. i \in DOMAIN p
  BY <1>1
<1>3. x \in Bytes
  BY <1>1, EndsAre
<1>4. Len(x) \in Nat /\ 2 \in Octets
  BY <1>3, BytesTyped DEF Octets
<1>5. CASE p[i].kind = "A5"
  <2>1. IsA5Piece(p[i])
    BY <1>2, <1>5, PlanAssumption
  <2>2. PICK k \in {1, 2} :
          /\ Len(x) >= k + 9 /\ At(x, k, SyncShort) /\ (k = 2 => x[1] = FF)
          /\ Len(x) = k + 9 + x[k + 7] /\ p[i].ok = VerifyA5(x, k + 2)
    BY <2>1 DEF IsA5Piece
  <2>3. k \in 1..(Len(x) - 2)
    BY <1>4, <2>2
  <2>4. ShortAt(x, k)
    BY <1>3, <2>2, <2>3, AtShort
  <2>5. OpensA5(x, 0, k)
        /\ Whole(x, [kind |-> "A5", raw |-> x, checksum_ok |-> VerifyA5(x, k + 2)])
    BY <1>3, <2>2, <2>4, A5Whole
  <2> QED BY <1>3, <1>5, <2>2, <2>5 DEF FrameIn
<1>6. CASE p[i].kind = "IntelliChlor"
  <2>1. Len(x) \in 7..IcMax /\ At(x, 1, Stx) /\ FindIn(x, Etx, 3, Len(x)) = Len(x) - 1
        /\ p[i].ok = VerifyChlor(x)
    BY <1>2, <1>6, PlanAssumption DEF IsChlorPiece
  <2>2. 1 \in 1..(Len(x) - 1)
    BY <1>4, <2>1
  <2>3. PairAt(x, 1, 2)
    BY <1>3, <1>4, <2>1, <2>2, AtPair DEF Stx
  <2>4. OpensChlor(x, 0)
        /\ Whole(x, [kind |-> "IntelliChlor", raw |-> x, checksum_ok |-> VerifyChlor(x)])
    BY <1>3, <2>1, <2>3, ChlorWhole
  <2> QED BY <1>3, <1>6, <2>1, <2>4 DEF FrameIn
<1> QED BY <1>5, <1>6 DEF IsFrame

(* A frame of the plan behind bytes in which no sync begins. *)
LEMMA FrameGiven ==
  ASSUME NEW p \in Plans, NEW i \in 1..Len(p), IsFrame(p[i]),
         NEW S, S = StreamOf(p), NEW a, a = EndIn(p, i - 1), NEW e, e = EndIn(p, i),
         NEW c \in Nat, c <= a, QuietIn(S, c, a), c < a => ToldFromFF(p, i)
  PROVE  /\ Drain(Part(S, c, e)).frames = <<FrameIn(p[i])>>
         /\ Drain(Part(S, c, e)).buf = <<>>
         /\ \A t \in Nat : a <= t /\ t < e => Drain(Part(S, c, t)).frames = <<>>
<1>1. p \in Seq(Piece)
  BY FramerAssumption
<1> DEFINE x == p[i].bytes
           b == Part(S, c, e)
           l == a - c
           f == FrameIn(p[i])
<1>2. i - 1 \in 0..Len(p) /\ i \in 0..Len(p) /\ Len(p) \in 0..Len(p) /\ i \in Nat
      /\ Len(p) \in Nat /\ i <= Len(p)
  BY <1>1
<1>3. /\ x \in Bytes /\ StartIn(p, i) = a /\ e = a + Len(x) /\ a \in Nat /\ e \in Nat
      /\ EndIn(p, Len(p)) \in Nat
  BY <1>1, <1>2, EndsAre
<1>4. S \in Bytes /\ Len(S) = EndIn(p, Len(p)) /\ Part(S, a, e) = x
  BY <1>1, StreamIs
<1>5. e <= Len(S) /\ Len(S) \in Nat /\ Len(x) \in Nat /\ a <= e
  <2>1. EndIn(p, i) <= EndIn(p, Len(p))
    BY <1>1, <1>2, EndsGrow
  <2>2. Len(x) \in Nat
    BY <1>3, BytesTyped
  <2> HIDE DEF x
  <2> QED BY <1>3, <1>4, <2>1, <2>2
<1>6. /\ Whole(x, f)
      /\ (\E k \in {1, 2} : OpensA5(x, 0, k)) \/ OpensChlor(x, 0)
  BY PieceWhole
<1>7. i > 1 \/ a = 0
  <2>1. CASE i = 1
    <3>1. i - 1 = 0
      BY <2>1
    <3>2. EndIn(p, i - 1) = 0
      BY <1>1, <3>1, EndsAre
    <3> QED BY <3>2
  <2> QED BY <1>2, <2>1
<1> HIDE DEF x, f
<1>8. b \in Bytes /\ Len(b) = e - c /\ \A k \in 1..(e - c) : b[k] = S[c + k]
  <2>1. c <= e
    BY <1>3, <1>5
  <2>2. S \in Bytes /\ e \in Nat /\ e <= Len(S)
    BY <1>3, <1>4, <1>5
  <2> QED BY <2>1, <2>2, PartIs
<1>9. l \in Nat /\ l <= Len(b)
  BY <1>3, <1>5, <1>8
<1>10. Drop(b, l) = x
  <2>1. Drop(Part(S, c, e), a - c) = Part(S, a, e)
    BY <1>3, <1>4, <1>5, DropOfPart
  <2> QED BY <1>4, <2>1
<1>11. QuietTo(b, l)
  <2>1. QuietTo(Part(S, c, e), a - c)
    BY <1>3, <1>4, <1>5, QuietPart
  <2> QED BY <2>1
<1>12. l > 0 => b[l] = S[a] /\ i > 1
  <2> SUFFICES ASSUME l > 0 PROVE b[l] = S[a] /\ i > 1
    OBVIOUS
  <2>1. l \in 1..(e - c) /\ c + l = a /\ a # 0
    BY <1>3, <1>5
  <2> QED BY <1>7, <1>8, <2>1
<1>13. OpensFrame(b, l)
  <2>1. CASE \E k \in {1, 2} : OpensA5(x, 0, k)
    <3>1. PICK k \in {1, 2} : OpensA5(x, 0, k)
      BY <2>1
    <3>2. k = 1 /\ l > 0 => b[l] # FF
      <4> SUFFICES ASSUME k = 1, l > 0 PROVE b[l] # FF
        OBVIOUS
      <4>1. ShortAt(x, 0 + 1)
        BY <3>1 DEF OpensA5
      <4>2. x[1] = 0
        BY <4>1 DEF ShortAt
      <4>3. c < a
        BY <1>3
      <4>4. ToldFromFF(p, i) /\ p[i].kind # "noise" /\ i > 1 /\ p[i].bytes[1] = 0
        BY <1>12, <4>2, <4>3 DEF IsFrame, x
      <4>5. S[a] # FF
        BY <1>3, <4>4 DEF ToldFromFF
      <4> QED BY <1>12, <4>5
    <3> HIDE DEF b, l
    <3>3. OpensA5(b, l, k)
      BY <1>8, <1>9, <1>10, <3>1, <3>2, OpensBehind
    <3> QED BY <3>3 DEF OpensFrame
  <2>2. CASE OpensChlor(x, 0)
    <3> HIDE DEF b, l
    <3>1. OpensChlor(b, l)
      BY <1>8, <1>9, <1>10, <2>2, OpensBehind
    <3> QED BY <3>1 DEF OpensFrame
  <2> QED BY <1>6, <2>1, <2>2
<1> HIDE DEF b, l
<1>14. ~NoSync(b) /\ Sync(b).first = l + 1
  BY <1>8, <1>9, <1>11, <1>13, OpenedSync
<1>15. Whole(Drop(b, l), f)
  BY <1>6, <1>10
<1>16. Drain(b).frames = <<f>> /\ Drain(b).buf = <<>>
  BY <1>8, <1>9, <1>14, <1>15, WholeGiven
<1>17. ASSUME NEW t \in Nat, a <= t, t < e PROVE Drain(Part(S, c, t)).frames = <<>>
  <2> DEFINE z == Part(S, c, t)
  <2>1. c <= t /\ t <= e /\ t <= Len(S)
    BY <1>3, <1>5, <1>17
  <2>2. z \in Bytes /\ Len(z) = t - c
    BY <1>4, <2>1, PartIs
  <2>3. Begins(z, b)
    BY <1>3, <1>4, <1>5, <2>1, BeginOfPart DEF b
  <2>4. Len(z) < Len(b)
    <3> HIDE DEF z
    <3> QED BY <1>3, <1>8, <1>17, <2>2
  <2> HIDE DEF z
  <2>5. Drain(z).frames = <<>>
    BY <1>8, <1>9, <1>14, <1>15, <2>2, <2>3, <2>4, PartialGiven
  <2> QED BY <2>5 DEF z
<1> QED BY <1>16, <1>17 DEF b, f
-----------------------------------------------------------------------------
(* What the framer gives of a plan, piece by piece: before the first byte of  *)
(* a piece it has given the frames behind it and waits with quiet bytes.     *)
(* The frames of a plan that lie between two bytes of its stream, piece by piece. *)
Lies(p, i, from, to) == IsFrame(p[i]) /\ StartIn(p, i) >= from /\ EndIn(p, i) <= to

Sends(g, p, from, to) ==
  g = [i \in 0..Len(p) |->
         IF i = 0 THEN <<>>
         ELSE IF Lies(p, i, from, to) THEN Append(g[i - 1], FrameIn(p[i])) ELSE g[i - 1]]

LEMMA SendsStep ==
  ASSUME NEW p, Len(p) \in Nat, NEW from, NEW to, NEW g, Sends(g, p, from, to)
  PROVE  /\ g[0] = <<>>
         /\ \A i \in 1..Len(p) : Lies(p, i, from, to) => g[i] = Append(g[i - 1], FrameIn(p[i]))
         /\ \A i \in 1..Len(p) : ~Lies(p, i, from, to) => g[i] = g[i - 1]
<1>1. \A i \in 0..Len(p) :
        g[i] = IF i = 0 THEN <<>>
               ELSE IF Lies(p, i, from, to) THEN Append(g[i - 1], FrameIn(p[i])) ELSE g[i - 1]
  BY Zenon DEF Sends
<1>2. 0 \in 0..Len(p) /\ \A i \in 1..Len(p) : i \in 0..Len(p) /\ i # 0
  OBVIOUS
<1> QED BY <1>1, <1>2, Zenon

LEMMA SentIs ==
  ASSUME NEW p \in Plans, p = plan, NEW from
  PROVE  \E g \in [0..Len(p) -> Seq(GivenFrame)] :
           Sends(g, p, from, pos) /\ SentSince(from) = g[Len(p)]
<1> DEFINE n == Len(p)
           G == Seq(GivenFrame)
           lies(i) == Lies(p, i, from, pos)
           next == [i \in 1..n |-> [s \in G |-> IF lies(i) THEN Append(s, FrameIn(p[i])) ELSE s]]
<1>0. p \in Seq(Piece)
  BY FramerAssumption
<1>1. n \in Nat /\ <<>> \in G
  BY <1>0, EmptySeq
<1>2. next \in [1..n -> [G -> G]]
  <2>1. ASSUME NEW i \in 1..n, NEW s \in G, lies(i) PROVE Append(s, FrameIn(p[i])) \in G
    <3>1. FrameIn(p[i]) \in GivenFrame
      BY <1>0, <2>1, EndsAre DEF FrameIn, GivenFrame, Lies, IsFrame
    <3> QED BY <3>1, AppendProperties
  <2> HIDE DEF lies, G
  <2> QED BY <2>1
<1>3. PICK f \in [0..n -> G] : Iterates(f, <<>>, next, n)
  <2> HIDE DEF next, n, G
  <2> QED BY <1>1, <1>2, IterationExists
<1>4. ASSUME NEW i \in 0..n, i # 0
      PROVE  next[i][f[i - 1]] = IF lies(i) THEN Append(f[i - 1], FrameIn(p[i])) ELSE f[i - 1]
  <2>1. i \in 1..n /\ i - 1 \in 0..n
    BY <1>1, <1>4
  <2>2. f[i - 1] \in G
    BY <1>3, <2>1, Zenon
  <2> HIDE DEF lies, G
  <2> QED BY <2>1, <2>2, Zenon
<1> HIDE DEF next
<1>5. [i \in 0..n |-> IF i = 0 THEN <<>> ELSE next[i][f[i - 1]]]
      = [i \in 0..n |-> IF i = 0 THEN <<>>
                        ELSE IF lies(i) THEN Append(f[i - 1], FrameIn(p[i])) ELSE f[i - 1]]
  BY <1>4, Zenon
<1>6. Sends(f, p, from, pos)
  BY <1>3, <1>5, Zenon DEF Iterates, Sends
<1> DEFINE g == CHOOSE h : Sends(h, p, from, pos)
<1>7. Sends(g, p, from, pos)
  BY <1>6, Zenon
<1>8. SentSince(from) = g[n]
  BY Zenon DEF SentSince, Sends, Lies, StartOf, EndOf
<1> HIDE DEF g
<1>9. f[0] = <<>> /\ \A i \in 1..n : /\ lies(i) => f[i] = Append(f[i - 1], FrameIn(p[i]))
                                     /\ ~lies(i) => f[i] = f[i - 1]
  BY <1>1, <1>6, SendsStep
<1>10. g[0] = <<>> /\ \A i \in 1..n : /\ lies(i) => g[i] = Append(g[i - 1], FrameIn(p[i]))
                                      /\ ~lies(i) => g[i] = g[i - 1]
  BY <1>1, <1>7, SendsStep
<1> HIDE DEF n, G, lies
<1> DEFINE T == {k \in Nat : k <= n => g[k] = f[k]}
<1>11. 0 \in T
  BY <1>9, <1>10
<1>12. ASSUME NEW k \in Nat, k \in T PROVE k + 1 \in T
  <2> SUFFICES ASSUME k + 1 <= n PROVE g[k + 1] = f[k + 1]
    OBVIOUS
  <2> DEFINE m == k + 1
  <2>1. m \in 1..n /\ m - 1 = k /\ k <= n
    BY <1>1
  <2>2. g[k] = f[k]
    BY <1>12, <2>1
  <2> HIDE DEF m
  <2>3. g[m - 1] = f[m - 1]
    BY <2>1, <2>2
  <2>4. g[m] = f[m]
    BY <1>9, <1>10, <2>1, <2>3, Zenon
  <2> QED BY <2>4 DEF m
<1>13. Nat \subseteq T
  <2> HIDE DEF T
  <2> QED BY <1>11, <1>12, SetInduction
<1>14. g[n] = f[n]
  BY <1>1, <1>13
<1> QED BY <1>3, <1>6, <1>8, <1>14, Zenon DEF n, G

(* What waits when the framer has been fed up to the end of a piece: bytes in *)
(* which no sync begins, and which do not make the next frame look longer.    *)
Calm(p, i) == QuietIn(StreamOf(p), EndIn(p, i - 1), EndIn(p, i))

Told(p, i) == i < Len(p) => ToldFromFF(p, i + 1)

Kept(p, i, b) ==
  \E c \in Nat : /\ c <= EndIn(p, i) /\ b = Part(StreamOf(p), c, EndIn(p, i))
                 /\ QuietIn(StreamOf(p), c, EndIn(p, i))
                 /\ c < EndIn(p, i) => Told(p, i)

(* After the pieces up to i, with the frames xs before those that lie there.  *)
After(p, g, from, i, xs) ==
  LET d == Drain(Part(StreamOf(p), from, EndIn(p, i)))
  IN  d.frames = xs \o g[i] /\ Kept(p, i, d.buf)

(* A piece that the framer gets over: a frame, or bytes in which no sync      *)
(* begins.                                                                   *)
Regular(p, i) == IsFrame(p[i]) \/ (Calm(p, i) /\ Told(p, i))

LEMMA Quiets ==
  ASSUME NEW b, NEW a \in Nat, NEW c \in Nat, NEW e \in Nat, a <= c, c <= e,
         QuietIn(b, a, c), QuietIn(b, c, e)
  PROVE  QuietIn(b, a, e)
<1> SUFFICES ASSUME NEW q \in (a + 1)..e PROVE ~SyncAt(b, q)
  BY DEF QuietIn
<1>1. q \in (a + 1)..c \/ q \in (c + 1)..e
  OBVIOUS
<1> QED BY <1>1 DEF QuietIn

LEMMA PartQuiet ==
  ASSUME NEW b, NEW a \in Nat, NEW c \in Nat, NEW e \in Nat, NEW f \in Nat,
         a <= c, e <= f, QuietIn(b, a, f)
  PROVE  QuietIn(b, c, e)
<1> SUFFICES ASSUME NEW q \in (c + 1)..e PROVE ~SyncAt(b, q)
  BY DEF QuietIn
<1>1. q \in (a + 1)..f
  OBVIOUS
<1> QED BY <1>1 DEF QuietIn

(* The ends of a plan's pieces, and where a byte lies. *)
LEMMA PlanEnds ==
  ASSUME NEW p \in Plans
  PROVE  /\ p \in Seq(Piece) /\ Len(p) \in Nat
         /\ StreamOf(p) \in Bytes /\ Len(StreamOf(p)) = EndIn(p, Len(p))
         /\ EndIn(p, 0) = 0
         /\ \A i \in 0..Len(p) : EndIn(p, i) \in Nat /\ EndIn(p, i) <= Len(StreamOf(p))
         /\ \A i \in 1..Len(p) : /\ i - 1 \in 0..Len(p) /\ EndIn(p, i - 1) < EndIn(p, i)
                                 /\ StartIn(p, i) = EndIn(p, i - 1)
                                 /\ i \in DOMAIN p
         /\ \A i, j \in 0..Len(p) : i <= j => EndIn(p, i) <= EndIn(p, j)
<1>1. p \in Seq(Piece)
  BY FramerAssumption
<1>2. Len(p) \in Nat /\ DOMAIN p = 1..Len(p)
  BY <1>1
<1>3. StreamOf(p) \in Bytes /\ Len(StreamOf(p)) = EndIn(p, Len(p))
  BY <1>1, StreamIs
<1>4. \A i, j \in 0..Len(p) : i <= j => EndIn(p, i) <= EndIn(p, j)
  BY <1>1, EndsGrow
<1>5. /\ EndIn(p, 0) = 0 /\ \A i \in 0..Len(p) : EndIn(p, i) \in Nat
      /\ \A i \in 1..Len(p) : /\ EndIn(p, i) = EndIn(p, i - 1) + Len(p[i].bytes)
                              /\ StartIn(p, i) = EndIn(p, i - 1) /\ p[i].bytes \in Bytes
  BY <1>1, EndsAre
<1>6. \A i \in 0..Len(p) : EndIn(p, i) <= EndIn(p, Len(p))
  <2>1. Len(p) \in 0..Len(p) /\ \A i \in 0..Len(p) : i <= Len(p)
    BY <1>2
  <2> QED BY <1>4, <2>1
<1>7. ASSUME NEW i \in 1..Len(p)
      PROVE  i - 1 \in 0..Len(p) /\ EndIn(p, i - 1) < EndIn(p, i) /\ i \in DOMAIN p
  <2>1. i - 1 \in 0..Len(p) /\ i \in DOMAIN p
    BY <1>2
  <2>2. p[i].bytes # <<>> /\ p[i].bytes \in Bytes
    BY <1>5, <2>1, PlanAssumption
  <2> DEFINE w == Len(p[i].bytes)
             x == EndIn(p, i - 1)
             y == EndIn(p, i)
  <2>3. w \in Nat /\ w # 0
    BY <2>2, EmptySeq DEF Bytes
  <2>4. x \in Nat /\ y = x + w
    BY <1>5, <2>1
  <2> HIDE DEF w, x, y
  <2>5. x < y
    BY <2>3, <2>4
  <2> QED BY <2>1, <2>5 DEF x, y
<1> QED BY <1>1, <1>2, <1>3, <1>4, <1>5, <1>6, <1>7

LEMMA SendsOne ==
  ASSUME NEW p, Len(p) \in Nat, NEW from, NEW to, NEW g, Sends(g, p, from, to),
         NEW i \in 1..Len(p), Lies(p, i, from, to)
  PROVE  g[i] = Append(g[i - 1], FrameIn(p[i]))
BY SendsStep

LEMMA AfterStep ==
  ASSUME NEW p \in Plans, NEW i \in 1..Len(p), NEW from \in Nat, from <= EndIn(p, i - 1),
         NEW to \in Nat, EndIn(p, i) <= to,
         NEW g \in [0..Len(p) -> Seq(GivenFrame)], Sends(g, p, from, to),
         NEW xs \in Seq(GivenFrame), After(p, g, from, i - 1, xs), Regular(p, i)
  PROVE  After(p, g, from, i, xs)
<1> DEFINE S == StreamOf(p)
           a == EndIn(p, i - 1)
           e == EndIn(p, i)
           x == Part(S, from, a)
           y == Part(S, a, e)
           d == Drain(x)
           f == FrameIn(p[i])
<1>1. /\ Len(p) \in Nat /\ S \in Bytes
      /\ i - 1 \in 0..Len(p) /\ i \in 0..Len(p) /\ i - 1 + 1 = i /\ i - 1 < Len(p)
  BY PlanEnds
<1>2. a \in Nat /\ e \in Nat /\ a < e /\ a <= e /\ e <= Len(S) /\ StartIn(p, i) = a
  <2>1. a \in Nat /\ e \in Nat /\ a < e /\ e <= Len(S) /\ StartIn(p, i) = a
    BY <1>1, PlanEnds
  <2> QED BY <2>1
<1>3. PICK c \in Nat : c <= a /\ d.buf = Part(S, c, a) /\ QuietIn(S, c, a)
                       /\ (c < a => Told(p, i - 1))
  BY DEF After, Kept
<1>4. d.frames = xs \o g[i - 1]
  BY DEF After
<1>5. c < a => ToldFromFF(p, i)
  BY <1>1, <1>3 DEF Told
<1>6. from <= a
  OBVIOUS
<1> HIDE DEF S, a, e
<1>7. x \in Bytes /\ y \in Bytes
  <2>1. a <= Len(S)
    BY <1>1, <1>2, BytesTyped
  <2> QED BY <1>1, <1>2, <1>6, <2>1, PartIs
<1>8. x \o y = Part(S, from, e)
  BY <1>1, <1>2, <1>6, PartsJoin
<1>9. d.buf \o y = Part(S, c, e)
  <2>1. d.buf = Part(S, c, a)
    BY <1>3
  <2>2. c <= a /\ S \in Bytes
    BY <1>1, <1>3
  <2>3. Part(S, c, a) \o Part(S, a, e) = Part(S, c, e)
    BY <1>2, <2>2, PartsJoin
  <2> QED BY <2>1, <2>3
<1> DEFINE r == Drain(Part(S, c, e))
<1>10. Drain(Part(S, from, e)).frames = xs \o g[i - 1] \o r.frames
       /\ Drain(Part(S, from, e)).buf = r.buf
  <2>1. Drain(x \o y).buf = Drain(d.buf \o y).buf
        /\ Drain(x \o y).frames = d.frames \o Drain(d.buf \o y).frames
    <3> HIDE DEF x, y
    <3> QED BY <1>7, DrainInTwo
  <2> QED BY <1>4, <1>8, <1>9, <2>1, Zenon
<1>11. g[i - 1] \in Seq(GivenFrame)
  BY <1>1
<1>12. CASE IsFrame(p[i])
  <2>1. r.frames = <<f>> /\ r.buf = <<>>
    BY <1>3, <1>5, <1>12, FrameGiven DEF S, a, e
  <2>2. Lies(p, i, from, to)
    BY <1>2, <1>6, <1>12 DEF Lies, e
  <2>3. g[i] = Append(g[i - 1], f)
    BY <1>1, <2>2, SendsOne
  <2>4. f \in GivenFrame
    <3>1. p \in Seq(Piece)
      BY PlanEnds
    <3> QED BY <1>12, <3>1, EndsAre DEF FrameIn, GivenFrame, IsFrame
  <2> HIDE DEF f, r
  <2>5. g[i] = g[i - 1] \o <<f>> /\ <<f>> \in Seq(GivenFrame)
    BY <1>11, <2>3, <2>4, AppendIsConcat
  <2>6. (xs \o g[i - 1]) \o <<f>> = xs \o (g[i - 1] \o <<f>>)
    <3> DEFINE u == g[i - 1]
               v == <<f>>
    <3>1. u \in Seq(GivenFrame) /\ v \in Seq(GivenFrame)
      BY <1>11, <2>5
    <3> HIDE DEF u, v
    <3>2. (xs \o u) \o v = xs \o (u \o v)
      BY <3>1, ConcatAssociative
    <3> QED BY <3>2 DEF u, v
  <2>7. Drain(Part(S, from, e)).frames = xs \o g[i]
    BY <1>10, <2>1, <2>5, <2>6
  <2>8. Kept(p, i, Drain(Part(S, from, e)).buf)
    <3>1. Part(S, e, e) = <<>>
      <4>1. Part(S, e, e) \in Bytes /\ Len(Part(S, e, e)) = e - e
        <5>1. e <= e
          BY <1>2
        <5> QED BY <1>1, <1>2, <5>1, PartIs
      <4>2. Len(Part(S, e, e)) = 0
        BY <1>2, <4>1
      <4> QED BY <4>1, <4>2, EmptySeq DEF Bytes
    <3>2. QuietIn(S, e, e) /\ e <= e /\ ~(e < e)
      <4>1. (e + 1)..e = {}
        BY <1>2
      <4> QED BY <1>2, <4>1 DEF QuietIn
    <3>3. Drain(Part(S, from, e)).buf = Part(S, e, e)
      BY <1>10, <2>1, <3>1
    <3> HIDE DEF Kept
    <3>4. \A b : b = Part(S, e, e) => Kept(p, i, b)
      BY <1>2, <3>2, Zenon DEF Kept, S, e
    <3> QED BY <3>3, <3>4
  <2> QED BY <2>7, <2>8 DEF After, S, e
<1>13. CASE ~IsFrame(p[i])
  <2>1. QuietIn(S, a, e) /\ Told(p, i)
    BY <1>13 DEF Regular, Calm, S, a, e
  <2>2. QuietIn(S, c, e) /\ c <= e
    BY <1>2, <1>3, <2>1, Quiets
  <2>3. r.frames = <<>>
        /\ \E l \in Nat : l <= e - c /\ r.buf = Part(S, e - l, e)
    BY <1>1, <1>2, <2>2, CalmGiven
  <2>4. PICK l \in Nat : l <= e - c /\ r.buf = Part(S, e - l, e)
    BY <2>3
  <2>5. ~Lies(p, i, from, to)
    BY <1>13 DEF Lies
  <2>6. g[i] = g[i - 1]
    BY <1>1, <2>5, SendsStep
  <2>7. xs \o g[i - 1] \o <<>> = xs \o g[i]
    <3>1. xs \o g[i - 1] \in Seq(GivenFrame)
      BY <1>11, ConcatProperties
    <3> QED BY <2>6, <3>1, ConcatEmptySeq
  <2>8. Drain(Part(S, from, e)).frames = xs \o g[i]
    BY <1>10, <2>3, <2>7, Zenon
  <2>9. Kept(p, i, Drain(Part(S, from, e)).buf)
    <3> DEFINE h == e - l
    <3>1. h \in Nat /\ h <= e /\ c <= h /\ e <= e
      BY <1>2, <1>3, <2>4
    <3> HIDE DEF h
    <3>2. QuietIn(S, h, e)
      BY <1>2, <2>2, <3>1, PartQuiet
    <3>3. Drain(Part(S, from, e)).buf = Part(S, h, e)
      BY <1>10, <2>4, Zenon DEF h
    <3>4. \A b : b = Part(S, h, e) => Kept(p, i, b)
      BY <2>1, <3>1, <3>2, Zenon DEF Kept, S, e
    <3> QED BY <3>3, <3>4
  <2> QED BY <2>8, <2>9 DEF After, S, e
<1> QED BY <1>12, <1>13

LEMMA AfterUpTo ==
  ASSUME NEW p \in Plans, NEW j \in 0..Len(p), NEW m \in 0..Len(p), j <= m,
         NEW from \in Nat, from <= EndIn(p, j), NEW to \in Nat, EndIn(p, m) <= to,
         NEW g \in [0..Len(p) -> Seq(GivenFrame)], Sends(g, p, from, to),
         NEW xs \in Seq(GivenFrame), After(p, g, from, j, xs),
         \A i \in (j + 1)..m : Regular(p, i)
  PROVE  After(p, g, from, m, xs)
<1> DEFINE T == {k \in Nat : j + k <= m => After(p, g, from, j + k, xs)}
<1>1. Len(p) \in Nat /\ j \in Nat /\ m \in Nat
  BY PlanEnds
<1>2. 0 \in T
  <2>1. j + 0 = j
    BY <1>1
  <2>2. After(p, g, from, j + 0, xs)
    BY <2>1, Zenon
  <2> QED BY <2>2
<1>3. ASSUME NEW k \in Nat, k \in T PROVE k + 1 \in T
  <2> SUFFICES ASSUME j + (k + 1) <= m PROVE After(p, g, from, j + (k + 1), xs)
    OBVIOUS
  <2> DEFINE i == j + (k + 1)
  <2>1. i \in 1..Len(p) /\ i - 1 = j + k /\ j + k <= m /\ i \in (j + 1)..m /\ i \in 0..Len(p)
        /\ i <= m /\ j + k \in 0..Len(p) /\ j <= j + k
    BY <1>1
  <2>2. After(p, g, from, j + k, xs)
    BY <1>3, <2>1
  <2> HIDE DEF i
  <2>3. After(p, g, from, i - 1, xs)
    BY <2>1, <2>2, Zenon
  <2>4. Regular(p, i)
    BY <2>1
  <2>5. EndIn(p, i) <= EndIn(p, m) /\ EndIn(p, j) <= EndIn(p, i - 1)
        /\ EndIn(p, i) \in Nat /\ EndIn(p, m) \in Nat /\ EndIn(p, i - 1) \in Nat
        /\ EndIn(p, j) \in Nat
    BY <2>1, PlanEnds
  <2>6. EndIn(p, i) <= to /\ from <= EndIn(p, i - 1)
    BY <2>5
  <2>7. After(p, g, from, i, xs)
    BY <2>1, <2>3, <2>4, <2>6, AfterStep
  <2> QED BY <2>7 DEF i
<1>4. Nat \subseteq T
  <2> HIDE DEF T
  <2> QED BY <1>2, <1>3, SetInduction
<1>5. m - j \in Nat /\ j + (m - j) = m /\ m <= m
  BY <1>1
<1>6. j + (m - j) <= m => After(p, g, from, j + (m - j), xs)
  BY <1>4, <1>5, Zenon
<1> QED BY <1>5, <1>6, Zenon

(* No frame lies before a byte in the pieces that begin before it, and none   *)
(* up to a byte in those that end behind it.                                 *)
LEMMA NoneBefore ==
  ASSUME NEW p \in Plans, NEW j \in 0..Len(p), NEW from \in Nat,
         \A i \in 1..j : EndIn(p, i - 1) < from,
         NEW to, NEW g, Sends(g, p, from, to)
  PROVE  g[j] = <<>>
<1> DEFINE T == {k \in Nat : k <= j => g[k] = <<>>}
<1>1. Len(p) \in Nat /\ j \in Nat
  BY PlanEnds
<1>2. g[0] = <<>> /\ \A i \in 1..Len(p) : ~Lies(p, i, from, to) => g[i] = g[i - 1]
  BY <1>1, SendsStep
<1>3. 0 \in T
  BY <1>2
<1>4. ASSUME NEW k \in Nat, k \in T PROVE k + 1 \in T
  <2> SUFFICES ASSUME k + 1 <= j PROVE g[k + 1] = <<>>
    OBVIOUS
  <2> DEFINE i == k + 1
  <2>1. i \in 1..Len(p) /\ i \in 1..j /\ i - 1 = k /\ k <= j
    BY <1>1
  <2>2. g[k] = <<>>
    BY <1>4, <2>1
  <2> HIDE DEF i
  <2>3. StartIn(p, i) = EndIn(p, i - 1) /\ EndIn(p, i - 1) \in Nat
    BY <2>1, PlanEnds
  <2>4. ~Lies(p, i, from, to)
    <3>1. EndIn(p, i - 1) < from
      BY <2>1
    <3>2. ~(StartIn(p, i) >= from)
      BY <2>3, <3>1
    <3> QED BY <3>2 DEF Lies
  <2>5. g[i] = <<>>
    BY <1>2, <2>1, <2>2, <2>4
  <2> QED BY <2>5 DEF i
<1>5. Nat \subseteq T
  <2> HIDE DEF T
  <2> QED BY <1>3, <1>4, SetInduction
<1> QED BY <1>1, <1>5

LEMMA NoneBehind ==
  ASSUME NEW p \in Plans, NEW m \in 0..Len(p), NEW to \in Nat, NEW from,
         m < Len(p) => to < EndIn(p, m + 1), NEW g, Sends(g, p, from, to)
  PROVE  g[Len(p)] = g[m]
<1> DEFINE T == {k \in Nat : m + k <= Len(p) => g[m + k] = g[m]}
<1>1. Len(p) \in Nat /\ m \in Nat
  BY PlanEnds
<1>2. \A i \in 1..Len(p) : ~Lies(p, i, from, to) => g[i] = g[i - 1]
  BY <1>1, SendsStep
<1>3. 0 \in T
  <2>1. m + 0 = m
    BY <1>1
  <2>2. g[m + 0] = g[m]
    BY <2>1
  <2> QED BY <2>2
<1>4. ASSUME NEW k \in Nat, k \in T PROVE k + 1 \in T
  <2> SUFFICES ASSUME m + (k + 1) <= Len(p) PROVE g[m + (k + 1)] = g[m]
    OBVIOUS
  <2> DEFINE i == m + (k + 1)
  <2>1. i \in 1..Len(p) /\ i - 1 = m + k /\ m + k <= Len(p) /\ i \in 0..Len(p)
        /\ m + 1 \in 0..Len(p) /\ m + 1 <= i /\ m < Len(p)
    BY <1>1
  <2>2. g[m + k] = g[m]
    BY <1>4, <2>1
  <2> HIDE DEF i
  <2>3. EndIn(p, m + 1) <= EndIn(p, i) /\ EndIn(p, m + 1) \in Nat /\ EndIn(p, i) \in Nat
    BY <2>1, PlanEnds
  <2>4. ~(EndIn(p, i) <= to)
    BY <2>1, <2>3
  <2>5. ~Lies(p, i, from, to)
    BY <2>4 DEF Lies
  <2>6. g[i] = g[i - 1]
    BY <1>2, <2>1, <2>5
  <2>7. g[i] = g[m]
    BY <2>1, <2>2, <2>6, Zenon
  <2> QED BY <2>7 DEF i
<1>5. Nat \subseteq T
  <2> HIDE DEF T
  <2> QED BY <1>3, <1>4, SetInduction
<1>6. Len(p) - m \in Nat /\ m + (Len(p) - m) = Len(p) /\ Len(p) <= Len(p)
  BY <1>1
<1>7. m + (Len(p) - m) <= Len(p) => g[m + (Len(p) - m)] = g[m]
  BY <1>5, <1>6, Zenon
<1> QED BY <1>6, <1>7, Zenon

(* The piece in which a byte of the stream lies. *)
Around(p, m, t) == EndIn(p, m) <= t /\ (m < Len(p) => t < EndIn(p, m + 1))

LEMMA AroundExists ==
  ASSUME NEW p \in Plans, NEW t \in Nat
  PROVE  \E m \in 0..Len(p) : Around(p, m, t)
<1> DEFINE T == {m \in 0..Len(p) : EndIn(p, m) <= t}
<1>1. Len(p) \in Nat /\ EndIn(p, 0) = 0
  BY PlanEnds
<1>2. 0 \in T
  BY <1>1
<1>3. PICK m \in T : \A k \in T : m >= k
  <2>1. T \subseteq 0..Len(p) /\ T # {}
    BY <1>2
  <2> HIDE DEF T
  <2> QED BY <1>1, <2>1, GreatestNatural
<1>4. m \in 0..Len(p) /\ EndIn(p, m) <= t
  OBVIOUS
<1>5. m < Len(p) => t < EndIn(p, m + 1)
  <2> SUFFICES ASSUME m < Len(p) PROVE t < EndIn(p, m + 1)
    OBVIOUS
  <2>1. m + 1 \in 0..Len(p) /\ ~(m >= m + 1)
    BY <1>1, <1>4
  <2>2. EndIn(p, m + 1) \in Nat
    BY <2>1, PlanEnds
  <2>3. m + 1 \notin T
    BY <1>3, <2>1
  <2>4. ~(EndIn(p, m + 1) <= t)
    BY <2>1, <2>3
  <2> QED BY <2>2, <2>4
<1> QED BY <1>4, <1>5 DEF Around

RegularNext(p, m) == m < Len(p) => Regular(p, m + 1)

Gives(p, g, from, to, xs) == Drain(Part(StreamOf(p), from, to)).frames = xs \o g[Len(p)]

(* What a feed up to any byte has given. *)
LEMMA EndedIn ==
  ASSUME NEW p \in Plans, NEW m \in 0..Len(p), NEW from \in Nat, from <= EndIn(p, m),
         NEW to \in Nat, to <= Len(StreamOf(p)), Around(p, m, to),
         RegularNext(p, m),
         NEW g \in [0..Len(p) -> Seq(GivenFrame)], Sends(g, p, from, to),
         NEW xs \in Seq(GivenFrame), After(p, g, from, m, xs)
  PROVE  Gives(p, g, from, to, xs)
<1> DEFINE S == StreamOf(p)
           a == EndIn(p, m)
           x == Part(S, from, a)
           y == Part(S, a, to)
           d == Drain(x)
<1>1. Len(p) \in Nat /\ S \in Bytes /\ a \in Nat /\ Len(S) = EndIn(p, Len(p)) /\ m \in Nat
  BY PlanEnds
<1>2. a <= to /\ (m < Len(p) => to < EndIn(p, m + 1))
  BY DEF Around
<1>3. PICK c \in Nat : c <= a /\ d.buf = Part(S, c, a) /\ QuietIn(S, c, a)
                       /\ (c < a => Told(p, m))
  BY DEF After, Kept
<1>4. d.frames = xs \o g[m]
  BY DEF After
<1>5. g[Len(p)] = g[m]
  BY <1>2, NoneBehind
<1>6. from <= a /\ to <= Len(S)
  OBVIOUS
<1>7. CASE m = Len(p)
  <2>1. to = a
    BY <1>1, <1>2, <1>6, <1>7
  <2> QED BY <1>4, <1>5, <2>1 DEF Gives
<1>8. CASE m < Len(p)
  <2>1. m + 1 \in 1..Len(p) /\ m + 1 - 1 = m /\ m + 1 \in 0..Len(p)
    BY <1>1, <1>8
  <2> DEFINE i == m + 1
             e == EndIn(p, i)
  <2>2. i \in 1..Len(p) /\ a = EndIn(p, i - 1) /\ to < e /\ e \in Nat /\ Regular(p, i)
        /\ e <= Len(S)
    <3>1. EndIn(p, m + 1) \in Nat /\ EndIn(p, m + 1) <= Len(S)
      BY <2>1, PlanEnds
    <3> QED BY <1>2, <1>8, <2>1, <3>1 DEF RegularNext
  <2>3. c < a => ToldFromFF(p, i)
    BY <1>3, <1>8 DEF Told
  <2> HIDE DEF S, a, e, i
  <2>4. x \in Bytes /\ y \in Bytes
    <3>1. a <= Len(S)
      BY <1>1, <1>2, <1>6, BytesTyped
    <3> QED BY <1>1, <1>2, <1>6, <3>1, PartIs
  <2>5. x \o y = Part(S, from, to)
    BY <1>1, <1>2, <1>6, PartsJoin
  <2>6. d.buf \o y = Part(S, c, to)
    <3>1. d.buf = Part(S, c, a)
      BY <1>3
    <3>2. c <= a
      BY <1>3
    <3>3. Part(S, c, a) \o Part(S, a, to) = Part(S, c, to)
      BY <1>1, <1>2, <1>6, <3>2, PartsJoin
    <3> QED BY <3>1, <3>3
  <2>7. Drain(x \o y).frames = d.frames \o Drain(d.buf \o y).frames
    <3> HIDE DEF x, y
    <3> QED BY <2>4, DrainInTwo
  <2>8. Drain(Part(S, c, to)).frames = <<>>
    <3>1. CASE IsFrame(p[i])
      BY <1>2, <1>3, <2>2, <2>3, <3>1, FrameGiven DEF S, a, e
    <3>2. CASE ~IsFrame(p[i])
      <4>1. QuietIn(S, a, e)
        BY <2>2, <3>2 DEF Regular, Calm, S, e
      <4>2. a <= a /\ to <= e
        BY <1>1, <2>2
      <4>3. QuietIn(S, a, to)
        BY <1>1, <2>2, <4>1, <4>2, PartQuiet
      <4>4. c <= a /\ QuietIn(S, c, a)
        BY <1>3
      <4>5. QuietIn(S, c, to) /\ c <= to
        BY <1>1, <1>2, <4>3, <4>4, Quiets
      <4> QED BY <1>1, <1>6, <4>5, CalmGiven
    <3> QED BY <3>1, <3>2
  <2>9. xs \o g[m] \o <<>> = xs \o g[m]
    <3>1. g[m] \in Seq(GivenFrame)
      OBVIOUS
    <3>2. xs \o g[m] \in Seq(GivenFrame)
      BY <3>1, ConcatProperties
    <3> QED BY <3>2, ConcatEmptySeq
  <2>10. Drain(Part(S, from, to)).frames = xs \o g[m]
    BY <1>4, <2>5, <2>6, <2>7, <2>8, <2>9, Zenon
  <2> QED BY <1>5, <2>10 DEF S, Gives
<1> QED BY <1>1, <1>7, <1>8

(* A feed that begins with a piece. *)
LEMMA FromPiece ==
  ASSUME NEW p \in Plans, NEW j \in 0..Len(p), NEW from, from = EndIn(p, j),
         NEW to, NEW g, Sends(g, p, from, to)
  PROVE  After(p, g, from, j, <<>>)
<1> DEFINE S == StreamOf(p)
<1>1. S \in Bytes /\ from \in Nat /\ from <= Len(S) /\ Len(p) \in Nat
  BY PlanEnds
<1>2. Part(S, from, from) = <<>>
  <2>1. from <= from
    BY <1>1
  <2>2. Part(S, from, from) \in Bytes /\ Len(Part(S, from, from)) = from - from
    BY <1>1, <2>1, PartIs
  <2>3. Len(Part(S, from, from)) = 0
    BY <1>1, <2>2
  <2> QED BY <2>2, <2>3, EmptySeq DEF Bytes
<1>3. g[j] = <<>>
  <2>1. ASSUME NEW i \in 1..j PROVE EndIn(p, i - 1) < from
    <3>1. i \in 1..Len(p) /\ i \in 0..Len(p) /\ i <= j /\ i - 1 \in 0..Len(p)
      BY <1>1
    <3>2. EndIn(p, i - 1) < EndIn(p, i) /\ EndIn(p, i) <= EndIn(p, j)
          /\ EndIn(p, i) \in Nat /\ EndIn(p, i - 1) \in Nat
      BY <3>1, PlanEnds
    <3> QED BY <1>1, <3>2
  <2> QED BY <1>1, <2>1, NoneBefore
<1>4. Drain(Part(S, from, EndIn(p, j))).frames = <<>> \o g[j]
      /\ Drain(Part(S, from, EndIn(p, j))).buf = Part(S, from, from)
  <2>1. <<>> \o <<>> = <<>>
    OBVIOUS
  <2> QED BY <1>2, <1>3, <2>1, DrainOfNothing
<1>5. Kept(p, j, Part(S, from, from))
  <2>1. QuietIn(S, from, from) /\ from <= from /\ ~(from < from)
    <3>1. (from + 1)..from = {}
      BY <1>1
    <3> QED BY <1>1, <3>1 DEF QuietIn
  <2> QED BY <1>1, <2>1, Zenon DEF Kept
<1> QED BY <1>4, <1>5 DEF After

(* A feed that begins within bytes in which no sync begins, ... *)
LEMMA FromCalm ==
  ASSUME NEW p \in Plans, NEW j \in 1..Len(p), NEW from \in Nat,
         EndIn(p, j - 1) < from, from <= EndIn(p, j),
         QuietIn(StreamOf(p), from, EndIn(p, j)), Told(p, j),
         NEW to, NEW g, Sends(g, p, from, to)
  PROVE  After(p, g, from, j, <<>>)
<1> DEFINE S == StreamOf(p)
           e == EndIn(p, j)
           r == Drain(Part(S, from, e))
<1>1. S \in Bytes /\ e \in Nat /\ e <= Len(S) /\ Len(p) \in Nat /\ j \in 0..Len(p)
  <2>1. j \in 0..Len(p)
    BY PlanEnds
  <2> QED BY <2>1, PlanEnds
<1>2. g[j] = <<>>
  <2>1. ASSUME NEW i \in 1..j PROVE EndIn(p, i - 1) < from
    <3>1. i - 1 \in 0..Len(p) /\ j - 1 \in 0..Len(p) /\ i - 1 <= j - 1
      BY <1>1
    <3>2. EndIn(p, i - 1) <= EndIn(p, j - 1) /\ EndIn(p, i - 1) \in Nat
          /\ EndIn(p, j - 1) \in Nat
      BY <3>1, PlanEnds
    <3> QED BY <3>2
  <2> QED BY <1>1, <2>1, NoneBefore
<1>3. r.frames = <<>> /\ \E l \in Nat : l <= e - from /\ r.buf = Part(S, e - l, e)
  BY <1>1, CalmGiven
<1>4. PICK l \in Nat : l <= e - from /\ r.buf = Part(S, e - l, e)
  BY <1>3
<1>5. Kept(p, j, r.buf)
  <2> DEFINE h == e - l
  <2>1. h \in Nat /\ h <= e /\ from <= h /\ e <= e
    BY <1>1, <1>4
  <2>2. r.buf = Part(S, h, e)
    BY <1>4
  <2> HIDE DEF h, r, e
  <2>3. QuietIn(S, h, e)
    BY <1>1, <2>1, PartQuiet DEF e
  <2> QED BY <2>1, <2>2, <2>3, Zenon DEF Kept, e
<1>6. r.frames = <<>> \o g[j]
  <2>1. <<>> \o <<>> = <<>>
    OBVIOUS
  <2> QED BY <1>2, <1>3, <2>1
<1> QED BY <1>5, <1>6 DEF After

(* ... and one that begins behind the leading FF of an A5 frame, which is     *)
(* given without it.                                                         *)
LEMMA FromSecond ==
  ASSUME NEW p \in Plans, NEW j \in 1..Len(p), p[j].kind = "A5",
         NEW from, from = EndIn(p, j - 1) + 1, StreamOf(p)[from] = FF
  PROVE  \E f \in GivenFrame :
           /\ Drain(Part(StreamOf(p), from, EndIn(p, j))).frames = <<f>>
           /\ Drain(Part(StreamOf(p), from, EndIn(p, j))).buf = <<>>
           /\ \A t \in Nat : from <= t /\ t < EndIn(p, j) =>
                Drain(Part(StreamOf(p), from, t)).frames = <<>>
<1> DEFINE S == StreamOf(p)
           a == EndIn(p, j - 1)
           e == EndIn(p, j)
           x == p[j].bytes
           y == Part(S, from, e)
           f == [kind |-> "A5", raw |-> y, checksum_ok |-> VerifyA5(y, 3)]
<1>1. /\ p \in Seq(Piece) /\ S \in Bytes /\ j - 1 \in 0..Len(p) /\ j \in 0..Len(p)
      /\ j \in DOMAIN p
  BY PlanEnds
<1>2. a \in Nat /\ e \in Nat /\ a < e /\ e <= Len(S)
  BY <1>1, PlanEnds
<1>3. x \in Bytes /\ Part(S, a, e) = x
  BY <1>1, EndsAre, StreamIs
<1>4. PICK k \in {1, 2} :
        /\ Len(x) >= k + 9 /\ At(x, k, SyncShort) /\ (k = 2 => x[1] = FF)
        /\ Len(x) = k + 9 + x[k + 7]
  BY <1>1, PlanAssumption DEF IsA5Piece
<1>5. from = a + 1 /\ from \in Nat /\ S[a + 1] = 255
  BY <1>2 DEF FF
<1> HIDE DEF S, a, e, x
<1>6. Len(x) = e - a /\ \A i \in 1..(e - a) : x[i] = S[a + i]
  <2>1. a <= e
    BY <1>2
  <2> QED BY <1>1, <1>2, <1>3, <2>1, PartIs
<1>7. ShortAt(x, k)
  <2>1. k \in 1..(Len(x) - 2)
    BY <1>2, <1>4, <1>6
  <2> QED BY <1>3, <1>4, <2>1, AtShort
<1>8. k = 2
  <2> SUFFICES ASSUME k = 1 PROVE FALSE
    BY <1>4
  <2>1. x[1] = 0
    BY <1>7 DEF ShortAt
  <2>2. 1 \in 1..(e - a)
    BY <1>2
  <2>3. x[1] = 255
    BY <1>5, <1>6, <2>2
  <2> QED BY <2>1, <2>3
<1>9. /\ y \in Bytes /\ Len(y) = e - from /\ \A i \in 1..(e - from) : y[i] = S[from + i]
  <2>1. from <= e /\ from \in Nat
    BY <1>2, <1>5
  <2>2. S \in Bytes /\ e \in Nat /\ e <= Len(S)
    BY <1>1, <1>2
  <2> QED BY <2>1, <2>2, PartIs
<1> HIDE DEF y
<1>10. \A i \in 1..(e - from) : y[i] = x[i + 1]
  <2> SUFFICES ASSUME NEW i \in 1..(e - from) PROVE y[i] = x[i + 1]
    OBVIOUS
  <2>1. i + 1 \in 1..(e - a) /\ a + (i + 1) = from + i
    BY <1>2, <1>5
  <2> DEFINE m == i + 1
  <2>2. m \in 1..(e - a) /\ a + m = from + i
    BY <2>1
  <2> HIDE DEF m
  <2>3. x[m] = S[from + i]
    BY <1>6, <2>2
  <2>4. x[m] = y[i]
    BY <1>9, <2>3
  <2> QED BY <2>4 DEF m
<1>11. Len(x) >= 11 /\ Len(x) = 11 + x[9]
  BY <1>4, <1>8
<1>12. Len(y) = Len(x) - 1 /\ 1 \in 1..(e - from) /\ 2 \in 1..(e - from)
       /\ 3 \in 1..(e - from) /\ 8 \in 1..(e - from) /\ 9 \in 1..Len(x)
  <2> DEFINE w == Len(x)
  <2>1. w >= 11 /\ w = e - a /\ Len(y) = e - from /\ from = a + 1
    BY <1>5, <1>6, <1>9, <1>11
  <2> HIDE DEF w
  <2>2. Len(y) = w - 1 /\ 8 <= e - from /\ 9 <= w /\ w \in Nat /\ e - from \in Nat
    BY <1>2, <2>1
  <2> QED BY <2>2 DEF w
<1>13. y[1] = x[2] /\ y[2] = x[3] /\ y[3] = x[4] /\ y[8] = x[9] /\ x[9] \in Nat
  <2>1. x[9] \in Octets
    BY <1>3, <1>12, BytesTyped
  <2>2. y[1] = x[1 + 1] /\ y[2] = x[2 + 1] /\ y[3] = x[3 + 1] /\ y[8] = x[8 + 1]
    BY <1>10, <1>12, Zenon
  <2>3. 1 + 1 = 2 /\ 2 + 1 = 3 /\ 3 + 1 = 4 /\ 8 + 1 = 9
    OBVIOUS
  <2>4. \A i \in Octets : i \in Nat
    BY DEF Octets
  <2> QED BY <2>1, <2>2, <2>3, <2>4, Zenon
<1>14. ShortAt(y, 1)
  <2>1. x[2] = 0 /\ x[3] = FF /\ x[4] = 165
    BY <1>7, <1>8 DEF ShortAt
  <2> QED BY <1>13, <2>1 DEF ShortAt
<1>15. /\ Len(y) >= 1 + 9 /\ Len(y) = 1 + 9 + y[1 + 7]
  <2>0. 1 + 7 = 8
    OBVIOUS
  <2>1. y[1 + 7] = x[9]
    BY <1>13, <2>0, Zenon
  <2> DEFINE w == x[9]
             n == Len(x)
             u == y[1 + 7]
  <2>2. w \in Nat /\ n = 11 + w /\ Len(y) = n - 1 /\ u = w
    BY <1>11, <1>12, <1>13, <2>1, Zenon
  <2> HIDE DEF w, n, u
  <2>3. Len(y) >= 1 + 9 /\ Len(y) = 1 + 9 + u
    BY <2>2
  <2> QED BY <2>3 DEF u
<1>16. OpensA5(y, 0, 1) /\ Whole(y, f)
  <2>1. Whole(y, [kind |-> "A5", raw |-> y, checksum_ok |-> VerifyA5(y, 1 + 2)])
        /\ OpensA5(y, 0, 1)
    <3>1. 1 \in {1, 2} /\ (1 = 2 => y[1] = FF) /\ y \in Bytes
      BY <1>9
    <3> QED BY <1>14, <1>15, <3>1, A5Whole, Zenon
  <2>2. 1 + 2 = 3
    OBVIOUS
  <2> QED BY <2>1, <2>2, Zenon
<1>17. ~NoSync(y) /\ Sync(y).first = 0 + 1
  <2>1. QuietTo(y, 0) /\ OpensFrame(y, 0)
    BY <1>16 DEF QuietTo, OpensFrame
  <2> QED BY <1>9, <2>1, OpenedSync
<1>18. Drop(y, 0) = y /\ 0 <= Len(y)
  <2>1. SubSeq(y, 1, Len(y)) = y /\ Len(y) \in Nat
    BY <1>9, SubSeqFull DEF Bytes
  <2> QED BY <2>1 DEF Drop
<1>19. Drain(y).frames = <<f>> /\ Drain(y).buf = <<>>
  <2> HIDE DEF f
  <2> QED BY <1>9, <1>16, <1>17, <1>18, WholeGiven
<1>20. f \in GivenFrame
  BY <1>9 DEF GivenFrame, VerifyA5
<1>21. ASSUME NEW t \in Nat, from <= t, t < e PROVE Drain(Part(S, from, t)).frames = <<>>
  <2> DEFINE z == Part(S, from, t)
  <2>1. t <= e /\ t <= Len(S)
    BY <1>1, <1>2, <1>21, BytesTyped
  <2>2. z \in Bytes /\ Len(z) = t - from
    BY <1>1, <1>5, <1>21, <2>1, PartIs
  <2>3. Begins(z, y)
    BY <1>1, <1>2, <1>5, <1>21, <2>1, BeginOfPart DEF y
  <2>4. Len(z) < Len(y)
    <3> HIDE DEF z
    <3> QED BY <1>2, <1>5, <1>9, <1>21, <2>2
  <2> HIDE DEF z, f
  <2>5. Drain(z).frames = <<>>
    BY <1>9, <1>16, <1>17, <1>18, <2>2, <2>3, <2>4, PartialGiven
  <2> QED BY <2>5 DEF z
<1> HIDE DEF f
<1> QED BY <1>19, <1>20, <1>21 DEF y, S, e

(* A byte within a piece from which the framer finds its way. *)
Straddles(p, from, j) ==
  /\ EndIn(p, j - 1) < from /\ from < EndIn(p, j)
  /\ \/ QuietIn(StreamOf(p), from, EndIn(p, j)) /\ Told(p, j)
     \/ p[j].kind = "A5" /\ from = EndIn(p, j - 1) + 1 /\ StreamOf(p)[from] = FF

(* From the end of a piece on, every frame that has been read is given. *)
LEMMA GivenAfter ==
  ASSUME NEW p \in Plans, NEW from \in Nat, NEW to \in Nat, to <= Len(StreamOf(p)),
         NEW g \in [0..Len(p) -> Seq(GivenFrame)], Sends(g, p, from, to),
         NEW j \in 0..Len(p), from <= EndIn(p, j), EndIn(p, j) <= to,
         NEW xs \in Seq(GivenFrame), After(p, g, from, j, xs),
         \A i \in (j + 1)..Len(p) : Regular(p, i)
  PROVE  Gives(p, g, from, to, xs)
<1>1. /\ Len(p) \in Nat /\ j \in Nat /\ EndIn(p, j) \in Nat
      /\ \A i \in 0..Len(p) : EndIn(p, i) \in Nat
      /\ \A i, k \in 0..Len(p) : i <= k => EndIn(p, i) <= EndIn(p, k)
  BY PlanEnds
<1>2. PICK m \in 0..Len(p) : Around(p, m, to)
  BY AroundExists
<1>3. EndIn(p, m) <= to /\ (m < Len(p) => to < EndIn(p, m + 1)) /\ m \in Nat
  BY <1>2 DEF Around
<1>4. j <= m
  <2> SUFFICES ASSUME m < j PROVE FALSE
    BY <1>1, <1>3
  <2>1. m < Len(p) /\ m + 1 \in 0..Len(p) /\ m + 1 <= j
    BY <1>1, <1>3
  <2>2. EndIn(p, m + 1) <= EndIn(p, j) /\ EndIn(p, m + 1) \in Nat
    BY <1>1, <2>1
  <2> QED BY <1>1, <1>3, <2>1, <2>2
<1>5. After(p, g, from, m, xs)
  <2>1. \A i \in (j + 1)..m : Regular(p, i)
    <3>1. \A i \in (j + 1)..m : i \in (j + 1)..Len(p)
      BY <1>1, <1>3
    <3> QED BY <3>1
  <2> QED BY <1>3, <1>4, <2>1, AfterUpTo
<1>6. RegularNext(p, m)
  <2>1. m < Len(p) => m + 1 \in (j + 1)..Len(p)
    BY <1>1, <1>3, <1>4
  <2> QED BY <2>1 DEF RegularNext
<1>7. from <= EndIn(p, m)
  <2>1. EndIn(p, j) <= EndIn(p, m) /\ EndIn(p, m) \in Nat
    BY <1>1, <1>4
  <2> QED BY <1>1, <2>1
<1> QED BY <1>2, <1>5, <1>6, <1>7, EndedIn, ZenonT(60)

(* A feed that begins between two pieces, or within one. *)
Begun(p, j, from) == from = EndIn(p, j) \/ (j > 0 /\ Straddles(p, from, j))

RegularAfter(p, j) == \A i \in (j + 1)..Len(p) : Regular(p, i)

GivesAll(p, g, j, from, to) ==
  \E xs \in Seq(GivenFrame) :
    /\ Len(xs) <= 1 /\ (from = EndIn(p, j) => xs = <<>>)
    /\ Drain(Part(StreamOf(p), from, to)).frames = xs \o g[Len(p)]

LEMMA GivenFrom ==
  ASSUME NEW p \in Plans, NEW from \in Nat, NEW to \in Nat,
         from <= to, to <= Len(StreamOf(p)),
         NEW g \in [0..Len(p) -> Seq(GivenFrame)], Sends(g, p, from, to),
         NEW j \in 0..Len(p), Begun(p, j, from), RegularAfter(p, j)
  PROVE  GivesAll(p, g, j, from, to)
<1> SUFFICES \E xs \in Seq(GivenFrame) :
               /\ Len(xs) <= 1 /\ (from = EndIn(p, j) => xs = <<>>)
               /\ Drain(Part(StreamOf(p), from, to)).frames = xs \o g[Len(p)]
  BY DEF GivesAll
<1> USE DEF RegularAfter
<1>0. from = EndIn(p, j) \/ (j > 0 /\ Straddles(p, from, j))
  BY DEF Begun
<1> DEFINE S == StreamOf(p)
           G == Seq(GivenFrame)
<1>1. Len(p) \in Nat /\ S \in Bytes /\ j \in Nat /\ EndIn(p, j) \in Nat
      /\ EndIn(p, j) <= Len(S) /\ Len(S) \in Nat
  BY PlanEnds, BytesTyped
<1>2. <<>> \in G /\ Len(<<>>) <= 1
  BY EmptySeq
<1>3. from <= EndIn(p, j)
  BY <1>0, <1>1 DEF Straddles
<1>4. ASSUME NEW xs \in G, After(p, g, from, j, xs), EndIn(p, j) <= to
      PROVE  Drain(Part(S, from, to)).frames = xs \o g[Len(p)]
  <2>1. Gives(p, g, from, to, xs)
    BY <1>3, <1>4, GivenAfter, ZenonT(60)
  <2> QED BY <2>1 DEF Gives
<1>5. CASE from = EndIn(p, j)
  <2>1. After(p, g, from, j, <<>>)
    BY <1>5, FromPiece
  <2>2. Drain(Part(S, from, to)).frames = <<>> \o g[Len(p)]
    BY <1>2, <1>4, <1>5, <2>1
  <2> QED BY <1>2, <2>2
<1>6. CASE j > 0 /\ Straddles(p, from, j) /\ EndIn(p, j) <= to
  <2>0. j \in 1..Len(p) /\ from # EndIn(p, j)
    BY <1>1, <1>6 DEF Straddles
  <2>1. CASE QuietIn(S, from, EndIn(p, j)) /\ Told(p, j)
    <3>1. EndIn(p, j - 1) < from
      BY <1>6 DEF Straddles
    <3>2. After(p, g, from, j, <<>>)
      BY <1>3, <2>0, <2>1, <3>1, FromCalm
    <3>3. Drain(Part(S, from, to)).frames = <<>> \o g[Len(p)]
      BY <1>2, <1>4, <1>6, <3>2
    <3> QED BY <1>2, <3>3
  <2>2. CASE p[j].kind = "A5" /\ from = EndIn(p, j - 1) + 1 /\ S[from] = FF
    <3> DEFINE d == Drain(Part(S, from, EndIn(p, j)))
    <3>1. PICK f \in GivenFrame : d.frames = <<f>> /\ d.buf = <<>>
      BY <2>0, <2>2, FromSecond
    <3> DEFINE xs == <<f>>
    <3>2. xs \in G /\ Len(xs) <= 1 /\ xs \o <<>> = xs
      OBVIOUS
    <3>3. g[j] = <<>>
      <4>1. ASSUME NEW i \in 1..j PROVE EndIn(p, i - 1) < from
        <5>1. i - 1 \in 0..Len(p) /\ j - 1 \in 0..Len(p) /\ i - 1 <= j - 1
          BY <1>1
        <5>2. EndIn(p, i - 1) <= EndIn(p, j - 1) /\ EndIn(p, i - 1) \in Nat
              /\ EndIn(p, j - 1) \in Nat
          BY <5>1, PlanEnds
        <5> QED BY <2>2, <5>2
      <4> QED BY <4>1, NoneBefore
    <3>4. Kept(p, j, <<>>)
      <4> DEFINE e == EndIn(p, j)
      <4>1. Part(S, e, e) = <<>>
        <5>1. e <= e
          BY <1>1
        <5>2. Part(S, e, e) \in Bytes /\ Len(Part(S, e, e)) = e - e
          BY <1>1, <5>1, PartIs
        <5>3. Len(Part(S, e, e)) = 0
          BY <1>1, <5>2
        <5> QED BY <5>2, <5>3, EmptySeq DEF Bytes
      <4>2. QuietIn(S, e, e) /\ e <= e /\ ~(e < e)
        <5>1. (e + 1)..e = {}
          BY <1>1
        <5> QED BY <1>1, <5>1 DEF QuietIn
      <4>3. <<>> = Part(S, e, e) /\ e \in Nat
        BY <1>1, <4>1
      <4> HIDE DEF e
      <4>4. Kept(p, j, <<>>)
        BY <4>2, <4>3, Zenon DEF Kept, e
      <4> QED BY <4>4
    <3>5. After(p, g, from, j, xs)
      <4>1. d.frames = xs \o g[j] /\ Kept(p, j, d.buf)
        <5> HIDE DEF xs, d
        <5> QED BY <3>1, <3>2, <3>3, <3>4 DEF xs
      <4> QED BY <4>1 DEF After
    <3> HIDE DEF xs
    <3>6. Drain(Part(S, from, to)).frames = xs \o g[Len(p)]
      BY <1>4, <1>6, <3>2, <3>5
    <3> QED BY <2>0, <3>2, <3>6
  <2> QED BY <1>6, <2>1, <2>2 DEF Straddles
<1>7. CASE j > 0 /\ Straddles(p, from, j) /\ to < EndIn(p, j)
  <2>0. j \in 1..Len(p) /\ from # EndIn(p, j) /\ j - 1 \in 0..Len(p) /\ j - 1 + 1 = j
        /\ EndIn(p, j - 1) < from
    BY <1>1, <1>7 DEF Straddles
  <2>1. g[Len(p)] = <<>>
    <3>1. g[Len(p)] = g[j - 1]
      BY <1>7, <2>0, NoneBehind
    <3>2. ASSUME NEW i \in 1..(j - 1) PROVE EndIn(p, i - 1) < from
      <4>1. i - 1 \in 0..Len(p) /\ i - 1 <= j - 1
        BY <1>1
      <4>2. EndIn(p, i - 1) <= EndIn(p, j - 1) /\ EndIn(p, i - 1) \in Nat
            /\ EndIn(p, j - 1) \in Nat
        BY <2>0, <4>1, PlanEnds
      <4> QED BY <2>0, <4>2
    <3>3. g[j - 1] = <<>>
      BY <2>0, <3>2, NoneBefore
    <3> QED BY <3>1, <3>3
  <2>2. Drain(Part(S, from, to)).frames = <<>>
    <3>1. CASE QuietIn(S, from, EndIn(p, j))
      <4>1. from <= from /\ to <= EndIn(p, j)
        BY <1>1, <1>7
      <4>2. QuietIn(S, from, to)
        BY <1>1, <3>1, <4>1, PartQuiet
      <4> QED BY <1>1, <4>2, CalmGiven
    <3>2. CASE p[j].kind = "A5" /\ from = EndIn(p, j - 1) + 1 /\ S[from] = FF
      BY <1>7, <2>0, <3>2, FromSecond
    <3> QED BY <1>7, <3>1, <3>2 DEF Straddles
  <2>3. <<>> \o <<>> = <<>>
    OBVIOUS
  <2> QED BY <1>2, <2>0, <2>1, <2>2, <2>3
<1>8. EndIn(p, j) <= to \/ to < EndIn(p, j)
  BY <1>1
<1> QED BY <1>0, <1>5, <1>6, <1>7, <1>8

(* Whatever was not cut short, the framer gets over. *)
LEMMA RegularPieces ==
  ASSUME NEW p \in Plans, NEW i \in 1..Len(p), p[i].kind # "cut"
  PROVE  Regular(p, i)
<1> DEFINE S == StreamOf(p)
<1>1. /\ p \in Seq(Piece) /\ S \in Bytes /\ Len(S) \in Nat /\ Len(p) \in Nat
      /\ i \in DOMAIN p /\ StartIn(p, i) = EndIn(p, i - 1)
      /\ i - 1 \in 0..Len(p) /\ i \in 0..Len(p)
  BY PlanEnds, BytesTyped
<1>2. EndIn(p, i - 1) \in Nat /\ EndIn(p, i) \in Nat /\ EndIn(p, i) <= Len(S)
  BY <1>1, PlanEnds
<1>3. p[i].kind \in {"A5", "IntelliChlor", "noise", "cut"}
  BY <1>1, EndsAre
<1>4. CASE IsFrame(p[i])
  BY <1>4 DEF Regular
<1>5. CASE p[i].kind = "noise"
  <2>1. SyncsOf(S) \cap (EndIn(p, i - 1) + 1)..EndIn(p, i) = {}
    BY <1>1, <1>5, PlanAssumption
  <2>2. Calm(p, i)
    <3> SUFFICES ASSUME NEW q \in (EndIn(p, i - 1) + 1)..EndIn(p, i), SyncAt(S, q) PROVE FALSE
      BY DEF Calm, QuietIn
    <3>1. q \in 1..Len(S)
      BY <1>1, <1>2
    <3>2. q \in SyncsOf(S)
      BY <1>1, <3>1, SyncsAre
    <3> QED BY <2>1, <3>2
  <2>3. Told(p, i)
    <3> SUFFICES ASSUME i < Len(p) PROVE ToldFromFF(p, i + 1)
      BY DEF Told
    <3> DEFINE k == i + 1
    <3>1. k \in DOMAIN p /\ k > 1 /\ k - 1 = i
      BY <1>1
    <3> HIDE DEF k
    <3>2. p[k - 1].kind = "noise"
      BY <1>5, <3>1
    <3>3. ToldFromFF(p, k)
      BY <3>1, <3>2, PlanAssumption
    <3> QED BY <3>3 DEF k
  <2> QED BY <2>2, <2>3 DEF Regular
<1> QED BY <1>3, <1>4, <1>5 DEF IsFrame

(* In a plain plan a sync lies at the beginning of a piece. *)
LEMMA PlainSyncs ==
  ASSUME NEW p \in Plans, IsPlain(p), NEW j \in 1..Len(p), NEW q \in Nat,
         EndIn(p, j - 1) < q, q <= EndIn(p, j), SyncAt(StreamOf(p), q)
  PROVE  \/ q = EndIn(p, j - 1) + 1
         \/ /\ q = EndIn(p, j - 1) + 2 /\ StreamOf(p)[EndIn(p, j - 1) + 1] = FF
            /\ p[j].kind # "noise" /\ At(StreamOf(p), q, SyncShort)
<1> DEFINE S == StreamOf(p)
           a == EndIn(p, j - 1)
           e == EndIn(p, j)
<1>1. /\ p \in Seq(Piece) /\ S \in Bytes /\ Len(S) \in Nat /\ Len(p) \in Nat
      /\ j - 1 \in 0..Len(p) /\ j \in 0..Len(p)
  BY PlanEnds, BytesTyped
<1>2. a \in Nat /\ e \in Nat /\ e <= Len(S)
  BY <1>1, PlanEnds
<1>3. q \in SyncsOf(S)
  <2>1. q \in 1..Len(S)
    BY <1>1, <1>2
  <2> QED BY <1>1, <2>1, SyncsAre
<1>4. PICK i \in DOMAIN p : p[i].kind # "noise" /\ Opens(p, i, q)
  BY <1>3 DEF IsPlain
<1>5. i \in 1..Len(p) /\ i \in 0..Len(p) /\ i - 1 \in 0..Len(p)
  BY <1>1
<1> DEFINE s == EndIn(p, i - 1)
           t == EndIn(p, i)
<1>6. StartIn(p, i) = s /\ s < t /\ s \in Nat /\ t \in Nat
  BY <1>5, PlanEnds
<1>7. q = s + 1 \/ (q = s + 2 /\ At(S, q, SyncShort) /\ S[q - 1] = FF)
  BY <1>4, <1>6 DEF Opens
<1>8. CASE i < j
  <2>1. i <= j - 1
    BY <1>1, <1>5, <1>8
  <2>2. t <= a
    BY <1>1, <1>5, <2>1, PlanEnds
  <2>3. q = a + 1
    <3> HIDE DEF s, t, a
    <3>1. a < q
      BY DEF a
    <3> QED BY <1>2, <1>6, <1>7, <2>2, <3>1
  <2> QED BY <2>3
<1>9. CASE j < i
  <2>1. j <= i - 1
    BY <1>1, <1>5, <1>9
  <2>2. e <= s
    BY <1>1, <1>5, <2>1, PlanEnds
  <2>3. FALSE
    <3>1. q <= e
      OBVIOUS
    <3> HIDE DEF s, t, a, e
    <3> QED BY <1>2, <1>6, <1>7, <2>2, <3>1
  <2> QED BY <2>3
<1>10. CASE i = j
  <2>1. s = a
    BY <1>10
  <2>2. q = a + 1 \/ (q = a + 2 /\ At(S, q, SyncShort) /\ S[q - 1] = FF)
    <3> HIDE DEF s, a, S
    <3> QED BY <1>7, <2>1
  <2>3. q = a + 2 => q - 1 = a + 1
    <3> HIDE DEF a
    <3> QED BY <1>2
  <2>4. q = a + 2 => S[a + 1] = FF
    BY <2>2, <2>3, <1>2
  <2> QED BY <1>4, <1>10, <2>2, <2>4
<1> QED BY <1>5, <1>8, <1>9, <1>10

(* A feed that begins within a frame, or within idle bytes. *)
LEMMA PlainStraddle ==
  ASSUME NEW p \in Plans, IsPlain(p), NEW j \in 1..Len(p), p[j].kind # "cut",
         NEW from \in Nat, EndIn(p, j - 1) < from, from < EndIn(p, j)
  PROVE  Straddles(p, from, j)
<1> DEFINE S == StreamOf(p)
           a == EndIn(p, j - 1)
           e == EndIn(p, j)
<1>1. /\ p \in Seq(Piece) /\ S \in Bytes /\ Len(S) \in Nat /\ Len(p) \in Nat
      /\ j - 1 \in 0..Len(p) /\ j \in 0..Len(p) /\ j \in DOMAIN p
  BY PlanEnds, BytesTyped
<1>2. a \in Nat /\ e \in Nat /\ e <= Len(S)
  BY <1>1, PlanEnds
<1>3. Told(p, j)
  <2>1. j < Len(p) => j + 1 \in DOMAIN p
    BY <1>1
  <2> QED BY <2>1 DEF IsPlain, Told
<1>4. CASE QuietIn(S, from, e)
  BY <1>3, <1>4 DEF Straddles
<1>5. CASE ~QuietIn(S, from, e)
  <2>1. PICK q \in (from + 1)..e : SyncAt(S, q)
    BY <1>5 DEF QuietIn
  <2>2. q \in Nat /\ a + 2 <= q /\ q <= e /\ a < q
    BY <1>2
  <2>3. q = a + 2 /\ S[a + 1] = FF /\ p[j].kind # "noise"
    <3>1. \/ q = a + 1
          \/ q = a + 2 /\ S[a + 1] = FF /\ p[j].kind # "noise"
      BY <2>1, <2>2, PlainSyncs
    <3> HIDE DEF a, S
    <3> QED BY <1>2, <2>2, <3>1
  <2>4. from = a + 1
    BY <1>2, <2>3
  <2>5. p[j].kind # "IntelliChlor"
    <3> SUFFICES ASSUME p[j].kind = "IntelliChlor" PROVE FALSE
      OBVIOUS
    <3> DEFINE x == p[j].bytes
    <3>1. At(x, 1, Stx) /\ Len(x) \in 7..IcMax
      BY <1>1, PlanAssumption DEF IsChlorPiece
    <3>2. x \in Bytes /\ x = Part(S, a, e)
      BY <1>1, EndsAre, StreamIs
    <3>3. x[1] = S[a + 1]
      <4>1. a <= e /\ 1 \in 1..(e - a)
        BY <1>2
      <4>2. Part(S, a, e)[1] = S[a + 1]
        BY <1>1, <1>2, <4>1, PartIs
      <4> QED BY <3>2, <4>2
    <3>4. x[1] = 16
      <4> HIDE DEF x
      <4>1. 1 \in 1..(Len(x) - 1)
        BY <3>1, FramerAssumption
      <4>2. At(x, 1, <<16, 2>>)
        BY <3>1 DEF Stx
      <4>3. 2 \in Octets
        BY DEF Octets
      <4> QED BY <3>2, <4>1, <4>2, <4>3, AtPair DEF PairAt
    <3> QED BY <2>3, <3>3, <3>4 DEF FF
  <2>6. p[j].kind = "A5"
    <3>1. p[j].kind \in {"A5", "IntelliChlor", "noise", "cut"}
      BY <1>1, EndsAre
    <3> QED BY <2>3, <2>5, <3>1
  <2> QED BY <2>3, <2>4, <2>6 DEF Straddles
<1> QED BY <1>4, <1>5
-----------------------------------------------------------------------------
(* A piece cut short: what it opens is taken, at its horizon or before.      *)
(* What follows in a sequence is its suffix. *)
LEMMA SuffixOfJoin ==
  ASSUME NEW A, NEW s \in Seq(A), NEW t \in Seq(A)
  PROVE  IsSuffix(s, t \o s) /\ Len(t \o s) = Len(t) + Len(s)
<1> DEFINE u == t \o s
           m == Len(s)
           n == Len(t)
           rs == Reverse(s)
           ru == Reverse(u)
<1>1. m \in Nat /\ n \in Nat
  OBVIOUS
<1>2. u \in Seq(A) /\ Len(u) = n + m
      /\ \A i \in 1..(n + m) : u[i] = IF i <= n THEN t[i] ELSE s[i - n]
  BY ConcatProperties
<1> HIDE DEF u
<1>3. \A i \in 1..m : s[i] \in A
  OBVIOUS
<1>4. \A i \in 1..(n + m) : u[i] \in A
  BY <1>2
<1> HIDE DEF m, n
<1>5. rs = [i \in 1..m |-> s[(m - i) + 1]] /\ ru = [i \in 1..(n + m) |-> u[((n + m) - i) + 1]]
  BY <1>2 DEF Reverse, m
<1> HIDE DEF rs, ru
<1>6. rs \in [1..m -> A] /\ ru \in [1..(n + m) -> A]
  <2>1. \A i \in 1..m : (m - i) + 1 \in 1..m
    BY <1>1
  <2>2. \A i \in 1..(n + m) : ((n + m) - i) + 1 \in 1..(n + m)
    BY <1>1
  <2> QED BY <1>3, <1>4, <1>5, <2>1, <2>2
<1>7. rs \in Seq(A) /\ ru \in Seq(A) /\ Len(rs) = m /\ Len(ru) = n + m /\ n + m \in Nat
  <2>1. n + m \in Nat
    BY <1>1
  <2>2. rs \in Seq(A) /\ ru \in Seq(A)
    BY <1>1, <1>6, <2>1, SeqDef
  <2>3. DOMAIN rs = 1..m /\ DOMAIN ru = 1..(n + m)
    BY <1>6
  <2> QED BY <1>1, <2>1, <2>2, <2>3
<1>8. \A i \in 1..m : rs[i] = ru[i]
  <2> SUFFICES ASSUME NEW i \in 1..m PROVE rs[i] = ru[i]
    OBVIOUS
  <2> DEFINE k == (m - i) + 1
             l == ((n + m) - i) + 1
  <2>1. i \in 1..(n + m) /\ l \in 1..(n + m) /\ ~(l <= n) /\ l - n = k
    BY <1>1
  <2>2. rs[i] = s[k] /\ ru[i] = u[l]
    BY <1>5, <2>1
  <2> HIDE DEF k, l
  <2>3. u[l] = s[k]
    BY <1>2, <2>1
  <2> QED BY <2>2, <2>3
<1>9. SubSeq(rs, 1, m) = SubSeq(ru, 1, m)
  <2>1. SubSeq(rs, 1, m) = [i \in 1..m |-> rs[i]] /\ SubSeq(ru, 1, m) = [i \in 1..m |-> ru[i]]
    BY <1>1, <1>7
  <2> QED BY <1>8, <2>1
<1>10. m <= n + m
  BY <1>1
<1>11. IsSuffix(s, u)
  BY <1>7, <1>9, <1>10 DEF IsSuffix, IsPrefix, rs, ru
<1> QED BY <1>2, <1>11 DEF u, m, n

Stepwise(g, p, from, to) ==
  /\ g[0] = <<>>
  /\ \A i \in 1..Len(p) : Lies(p, i, from, to) => g[i] = Append(g[i - 1], FrameIn(p[i]))
  /\ \A i \in 1..Len(p) : ~Lies(p, i, from, to) => g[i] = g[i - 1]

LEMMA SendsStepwise ==
  ASSUME NEW p \in Plans, NEW from, NEW to, NEW g, Sends(g, p, from, to)
  PROVE  Stepwise(g, p, from, to)
<1>1. Len(p) \in Nat
  BY PlanEnds
<1> QED BY <1>1, SendsStep DEF Stepwise

EndsIn(t, s) == \E u \in Seq(GivenFrame) : t = u \o s

(* Fewer frames lie behind a later byte, and they are the last ones. *)
LEMMA FewerSent ==
  ASSUME NEW p \in Plans, NEW from \in Nat, NEW far \in Nat, from <= far, NEW to \in Nat,
         NEW g \in [0..Len(p) -> Seq(GivenFrame)], Sends(g, p, from, to),
         NEW f \in [0..Len(p) -> Seq(GivenFrame)], Sends(f, p, far, to)
  PROVE  EndsIn(g[Len(p)], f[Len(p)])
<1> DEFINE n == Len(p)
           G == Seq(GivenFrame)
           P(k) == \E zs \in G : g[k] = zs \o f[k]
           T == {k \in Nat : k <= n => P(k)}
<1>1. n \in Nat /\ p \in Seq(Piece) /\ <<>> \in G
  BY PlanEnds, EmptySeq
<1>2. \A k \in 0..n : g[k] \in G /\ f[k] \in G
  OBVIOUS
<1>3. /\ g[0] = <<>> /\ f[0] = <<>>
      /\ \A i \in 1..n : Lies(p, i, from, to) => g[i] = Append(g[i - 1], FrameIn(p[i]))
      /\ \A i \in 1..n : ~Lies(p, i, from, to) => g[i] = g[i - 1]
      /\ \A i \in 1..n : Lies(p, i, far, to) => f[i] = Append(f[i - 1], FrameIn(p[i]))
      /\ \A i \in 1..n : ~Lies(p, i, far, to) => f[i] = f[i - 1]
  <2>1. Stepwise(g, p, from, to) /\ Stepwise(f, p, far, to)
    BY SendsStepwise
  <2> QED BY <2>1, Zenon DEF Stepwise
<1> HIDE DEF G, P
<1>4. 0 \in T
  <2>1. <<>> = <<>> \o <<>>
    OBVIOUS
  <2>2. P(0)
    BY <1>1, <1>3, <2>1, Zenon DEF P
  <2> QED BY <2>2
<1>5. ASSUME NEW k \in Nat, k \in T PROVE k + 1 \in T
  <2> SUFFICES ASSUME k + 1 <= n PROVE P(k + 1)
    OBVIOUS
  <2> DEFINE i == k + 1
             x == FrameIn(p[i])
  <2>1. i \in 1..n /\ i - 1 = k /\ k \in 0..n /\ i \in 0..n
    BY <1>1
  <2>2. PICK zs \in G : g[k] = zs \o f[k]
    <3>1. P(k)
      BY <1>1, <1>5, <2>1
    <3> QED BY <3>1 DEF P
  <2> HIDE DEF i
  <2>3. g[k] \in G /\ f[k] \in G /\ g[i] \in G
    BY <1>2, <2>1
  <2>4. /\ Lies(p, i, from, to) => g[i] = Append(g[k], x)
        /\ ~Lies(p, i, from, to) => g[i] = g[k]
        /\ Lies(p, i, far, to) => f[i] = Append(f[k], x)
        /\ ~Lies(p, i, far, to) => f[i] = f[k]
    <3>1. /\ Lies(p, i, from, to) => g[i] = Append(g[i - 1], x)
          /\ ~Lies(p, i, from, to) => g[i] = g[i - 1]
          /\ Lies(p, i, far, to) => f[i] = Append(f[i - 1], x)
          /\ ~Lies(p, i, far, to) => f[i] = f[i - 1]
      BY <1>3, <2>1
    <3> QED BY <2>1, <3>1, Zenon
  <2>5. StartIn(p, i) = EndIn(p, i - 1) /\ EndIn(p, i - 1) \in Nat
    BY <2>1, PlanEnds
  <2>6. \E ys \in G : g[i] = ys \o f[i]
    <3>1. CASE Lies(p, i, far, to)
      <4>1. Lies(p, i, from, to)
        BY <2>5, <3>1 DEF Lies
      <4>2. x \in GivenFrame
        BY <1>1, <2>1, <3>1, EndsAre DEF FrameIn, GivenFrame, Lies, IsFrame
      <4>3. Append(zs \o f[k], x) = zs \o Append(f[k], x)
        <5> DEFINE u == f[k]
        <5>1. u \in Seq(GivenFrame) /\ zs \in Seq(GivenFrame)
          BY <2>3 DEF G
        <5> HIDE DEF u, x
        <5>2. <<x>> \in Seq(GivenFrame) /\ zs \o u \in Seq(GivenFrame)
          BY <4>2, <5>1, ConcatProperties
        <5>3. Append(zs \o u, x) = (zs \o u) \o <<x>> /\ Append(u, x) = u \o <<x>>
          BY <4>2, <5>1, <5>2, AppendIsConcat
        <5>4. (zs \o u) \o <<x>> = zs \o (u \o <<x>>)
          BY <5>1, <5>2, ConcatAssociative
        <5>5. Append(zs \o u, x) = zs \o Append(u, x)
          BY <5>3, <5>4, Zenon
        <5> QED BY <5>5 DEF u
      <4> QED BY <2>2, <2>4, <3>1, <4>1, <4>3
    <3>2. CASE ~Lies(p, i, far, to) /\ Lies(p, i, from, to)
      <4>1. EndIn(p, i - 1) < far
        BY <2>5, <3>2 DEF Lies
      <4>2. ASSUME NEW j \in 1..k PROVE EndIn(p, j - 1) < far
        <5>1. j - 1 \in 0..n /\ i - 1 \in 0..n /\ j - 1 <= i - 1
          BY <1>1, <2>1
        <5>2. EndIn(p, j - 1) <= EndIn(p, i - 1) /\ EndIn(p, j - 1) \in Nat
          BY <5>1, PlanEnds
        <5> QED BY <2>5, <4>1, <5>2
      <4>3. f[k] = <<>>
        BY <2>1, <4>2, NoneBefore
      <4>4. g[i] = g[i] \o <<>>
        BY <2>3, ConcatEmptySeq DEF G
      <4> QED BY <2>3, <2>4, <3>2, <4>3, <4>4
    <3>3. CASE ~Lies(p, i, far, to) /\ ~Lies(p, i, from, to)
      BY <2>2, <2>4, <3>3
    <3> QED BY <3>1, <3>2, <3>3
  <2>7. P(i)
    BY <2>6 DEF P
  <2> QED BY <2>7 DEF i
<1>6. Nat \subseteq T
  <2> HIDE DEF T
  <2> QED BY <1>4, <1>5, SetInduction
<1>7. P(n)
  BY <1>1, <1>6
<1> QED BY <1>7 DEF P, G, EndsIn

(* Nothing has been sent from a byte that has not been reached. *)
LEMMA NothingSent ==
  ASSUME NEW p \in Plans, NEW to \in Nat, NEW far \in Nat, to < far,
         NEW g, Sends(g, p, far, to)
  PROVE  g[Len(p)] = <<>>
<1>1. PICK m \in 0..Len(p) : Around(p, m, to)
  BY AroundExists
<1>2. EndIn(p, m) <= to /\ (m < Len(p) => to < EndIn(p, m + 1))
  BY <1>1 DEF Around
<1>3. g[Len(p)] = g[m]
  BY <1>2, NoneBehind
<1>4. ASSUME NEW i \in 1..m PROVE EndIn(p, i - 1) < far
  <2>1. Len(p) \in Nat
    BY PlanEnds
  <2>2. i - 1 \in 0..Len(p) /\ i - 1 <= m
    BY <2>1
  <2>3. EndIn(p, i - 1) <= EndIn(p, m) /\ EndIn(p, i - 1) \in Nat /\ EndIn(p, m) \in Nat
    BY <2>2, PlanEnds
  <2> QED BY <1>2, <2>3
<1>5. g[m] = <<>>
  BY <1>4, NoneBefore
<1> QED BY <1>3, <1>5

(* Where the bytes end that a cut piece may swallow. *)
LEMMA HorizonIs ==
  ASSUME plan \in Plans, NEW i \in DOMAIN plan,
         NEW a, a = EndIn(plan, i - 1), NEW o, o = Drop(StreamOf(plan), a)
  PROVE  /\ Horizon(i) \in Nat /\ Horizon(i) >= a + IcMax
         /\ \A h \in A5Syncs(o) :
              h.first = 1 /\ Len(o) >= h.mark + 5 => Horizon(i) >= a + (h.mark + 7 + o[h.mark + 5])
<1> DEFINE onwards == Drop(Stream, StartOf(i))
           ends == {h.mark + 7 + onwards[h.mark + 5] :
                      h \in {k \in A5Syncs(onwards) : k.first = 1 /\ Len(onwards) >= k.mark + 5}}
           m == CHOOSE n \in ends \cup {IcMax} : \A k \in ends \cup {IcMax} : k <= n
<1>1. StartOf(i) = a /\ onwards = o /\ a \in Nat /\ o \in Bytes
  <2>1. i \in 1..Len(plan)
    BY PlanEnds
  <2>2. StartIn(plan, i) = a /\ a \in Nat /\ a <= Len(StreamOf(plan)) /\ StreamOf(plan) \in Bytes
    BY <2>1, PlanEnds
  <2>3. o \in Bytes
    BY <2>2, DropIs
  <2> QED BY <2>2, <2>3 DEF StartOf, Stream
<1>2. onwards \in Bytes
  BY <1>1
<1>3. Horizon(i) = a + m
  <2>1. Horizon(i) = StartOf(i) + m
    BY Zenon DEF Horizon
  <2> HIDE DEF m
  <2> QED BY <1>1, <2>1
<1> HIDE DEF onwards
<1>4. IcMax \in Nat
  BY FramerAssumption
<1>5. \E v : A5Syncs(onwards) \subseteq {v}
  BY DEF A5Syncs
<1>6. \A h \in A5Syncs(onwards) : h.mark \in Nat
  <2>1. FirstShort(onwards) \in Nat
    BY <1>2, FirstsTyped
  <2> QED BY <2>1 DEF A5Syncs, Hit, FirstShort
<1>7. \A v \in ends : v \in Nat
  <2> SUFFICES ASSUME NEW h \in A5Syncs(onwards), Len(onwards) >= h.mark + 5
               PROVE  h.mark + 7 + onwards[h.mark + 5] \in Nat
    OBVIOUS
  <2> DEFINE q == h.mark + 5
  <2>1. q \in 1..Len(onwards) /\ h.mark \in Nat
    BY <1>2, <1>6, BytesTyped
  <2> HIDE DEF q
  <2>2. onwards[q] \in Octets
    BY <1>2, <2>1, BytesTyped
  <2>3. onwards[q] \in Nat
    <3>1. \A x \in Octets : x \in Nat
      BY DEF Octets
    <3> QED BY <2>2, <3>1, Zenon
  <2> DEFINE w == onwards[q]
  <2>4. w \in Nat
    BY <2>3
  <2> HIDE DEF w
  <2>5. h.mark + 7 + w \in Nat
    BY <2>1, <2>4
  <2> QED BY <2>5 DEF w, q
<1>8. \E w : ends \subseteq {w}
  BY <1>5
<1> HIDE DEF ends, m
<1>9. \E n \in ends \cup {IcMax} : \A k \in ends \cup {IcMax} : k <= n
  <2>1. PICK w : ends \subseteq {w}
    BY <1>8
  <2>2. CASE w \in ends /\ w > IcMax
    <3>1. \A k \in ends \cup {IcMax} : k <= w
      BY <1>4, <1>7, <2>1, <2>2
    <3> QED BY <2>2, <3>1
  <2>3. CASE ~(w \in ends /\ w > IcMax)
    <3>1. \A k \in ends \cup {IcMax} : k <= IcMax
      BY <1>4, <1>7, <2>1, <2>3
    <3> QED BY <3>1
  <2> QED BY <2>2, <2>3
<1>10. m \in ends \cup {IcMax} /\ \A k \in ends \cup {IcMax} : k <= m
  BY <1>9 DEF m
<1>11. m \in Nat /\ IcMax <= m
  BY <1>4, <1>7, <1>10
<1>12. ASSUME NEW h \in A5Syncs(o), h.first = 1, Len(o) >= h.mark + 5
       PROVE  Horizon(i) >= a + (h.mark + 7 + o[h.mark + 5])
  <2> DEFINE v == h.mark + 7 + onwards[h.mark + 5]
  <2>1. v \in ends
    BY <1>1, <1>12 DEF ends
  <2> HIDE DEF v
  <2>2. v \in Nat /\ v <= m
    BY <1>7, <1>10, <2>1
  <2>3. Horizon(i) >= a + v
    BY <1>1, <1>3, <1>11, <2>2
  <2> QED BY <1>1, <2>3 DEF v
<1> QED BY <1>1, <1>3, <1>4, <1>11, <1>12

(* An A5 frame is taken at the length that it announces, ... *)
LEMMA A5Taken ==
  ASSUME NEW x \in Bytes, NEW k \in {1, 2}, OpensA5(x, 0, k), Len(x) >= k + 7,
         Len(x) >= k + 9 + x[k + 7]
  PROVE  /\ ~NoSync(x) /\ Sync(x).first = 1
         /\ Taken(x).take = "frame" /\ Taken(x).n = k + 9 + x[k + 7]
<1>1. Len(x) \in Nat
  BY BytesTyped
<1>2. ~NoSync(x) /\ Sync(x) = Hit("A5", 0 + 1, 0 + k + 2)
  <2>1. QuietTo(x, 0)
    BY DEF QuietTo
  <2> QED BY <2>1, A5SyncIs
<1>3. Sync(x).kind = "A5" /\ Sync(x).first = 1 /\ Sync(x).mark = k + 2
  BY <1>2 DEF Hit
<1> DEFINE n == k + 2 + 5 + x[k + 2 + 5] + 2
           m == k + 9 + x[k + 7]
<1>4. n = m /\ m \in Nat
  <2>1. k + 2 + 5 = k + 7
    OBVIOUS
  <2>2. k + 7 \in 1..Len(x)
    BY <1>1
  <2>3. x[k + 7] \in Octets
    BY <2>2, BytesTyped
  <2>4. x[k + 2 + 5] = x[k + 7]
    BY <2>1, Zenon
  <2> DEFINE y == x[k + 7]
  <2>5. m = k + 9 + y
    BY Zenon
  <2>6. y \in Nat
    <3>1. \A i \in Octets : i \in Nat
      BY DEF Octets
    <3> QED BY <2>3, <3>1, Zenon
  <2>7. n = k + 2 + 5 + y + 2
    BY <2>4, Zenon
  <2> HIDE DEF y, n, m
  <2> QED BY <2>5, <2>6, <2>7
<1>5. Len(x) >= m
  OBVIOUS
<1>6. ~(Len(x) < k + 2 + 5)
  BY <1>1
<1>7. ~(Len(x) < n)
  <2> HIDE DEF n, m
  <2> QED BY <1>1, <1>4, <1>5
<1>8. TakeA5(x, k + 2) = Took(n, "A5", VerifyA5(SubSeq(x, 1, n), k + 2))
  BY <1>6, <1>7, Zenon DEF TakeA5
<1> HIDE DEF n, m
<1>9. Taken(x) = Took(m, "A5", VerifyA5(SubSeq(x, 1, m), k + 2))
  BY <1>3, <1>4, <1>8 DEF Taken
<1>10. Taken(x).take = "frame" /\ Taken(x).n = m
  BY <1>9 DEF Took
<1> QED BY <1>2, <1>3, <1>10 DEF m

(* ... and an STX no further than IC_MAX_FRAME. *)
LEMMA ChlorTaken ==
  ASSUME NEW x \in Bytes, OpensChlor(x, 0), Len(x) >= IcMax
  PROVE  /\ ~NoSync(x) /\ Sync(x).first = 1 /\ x[1] = 16
         /\ \/ Taken(x).take = "drop"
            \/ Taken(x).take = "frame" /\ Taken(x).n \in 1..IcMax
<1>1. Len(x) \in Nat /\ IcMax \in Nat
  BY BytesTyped, FramerAssumption
<1>2. ~NoSync(x) /\ Sync(x) = Hit("IntelliChlor", 0 + 1, 0 + 1)
  <2>1. QuietTo(x, 0)
    BY DEF QuietTo
  <2> QED BY <2>1, ChlorSyncIs
<1>3. Sync(x).kind # "A5" /\ Sync(x).first = 1
  BY <1>2 DEF Hit
<1>4. x[1] = 16
  <2>1. PairAt(x, 0 + 1, 2)
    BY DEF OpensChlor
  <2> QED BY <2>1 DEF PairAt
<1> DEFINE w == IF Len(x) < IcMax THEN Len(x) ELSE IcMax
           k == FirstEtx(x)
<1>5. w = IcMax
  BY <1>1
<1>6. Taken(x) = TakeChlor(x)
  BY <1>3 DEF Taken
<1>7. k = 0 \/ k \in 3..(IcMax - 1)
  <2>1. k = 0 \/ k \in 3..(w - 1)
    BY FirstEtxIs
  <2> QED BY <1>5, <2>1
<1>8. CASE k = 0
  <2>1. TakeChlor(x) = Advanced
    BY <1>8 DEF TakeChlor, FirstEtx
  <2> QED BY <1>2, <1>3, <1>4, <1>6, <2>1 DEF Advanced
<1>9. CASE k \in 3..(IcMax - 1) /\ k < 6
  <2>1. TakeChlor(x) = Advanced
    BY <1>9 DEF TakeChlor, FirstEtx
  <2> QED BY <1>2, <1>3, <1>4, <1>6, <2>1 DEF Advanced
<1>10. CASE k \in 3..(IcMax - 1) /\ ~(k < 6)
  <2>1. k # 0
    BY <1>10
  <2>2. TakeChlor(x) = Took(k + 1, "IntelliChlor", VerifyChlor(SubSeq(x, 1, k + 1)))
    BY <1>10, <2>1, Zenon DEF TakeChlor, FirstEtx
  <2>3. Taken(x).take = "frame" /\ Taken(x).n = k + 1
    BY <1>6, <2>2 DEF Took
  <2>4. k + 1 \in 1..IcMax
    <3> HIDE DEF k
    <3> QED BY <1>1, <1>10
  <2> QED BY <1>2, <1>3, <1>4, <2>3, <2>4
<1> QED BY <1>7, <1>8, <1>9, <1>10

Takes(b, n) ==
  /\ ~NoSync(b) /\ Sync(b).first = 1
  /\ \/ n = 1 /\ Taken(b).take = "drop"
     \/ Taken(b).take = "frame" /\ Taken(b).n = n

(* The frames of z are the last of those of y. *)
EndsLike(y, z) == EndsIn(Drain(y).frames, Drain(z).frames)

(* What is left when the piece at the front has been taken. *)
LEMMA TakenOff ==
  ASSUME NEW S \in Bytes, NEW a \in Nat, NEW to \in Nat, a <= to, to <= Len(S),
         NEW y, y = Part(S, a, to), NEW n \in Nat, Takes(y, n),
         NEW r, r = a + n
  PROVE  n > 0 /\ r <= to /\ EndsLike(y, Part(S, r, to))
<1> USE DEF Takes, EndsLike, EndsIn
<1>1. y \in Bytes /\ Len(y) = to - a
  BY PartIs
<1>2. n > 0 /\ n <= Len(y)
  <2>1. CASE n = 1 /\ Taken(y).take = "drop"
    <3>1. Sync(y).first <= Len(y)
      BY <1>1, SyncTyped
    <3> QED BY <1>1, <2>1, <3>1
  <2>2. CASE Taken(y).take = "frame" /\ Taken(y).n = n
    <3>1. Taken(y).n \in Nat \ {0} /\ Taken(y).n <= Len(y)
      BY <1>1, <2>2, TakenTyped
    <3> QED BY <2>2, <3>1
  <2> QED BY <2>1, <2>2
<1> DEFINE z == Part(S, r, to)
<1>3. r \in Nat /\ a <= r /\ r <= to /\ r - a = n
  <2>1. n <= to - a
    BY <1>1, <1>2
  <2> QED BY <2>1
<1>4. Drop(y, n) = z
  <2>1. Drop(Part(S, a, to), r - a) = Part(S, r, to)
    BY <1>3, DropOfPart
  <2> QED BY <1>3, <2>1
<1>5. z \in Bytes
  <2> QED BY <1>3, PartIs
<1>6. Drain(z).frames \in Seq(GivenFrame)
  <2> HIDE DEF z
  <2> QED BY <1>5, DrainIsFinal DEF States
<1> HIDE DEF z
<1>7. CASE n = 1 /\ Taken(y).take = "drop"
  <2>1. Drain(y) = Drain(Drop(y, 1))
    BY <1>1, <1>7, TakenGiven
  <2>2. Drain(y).frames = <<>> \o Drain(z).frames
    BY <1>4, <1>6, <1>7, <2>1, ConcatEmptySeq
  <2>3. <<>> \in Seq(GivenFrame)
    BY EmptySeq
  <2> QED BY <1>2, <1>3, <2>2, <2>3 DEF z
<1>8. CASE Taken(y).take = "frame" /\ Taken(y).n = n
  <2>1. FrameOf(y) \in GivenFrame
        /\ Drain(y).frames = <<FrameOf(y)>> \o Drain(Drop(y, Taken(y).n)).frames
    BY <1>1, <1>8, TakenGiven
  <2> DEFINE f == FrameOf(y)
  <2>2. Drain(y).frames = <<f>> \o Drain(z).frames /\ f \in GivenFrame
    BY <1>4, <1>8, <2>1
  <2> HIDE DEF f
  <2>3. <<f>> \in Seq(GivenFrame)
    BY <2>2
  <2> QED BY <1>2, <1>3, <2>2, <2>3 DEF z
<1> QED BY <1>7, <1>8

(* A piece that opens a frame is taken, and not beyond its horizon. *)
LEMMA CutLeft ==
  ASSUME plan \in Plans, NEW i \in DOMAIN plan,
         NEW S, S = StreamOf(plan), NEW a, a = EndIn(plan, i - 1),
         NEW to \in Nat, to <= Len(S), Horizon(i) <= to,
         NEW y, y = Part(S, a, to), OpensFrame(y, 0)
  PROVE  \E r \in Nat : /\ a < r /\ r <= to /\ r <= Horizon(i) /\ (r = a + 1 => S[r] # FF)
                        /\ EndsLike(y, Part(S, r, to))
<1> DEFINE o == Drop(S, a)
           h == Horizon(i)
<1>1. S \in Bytes /\ Len(S) \in Nat /\ a \in Nat /\ a <= Len(S)
  <2>1. i \in 1..Len(plan)
    BY PlanEnds
  <2> QED BY <2>1, PlanEnds, BytesTyped
<1>2. /\ h \in Nat /\ h >= a + IcMax
      /\ \A x \in A5Syncs(o) :
           x.first = 1 /\ Len(o) >= x.mark + 5 => h >= a + (x.mark + 7 + o[x.mark + 5])
  BY HorizonIs
<1>3. IcMax \in Nat /\ IcMax > 8
  BY FramerAssumption
<1> HIDE DEF h
<1>4. a <= to /\ to - a >= IcMax
  BY <1>1, <1>2, <1>3 DEF h
<1>5. y \in Bytes /\ Len(y) = to - a /\ \A q \in 1..(to - a) : y[q] = S[a + q]
  BY <1>1, <1>4, PartIs
<1>6. o = Part(S, a, Len(S))
  BY DEF Drop, Part
<1>7. o \in Bytes /\ Begins(y, o)
  <2>1. Len(S) <= Len(S) /\ a <= Len(S)
    BY <1>1
  <2>2. Part(S, a, Len(S)) \in Bytes
    BY <1>1, <2>1, PartIs
  <2>3. Begins(Part(S, a, to), Part(S, a, Len(S)))
    BY <1>1, <1>4, <2>1, BeginOfPart
  <2> QED BY <1>6, <2>2, <2>3
<1> HIDE DEF o
<1>8. Len(o) \in Nat /\ Len(y) <= Len(o) /\ Len(y) \in Nat /\ \A q \in 1..Len(y) : o[q] = y[q]
  BY <1>5, <1>7, BytesTyped DEF Begins
<1>9. ASSUME NEW k \in {1, 2}, OpensA5(y, 0, k)
      PROVE  \E n \in Nat : /\ n > 1 /\ a + n <= h
                            /\ ~NoSync(y) /\ Sync(y).first = 1
                            /\ Taken(y).take = "frame" /\ Taken(y).n = n
  <2>1. Len(y) >= k + 7
    BY <1>3, <1>4, <1>5
  <2>2. OpensA5(o, 0, k)
    <3>1. ShortAt(y, k) /\ (k = 2 => y[1] = FF)
      <4>1. 0 + k = k /\ 0 + 1 = 1
        OBVIOUS
      <4> QED BY <1>9, <4>1 DEF OpensA5
    <3>2. k \in 1..Len(y) /\ k + 1 \in 1..Len(y) /\ k + 2 \in 1..Len(y) /\ 1 \in 1..Len(y)
      BY <1>8, <2>1
    <3>3. o[k] = y[k] /\ o[k + 1] = y[k + 1] /\ o[k + 2] = y[k + 2] /\ o[1] = y[1]
      BY <1>8, <3>2, Zenon
    <3>4. ShortAt(o, k) /\ (k = 2 => o[1] = FF)
      BY <3>1, <3>3, Zenon DEF ShortAt
    <3>5. 0 + k = k /\ 0 + 1 = 1 /\ 0 + k + 2 <= Len(o) /\ ~(0 > 0)
      BY <1>8, <2>1
    <3> QED BY <3>4, <3>5 DEF OpensA5
  <2> DEFINE x == Sync(o)
  <2>3. ~NoSync(o) /\ x = Hit("A5", 0 + 1, 0 + k + 2)
    <3>1. QuietTo(o, 0)
      BY DEF QuietTo
    <3> QED BY <1>7, <2>2, <3>1, A5SyncIs
  <2>4. x.kind = "A5" /\ x.first = 1 /\ x.mark = k + 2
    BY <2>3 DEF Hit
  <2>5. x \in A5Syncs(o)
    BY <1>7, <2>3, <2>4, SyncTyped
  <2>6. x.mark + 5 = k + 7 /\ x.mark + 7 = k + 9 /\ k + 7 \in 1..Len(y) /\ Len(o) >= x.mark + 5
    <3> HIDE DEF x
    <3> QED BY <1>8, <2>1, <2>4
  <2>7. o[x.mark + 5] = y[k + 7] /\ y[k + 7] \in Octets
    BY <1>5, <1>8, <2>6, BytesTyped
  <2> DEFINE n == k + 9 + y[k + 7]
             v == y[k + 7]
  <2>8. h >= a + (k + 9 + v)
    <3>1. h >= a + (x.mark + 7 + o[x.mark + 5])
      BY <1>2, <2>4, <2>5, <2>6
    <3> HIDE DEF x
    <3> QED BY <2>6, <2>7, <3>1
  <2>9. v \in Nat
    <3>1. \A q \in Octets : q \in Nat
      BY DEF Octets
    <3> QED BY <2>7, <3>1, Zenon
  <2>10. n = k + 9 + v
    OBVIOUS
  <2> HIDE DEF v, x, n
  <2>11. n \in Nat /\ n > 1 /\ a + n <= h /\ Len(y) >= n
    BY <1>1, <1>2, <1>4, <1>5, <2>8, <2>9, <2>10 DEF h
  <2>12. Len(y) >= k + 9 + y[k + 7]
    BY <2>11 DEF n
  <2>13. ~NoSync(y) /\ Sync(y).first = 1 /\ Taken(y).take = "frame" /\ Taken(y).n = n
    BY <1>5, <1>9, <2>1, <2>12, A5Taken DEF n
  <2> QED BY <2>11, <2>13
<1>10. ASSUME OpensChlor(y, 0)
       PROVE  /\ S[a + 1] = 16
              /\ \E n \in Nat : /\ a + n <= h
                                /\ ~NoSync(y) /\ Sync(y).first = 1
                                /\ \/ n = 1 /\ Taken(y).take = "drop"
                                   \/ Taken(y).take = "frame" /\ Taken(y).n = n
  <2>1. /\ ~NoSync(y) /\ Sync(y).first = 1 /\ y[1] = 16
        /\ \/ Taken(y).take = "drop"
           \/ Taken(y).take = "frame" /\ Taken(y).n \in 1..IcMax
    BY <1>4, <1>5, <1>10, ChlorTaken
  <2>2. 1 \in 1..(to - a)
    BY <1>1, <1>3, <1>4
  <2>3. S[a + 1] = 16
    BY <1>5, <2>1, <2>2
  <2>4. CASE Taken(y).take = "drop"
    <3>1. a + 1 <= h
      BY <1>1, <1>2, <1>3
    <3> QED BY <2>1, <2>3, <2>4, <3>1
  <2>5. CASE Taken(y).take = "frame" /\ Taken(y).n \in 1..IcMax
    <3> DEFINE n == Taken(y).n
    <3>1. n \in Nat /\ a + n <= h
      <4>1. n \in 1..IcMax
        BY <2>5
      <4> HIDE DEF n
      <4> QED BY <1>1, <1>2, <1>3, <4>1
    <3> QED BY <2>1, <2>3, <2>5, <3>1
  <2> QED BY <2>1, <2>4, <2>5
<1>11. \E n \in Nat : /\ a + n <= h /\ (n = 1 => S[a + 1] # FF)
                      /\ ~NoSync(y) /\ Sync(y).first = 1
                      /\ \/ n = 1 /\ Taken(y).take = "drop"
                         \/ Taken(y).take = "frame" /\ Taken(y).n = n
  <2>1. CASE \E k \in {1, 2} : OpensA5(y, 0, k)
    <3>1. PICK k \in {1, 2} : OpensA5(y, 0, k)
      BY <2>1
    <3>2. PICK n \in Nat : /\ n > 1 /\ a + n <= h
                           /\ ~NoSync(y) /\ Sync(y).first = 1
                           /\ Taken(y).take = "frame" /\ Taken(y).n = n
      BY <1>9, <3>1
    <3>3. n # 1
      BY <3>2
    <3> QED BY <3>2, <3>3
  <2>2. CASE OpensChlor(y, 0)
    BY <1>10, <2>2 DEF FF
  <2> QED BY <2>1, <2>2 DEF OpensFrame
<1>12. PICK n \in Nat : a + n <= h /\ (n = 1 => S[a + 1] # FF) /\ Takes(y, n)
  BY <1>11 DEF Takes
<1> DEFINE r == a + n
<1>13. n > 0 /\ r <= to /\ EndsLike(y, Part(S, r, to))
  <2> HIDE DEF r
  <2>1. r = a + n
    BY DEF r
  <2> QED BY <1>1, <1>4, <1>12, <2>1, TakenOff
<1>14. r \in Nat /\ a < r /\ r <= h /\ (r = a + 1 => n = 1)
  BY <1>1, <1>12, <1>13
<1>15. r = a + 1 => S[r] # FF
  BY <1>12, <1>14
<1> HIDE DEF r
<1> QED BY <1>13, <1>14, <1>15 DEF h

(* In one that does not, no sync begins. *)
LEMMA CutQuiet ==
  ASSUME NEW p \in Plans, IsPlain(p), NEW i \in 1..Len(p),
         NEW S, S = StreamOf(p), NEW a, a = EndIn(p, i - 1),
         NEW to \in Nat, to <= Len(S), a + 4 <= to, ~OpensFrame(Part(S, a, to), 0)
  PROVE  Calm(p, i)
<1> DEFINE y == Part(S, a, to)
<1>1. /\ S \in Bytes /\ Len(S) \in Nat /\ a \in Nat /\ EndIn(p, i) \in Nat
      /\ EndIn(p, i) <= Len(S)
  <2>1. i - 1 \in 0..Len(p) /\ i \in 0..Len(p)
    BY PlanEnds
  <2> QED BY <2>1, PlanEnds, BytesTyped
<1>2. y \in Bytes /\ Len(y) = to - a /\ \A q \in 1..(to - a) : y[q] = S[a + q]
  <2>1. a <= to
    BY <1>1
  <2> QED BY <1>1, <2>1, PartIs
<1>3. 1 \in 1..(to - a) /\ 2 \in 1..(to - a) /\ 3 \in 1..(to - a) /\ 4 \in 1..(to - a)
  BY <1>1
<1> HIDE DEF y
<1>4. y[1] = S[a + 1] /\ y[2] = S[a + 2] /\ y[3] = S[a + 3] /\ y[4] = S[a + 4]
  BY <1>2, <1>3
<1>5. /\ Len(y) >= 4 /\ 0 + 1 = 1 /\ 0 + 2 = 2 /\ ~(0 > 0) /\ 0 + 1 + 2 <= Len(y)
      /\ 0 + 2 + 2 <= Len(y) /\ 0 + 2 <= Len(y) /\ 1 + 1 = 2 /\ 1 + 2 = 3 /\ 2 + 1 = 3 /\ 2 + 2 = 4
  BY <1>1, <1>2
<1>6. /\ a + 1 + 1 = a + 2 /\ a + 1 + 2 = a + 3 /\ a + 2 + 1 = a + 3 /\ a + 2 + 2 = a + 4
  BY <1>1
<1> SUFFICES ASSUME NEW q \in (a + 1)..EndIn(p, i), SyncAt(S, q) PROVE OpensFrame(y, 0)
  BY DEF Calm, QuietIn, y
<1>7. q \in Nat /\ a < q /\ q <= EndIn(p, i)
  BY <1>1
<1>8. \/ q = a + 1
      \/ q = a + 2 /\ S[a + 1] = FF /\ At(S, q, SyncShort)
  BY <1>7, PlainSyncs
<1>9. CASE q = a + 1
  <2>1. CASE ShortAt(S, a + 1)
    <3>1. ShortAt(y, 1)
      <4>1. S[a + 1] = 0 /\ S[a + 2] = FF /\ S[a + 3] = 165
        BY <1>6, <2>1 DEF ShortAt
      <4> QED BY <1>4, <1>5, <4>1 DEF ShortAt
    <3>2. OpensA5(y, 0, 1)
      BY <1>5, <3>1 DEF OpensA5
    <3> QED BY <3>2 DEF OpensFrame
  <2>2. CASE PairAt(S, a + 1, 2)
    <3>1. PairAt(y, 1, 2)
      BY <1>4, <1>5, <1>6, <2>2, Zenon DEF PairAt
    <3>2. OpensChlor(y, 0)
      BY <1>5, <3>1 DEF OpensChlor
    <3> QED BY <3>2 DEF OpensFrame
  <2> QED BY <1>9, <2>1, <2>2 DEF SyncAt
<1>10. CASE q = a + 2 /\ S[a + 1] = FF /\ At(S, q, SyncShort)
  <2>1. q \in 1..(Len(S) - 2)
    BY <1>1, <1>10
  <2>2. ShortAt(S, a + 2)
    BY <1>1, <1>10, <2>1, AtShort
  <2>3. ShortAt(y, 2)
    <3>1. S[a + 2] = 0 /\ S[a + 3] = FF /\ S[a + 4] = 165
      BY <1>6, <2>2 DEF ShortAt
    <3> QED BY <1>4, <1>5, <3>1 DEF ShortAt
  <2>4. OpensA5(y, 0, 2)
    BY <1>4, <1>5, <1>10, <2>3 DEF OpensA5
  <2> QED BY <2>4 DEF OpensFrame
<1> QED BY <1>8, <1>9, <1>10

RegularUpTo(p, m) == \A k \in 1..m : Regular(p, k)

(* A piece that opens a frame is come to with nothing before it. *)
LEMMA UpToCut ==
  ASSUME NEW p \in Plans, NEW i \in 1..Len(p), p[i].kind # "noise",
         RegularUpTo(p, i - 1),
         NEW S, S = StreamOf(p), NEW a, a = EndIn(p, i - 1),
         NEW to \in Nat, a <= to, to <= Len(S),
         NEW g \in [0..Len(p) -> Seq(GivenFrame)], Sends(g, p, 0, to),
         NEW y, y = Part(S, a, to), OpensFrame(y, 0)
  PROVE  EndsLike(Part(S, 0, to), y)
<1> DEFINE d == Drain(Part(S, 0, a))
           e == EndIn(p, i)
<1>1. /\ p \in Seq(Piece) /\ S \in Bytes /\ Len(S) \in Nat /\ Len(p) \in Nat
      /\ i - 1 \in 0..Len(p) /\ i \in 0..Len(p) /\ 0 \in 0..Len(p) /\ EndIn(p, 0) = 0
      /\ StartIn(p, i) = a /\ a < e /\ i \in Nat /\ i - 1 + 1 = i
  BY PlanEnds, BytesTyped
<1>2. a \in Nat /\ e \in Nat /\ e <= Len(S) /\ a <= Len(S)
  BY <1>1, PlanEnds
<1>0. S \in Bytes /\ 0 \in Nat /\ 0 <= a
  BY <1>1, <1>2
<1>3. y \in Bytes /\ Len(y) = to - a /\ \A q \in 1..(to - a) : y[q] = S[a + q]
  BY <1>0, <1>2, PartIs
<1>4. <<>> \in Seq(GivenFrame)
  BY EmptySeq
<1>5. After(p, g, 0, i - 1, <<>>)
  <2>1. After(p, g, 0, 0, <<>>)
    BY <1>1, FromPiece
  <2> DEFINE m == i - 1
  <2>2. m \in 0..Len(p) /\ 0 <= m /\ 0 <= EndIn(p, 0) /\ EndIn(p, m) <= to /\ 0 \in Nat
    BY <1>1
  <2>3. \A k \in (0 + 1)..m : Regular(p, k)
    BY DEF RegularUpTo
  <2> HIDE DEF m
  <2>4. After(p, g, 0, m, <<>>)
    BY <1>1, <1>4, <2>1, <2>2, <2>3, AfterUpTo
  <2> QED BY <2>4 DEF m
<1>6. d.frames = <<>> \o g[i - 1]
  BY <1>5 DEF After
<1>7. PICK c \in Nat : c <= a /\ d.buf = Part(S, c, a) /\ QuietIn(S, c, a)
                       /\ (c < a => ToldFromFF(p, i))
  <2>1. Kept(p, i - 1, d.buf)
    BY <1>5 DEF After
  <2>2. PICK c \in Nat : c <= a /\ d.buf = Part(S, c, a) /\ QuietIn(S, c, a)
                         /\ (c < a => Told(p, i - 1))
    BY <2>1 DEF Kept
  <2>3. Told(p, i - 1) => ToldFromFF(p, i)
    <3>1. i - 1 < Len(p)
      BY <1>1
    <3> QED BY <1>1, <3>1 DEF Told
  <2> QED BY <2>2, <2>3
<1>8. d.frames \in Seq(GivenFrame)
  <2>1. g[i - 1] \in Seq(GivenFrame)
    BY <1>1
  <2>2. <<>> \o g[i - 1] = g[i - 1]
    BY <2>1, ConcatEmptySeq
  <2> QED BY <1>6, <2>1, <2>2
<1>9. i > 1 \/ a = 0
  <2>1. CASE i = 1
    <3>1. i - 1 = 0
      BY <2>1
    <3>2. EndIn(p, i - 1) = 0
      BY <1>1, <3>1
    <3> QED BY <3>2
  <2> QED BY <1>1, <2>1
<1> DEFINE b == Part(S, c, to)
           l == a - c
<1>10. Drain(Part(S, 0, to)).frames = d.frames \o Drain(b).frames
  <2> DEFINE x == Part(S, 0, a)
  <2>1. x \in Bytes
    BY <1>0, <1>2, PartIs
  <2>2. x \o y = Part(S, 0, to)
    <3>1. Part(S, 0, a) \o Part(S, a, to) = Part(S, 0, to)
      BY <1>0, <1>2, PartsJoin, ZenonT(30)
    <3> QED BY <3>1
  <2>3. d.buf \o y = b
    <3>1. c <= a
      BY <1>7
    <3>2. Part(S, c, a) \o Part(S, a, to) = Part(S, c, to)
      BY <1>0, <1>2, <3>1, PartsJoin, ZenonT(30)
    <3> QED BY <1>7, <3>2
  <2> HIDE DEF x, b
  <2>4. Drain(x \o y).frames = Drain(x).frames \o Drain(Drain(x).buf \o y).frames
    BY <1>3, <2>1, DrainInTwo
  <2> QED BY <2>2, <2>3, <2>4 DEF x
<1> HIDE DEF d, e
<1>11. b \in Bytes /\ Len(b) = to - c /\ \A k \in 1..(to - c) : b[k] = S[c + k]
  <2>1. c <= to
    BY <1>2, <1>7
  <2> QED BY <1>1, <2>1, PartIs
<1>12. l \in Nat /\ l <= Len(b)
  BY <1>2, <1>7, <1>11
<1>13. Drop(b, l) = y
  BY <1>1, <1>2, <1>7, DropOfPart
<1>14. QuietTo(b, l)
  BY <1>1, <1>2, <1>7, QuietPart
<1>15. l > 0 => b[l] = S[a] /\ i > 1 /\ c < a
  <2> SUFFICES ASSUME l > 0 PROVE b[l] = S[a] /\ i > 1 /\ c < a
    OBVIOUS
  <2>1. l \in 1..(to - c) /\ c + l = a /\ a # 0 /\ c < a
    BY <1>2, <1>7
  <2> QED BY <1>9, <1>11, <2>1
<1>16. y = <<>> \/ y[1] = p[i].bytes[1]
  <2>1. CASE to = a
    <3>1. Len(y) = 0
      BY <1>2, <1>3, <2>1
    <3> QED BY <1>3, <3>1, EmptySeq DEF Bytes
  <2>2. CASE to # a
    <3>1. Part(S, a, e) = p[i].bytes
      BY <1>1, StreamIs DEF e
    <3>2. 1 \in 1..(to - a) /\ 1 \in 1..(e - a) /\ a <= e
      BY <1>1, <1>2, <2>2
    <3>3. Part(S, a, e)[1] = S[a + 1]
      BY <1>0, <1>2, <3>2, PartIs
    <3>4. y[1] = S[a + 1]
      BY <1>3, <3>2
    <3> QED BY <3>1, <3>3, <3>4
  <2> QED BY <2>1, <2>2
<1>17. OpensFrame(b, l)
  <2>1. CASE \E k \in {1, 2} : OpensA5(y, 0, k)
    <3>1. PICK k \in {1, 2} : OpensA5(y, 0, k)
      BY <2>1
    <3>2. k = 1 /\ l > 0 => b[l] # FF
      <4> SUFFICES ASSUME k = 1, l > 0 PROVE b[l] # FF
        OBVIOUS
      <4>1. ShortAt(y, 0 + 1) /\ 0 + 1 + 2 <= Len(y)
        BY <3>1 DEF OpensA5
      <4>2. y[1] = 0 /\ y # <<>>
        <5>1. Len(<<>>) = 0
          BY EmptySeq
        <5>2. Len(y) # 0
          BY <4>1
        <5> QED BY <4>1, <5>1, <5>2 DEF ShortAt
      <4>3. ToldFromFF(p, i) /\ i > 1 /\ p[i].bytes[1] = 0
        BY <1>7, <1>15, <1>16, <4>2
      <4>4. S[a] # FF
        BY <1>1, <4>3 DEF ToldFromFF
      <4> QED BY <1>15, <4>4
    <3> HIDE DEF b, l
    <3>3. OpensA5(b, l, k)
      BY <1>11, <1>12, <1>13, <3>1, <3>2, OpensBehind
    <3> QED BY <3>3 DEF OpensFrame
  <2>2. CASE OpensChlor(y, 0)
    <3> HIDE DEF b, l
    <3>1. OpensChlor(b, l)
      BY <1>11, <1>12, <1>13, <2>2, OpensBehind
    <3> QED BY <3>1 DEF OpensFrame
  <2> QED BY <2>1, <2>2 DEF OpensFrame
<1> HIDE DEF b, l
<1>18. ~NoSync(b) /\ Sync(b).first = l + 1
  BY <1>11, <1>12, <1>14, <1>17, OpenedSync
<1>19. Drain(b) = Drain(Drop(b, l))
  BY <1>11, <1>12, <1>18, QuietSkipped
<1>20. Drain(Part(S, 0, to)).frames = d.frames \o Drain(y).frames
  BY <1>10, <1>13, <1>19
<1> QED BY <1>8, <1>20 DEF EndsLike, EndsIn

(* From within a piece on, every frame behind it is given. *)
LEMMA BehindCut ==
  ASSUME NEW p \in Plans, IsPlain(p), NEW i \in 1..Len(p),
         \A k \in 1..Len(p) : p[k].kind = "cut" => k = i,
         NEW S, S = StreamOf(p), NEW r \in Nat, EndIn(p, i - 1) < r,
         r = EndIn(p, i - 1) + 1 => S[r] # FF,
         NEW to \in Nat, r <= to, to <= Len(S),
         NEW g \in [0..Len(p) -> Seq(GivenFrame)], Sends(g, p, r, to)
  PROVE  EndsIn(Drain(Part(S, r, to)).frames, g[Len(p)])
<1> DEFINE n == Len(p)
           a == EndIn(p, i - 1)
           e == EndIn(p, i)
<1>1. /\ S \in Bytes /\ Len(S) \in Nat /\ n \in Nat /\ DOMAIN p = 1..n
      /\ i - 1 \in 0..n /\ i \in 0..n /\ EndIn(p, n) = Len(S) /\ a < e
  BY PlanEnds, BytesTyped
<1>2. a \in Nat /\ e \in Nat /\ e <= Len(S)
  BY <1>1, PlanEnds
<1>3. PICK m \in 0..Len(p) : Around(p, m, r)
  BY AroundExists
<1>4. EndIn(p, m) <= r /\ (m < n => r < EndIn(p, m + 1)) /\ EndIn(p, m) \in Nat
  BY <1>3, PlanEnds DEF Around
<1>5. i - 1 <= m
  <2> SUFFICES ASSUME m + 1 <= i - 1 PROVE FALSE
    BY <1>1
  <2>1. m + 1 \in 0..n /\ m < n
    BY <1>1
  <2>2. EndIn(p, m + 1) <= a /\ EndIn(p, m + 1) \in Nat
    BY <1>1, <2>1, PlanEnds
  <2> QED BY <1>2, <1>4, <2>1, <2>2
<1>6. \E j \in 0..n : j >= i /\ Begun(p, j, r)
  <2>1. CASE r = EndIn(p, m)
    <3>1. m # i - 1
      BY <1>2, <2>1
    <3>2. m >= i
      BY <1>1, <1>5, <3>1
    <3> QED BY <2>1, <3>2 DEF Begun
  <2>2. CASE r # EndIn(p, m)
    <3>1. m < n
      <4> SUFFICES ASSUME m = n PROVE FALSE
        BY <1>1
      <4>1. r <= EndIn(p, m)
        BY <1>1
      <4> QED BY <1>4, <2>2, <4>1
    <3> DEFINE j == m + 1
    <3>2. j \in 1..n /\ j - 1 = m /\ j \in 0..n /\ j > 0 /\ j >= i
      BY <1>1, <1>5, <3>1
    <3>3. r < EndIn(p, j) /\ EndIn(p, m) < r
      BY <1>4, <2>2, <3>1
    <3> HIDE DEF j
    <3>4. EndIn(p, j - 1) < r
      BY <3>2, <3>3
    <3>5. CASE j # i
      <4>1. p[j].kind # "cut"
        BY <3>2, <3>5
      <4>2. Straddles(p, r, j)
        BY <3>2, <3>3, <3>4, <4>1, PlainStraddle
      <4> QED BY <3>2, <4>2 DEF Begun
    <3>6. CASE j = i
      <4>1. Told(p, j)
        <5>1. j < Len(p) => j + 1 \in DOMAIN p
          BY <1>1, <3>2
        <5> QED BY <5>1 DEF IsPlain, Told
      <4>2. QuietIn(S, r, e)
        <5> SUFFICES ASSUME NEW q \in (r + 1)..e, SyncAt(S, q) PROVE FALSE
          BY DEF QuietIn
        <5>1. q \in Nat /\ a < q /\ q <= e /\ r < q
          BY <1>2
        <5>2. q = a + 1 \/ (q = a + 2 /\ S[a + 1] = FF)
          BY <5>1, PlainSyncs
        <5>3. r = a + 1 /\ S[a + 1] = FF
          BY <1>2, <5>1, <5>2
        <5>4. S[r] # FF
          BY <5>3
        <5> QED BY <5>3, <5>4
      <4>3. Straddles(p, r, j)
        BY <3>3, <3>4, <3>6, <4>1, <4>2 DEF Straddles
      <4> QED BY <3>2, <4>3 DEF Begun
    <3> QED BY <3>5, <3>6
  <2> QED BY <2>1, <2>2
<1>7. PICK j \in 0..n : j >= i /\ Begun(p, j, r)
  BY <1>6
<1>8. RegularAfter(p, j)
  <2> SUFFICES ASSUME NEW k \in (j + 1)..Len(p) PROVE Regular(p, k)
    BY DEF RegularAfter
  <2>1. k \in 1..Len(p) /\ k # i
    BY <1>1, <1>7
  <2>2. p[k].kind # "cut"
    BY <2>1
  <2> QED BY <2>1, <2>2, RegularPieces
<1>9. GivesAll(p, g, j, r, to)
  BY <1>7, <1>8, GivenFrom
<1> QED BY <1>9 DEF GivesAll, EndsIn

LEMMA EndsInMore ==
  ASSUME NEW r \in Seq(GivenFrame), NEW s, NEW t, EndsIn(t, s), EndsIn(s, r)
  PROVE  EndsIn(t, r)
<1>1. PICK u \in Seq(GivenFrame) : t = u \o s
  BY DEF EndsIn
<1>2. PICK v \in Seq(GivenFrame) : s = v \o r
  BY DEF EndsIn
<1>3. u \o v \in Seq(GivenFrame)
  BY ConcatProperties
<1>4. (u \o v) \o r = u \o (v \o r)
  BY ConcatAssociative
<1>5. t = (u \o v) \o r
  BY <1>1, <1>2, <1>4
<1> QED BY <1>3, <1>5 DEF EndsIn
-----------------------------------------------------------------------------
(* The framer fed the stream, whatever the reads and the resets.             *)

(* What holds between two calls, without the bound on what out holds.        *)
Fed ==
  /\ plan \in Plans /\ pos \in 0..Len(Stream)
  /\ start \in Seq(0..pos) /\ Len(start) \in 1..(MaxResets + 1)
  /\ ChunkingIrrelevant

LEMMA SessionIs ==
  ASSUME plan \in Plans, pos \in 0..Len(Stream), start \in Seq(0..pos), Len(start) >= 1
  PROVE  /\ Stream \in Bytes /\ Last(start) \in 0..pos
         /\ Session \in Bytes /\ Len(Session) = pos - Last(start)
<1>1. Stream \in Bytes
  BY FramerAssumption, StreamTyped DEF Stream
<1>2. Len(Stream) \in Nat /\ pos \in Nat /\ pos <= Len(Stream)
  BY <1>1, BytesTyped
<1>3. Last(start) \in 0..pos
  <2>1. Len(start) \in 1..Len(start)
    OBVIOUS
  <2> QED BY <2>1, ElementOfSeq DEF Last
<1> DEFINE i == Last(start)
<1>4. i \in Nat /\ i <= pos
  BY <1>2, <1>3
<1> HIDE DEF i
<1>5. SubSeq(Stream, i + 1, pos) \in Bytes /\ Len(SubSeq(Stream, i + 1, pos)) = pos - i
  BY <1>1, <1>2, <1>4, PartOfStream
<1> QED BY <1>1, <1>3, <1>5 DEF Session, i

LEMMA FedAtFirst == FramerInit => Fed
<1> SUFFICES ASSUME FramerInit PROVE Fed
  OBVIOUS
<1>1. plan \in Plans /\ pos = 0 /\ buf = <<>> /\ out = <<>> /\ start = <<0>>
  BY DEF FramerInit
<1>2. Stream \in Bytes
  BY <1>1, FramerAssumption, StreamTyped DEF Stream
<1>3. pos \in 0..Len(Stream)
  BY <1>1, <1>2, BytesTyped
<1>4. start \in Seq(0..pos) /\ Len(start) = 1 /\ start[1] = 0
  BY <1>1
<1>5. Len(start) \in 1..(MaxResets + 1) /\ Last(start) = 0
  BY <1>4, FramerAssumption DEF Last
<1>6. Session = <<>>
  <2>1. SubSeq(Stream, 0 + 1, 0) = <<>>
    BY SubSeqEmpty
  <2> QED BY <1>1, <1>5, <2>1 DEF Session
<1>7. ChunkingIrrelevant
  BY <1>1, <1>6, DrainOfNothing DEF ChunkingIrrelevant
<1> QED BY <1>1, <1>3, <1>4, <1>5, <1>7 DEF Fed

LEMMA FedStays == Fed /\ [FramerNext]_framerVars => Fed'
<1> SUFFICES ASSUME Fed, [FramerNext]_framerVars PROVE Fed'
  OBVIOUS
<1>1. /\ plan \in Plans /\ pos \in 0..Len(Stream)
      /\ start \in Seq(0..pos) /\ Len(start) \in 1..(MaxResets + 1) /\ Len(start) >= 1
      /\ out = Drain(Session).frames /\ buf = Drain(Session).buf
  BY DEF Fed, ChunkingIrrelevant
<1>2. /\ Stream \in Bytes /\ Last(start) \in 0..pos
      /\ Session \in Bytes /\ Len(Session) = pos - Last(start)
  BY <1>1, SessionIs
<1>3. Len(Stream) \in Nat /\ pos \in Nat /\ pos <= Len(Stream) /\ MaxResets \in Nat
  BY <1>1, <1>2, BytesTyped, FramerAssumption
<1>4. ASSUME Feed PROVE Fed'
  <2>1. PICK n \in 1..(Len(Stream) - pos) :
          LET drained == Drain(buf \o SubSeq(Stream, pos + 1, pos + n))
          IN  /\ pos' = pos + n
              /\ buf' = drained.buf /\ out' = out \o drained.frames
              /\ UNCHANGED <<plan, start>>
    BY <1>4 DEF Feed
  <2> DEFINE c == SubSeq(Stream, pos + 1, pos + n)
             q == pos + n
  <2>2. plan' = plan /\ start' = start /\ pos' = q
    BY <2>1
  <2>3. Stream' = Stream
    BY <2>2 DEF Stream
  <2>4. q \in Nat /\ pos <= q /\ q <= Len(Stream)
    BY <1>3
  <2>5. c \in Bytes
    <3> HIDE DEF q
    <3> SUFFICES SubSeq(Stream, pos + 1, q) \in Bytes
      BY DEF q
    <3> QED BY <1>2, <1>3, <2>4, PartOfStream
  <2>6. Session' = Session \o c
    <3> DEFINE i == Last(start)
               m == i + 1
    <3>1. m \in 1..(Len(Stream) + 1) /\ m - 1 = i /\ i <= pos /\ i \in Nat
      BY <1>2, <1>3
    <3>2. Last(start') = i
      BY <2>2
    <3> HIDE DEF i
    <3>3. pos \in (m - 1)..Len(Stream) /\ q \in pos..Len(Stream)
      BY <1>3, <2>4, <3>1
    <3> HIDE DEF m, q
    <3>4. SubSeq(Stream, m, pos) \o SubSeq(Stream, pos + 1, q) = SubSeq(Stream, m, q)
      BY <1>2, <3>1, <3>3, ConcatAdjacentSubSeq DEF Bytes
    <3>5. Session = SubSeq(Stream, m, pos) /\ c = SubSeq(Stream, pos + 1, q)
      BY DEF Session, i, m, q
    <3>6. Session' = SubSeq(Stream, m, q)
      BY <2>2, <2>3, <3>2 DEF Session, m
    <3> QED BY <3>4, <3>5, <3>6
  <2> HIDE DEF c, q
  <2>7. buf' = Drain(buf \o c).buf /\ out' = out \o Drain(buf \o c).frames
    BY <2>1 DEF c
  <2>8. Drain(Session \o c).buf = Drain(Drain(Session).buf \o c).buf
        /\ Drain(Session \o c).frames
           = Drain(Session).frames \o Drain(Drain(Session).buf \o c).frames
    BY <1>2, <2>5, DrainInTwo
  <2>9. ChunkingIrrelevant'
    <3>1. out' = Drain(Session').frames /\ buf' = Drain(Session').buf
      BY <1>1, <2>6, <2>7, <2>8
    <3> QED BY <3>1 DEF ChunkingIrrelevant
  <2>10. q \in 0..Len(Stream) /\ 0..pos \subseteq 0..q
    BY <1>3, <2>4
  <2>11. start \in Seq(0..q)
    BY <1>1, <2>10
  <2> QED BY <1>1, <2>2, <2>3, <2>9, <2>10, <2>11 DEF Fed
<1>5. ASSUME Reset PROVE Fed'
  <2>1. /\ Len(start) <= MaxResets /\ pos \in 1..(Len(Stream) - 1)
        /\ buf' = <<>> /\ out' = <<>> /\ start' = Append(start, pos)
        /\ plan' = plan /\ pos' = pos
    BY <1>5 DEF Reset
  <2>2. Stream' = Stream
    BY <2>1 DEF Stream
  <2>3. /\ start' \in Seq(0..pos) /\ Len(start') = Len(start) + 1
        /\ start'[Len(start) + 1] = pos
    <3>1. pos \in 0..pos
      BY <1>3
    <3> QED BY <1>1, <2>1, <3>1, AppendProperties
  <2>4. Len(start') \in 1..(MaxResets + 1)
    <3>1. Len(start) \in Nat
      BY <1>1
    <3> QED BY <1>3, <2>1, <2>3, <3>1
  <2>5. Last(start') = pos
    BY <2>3 DEF Last
  <2>6. Session' = <<>>
    <3>1. SubSeq(Stream, pos + 1, pos) = <<>>
      BY <1>3, SubSeqEmpty
    <3> QED BY <2>1, <2>2, <2>5, <3>1 DEF Session
  <2>7. ChunkingIrrelevant'
    BY <2>1, <2>6, DrainOfNothing DEF ChunkingIrrelevant
  <2> QED BY <1>1, <2>1, <2>2, <2>3, <2>4, <2>7 DEF Fed
<1>6. ASSUME UNCHANGED framerVars PROVE Fed'
  BY <1>6 DEF Fed, framerVars, ChunkingIrrelevant, Session, Stream
<1> QED BY <1>4, <1>5, <1>6 DEF FramerNext

LEMMA FedGives == Fed => FramerTypes /\ LessThanOneFrameWaits
<1> SUFFICES ASSUME Fed PROVE FramerTypes /\ LessThanOneFrameWaits
  OBVIOUS
<1>1. /\ plan \in Plans /\ pos \in 0..Len(Stream)
      /\ start \in Seq(0..pos) /\ Len(start) \in 1..(MaxResets + 1) /\ Len(start) >= 1
      /\ out = Drain(Session).frames /\ buf = Drain(Session).buf
  BY DEF Fed, ChunkingIrrelevant
<1>2. Session \in Bytes
  BY <1>1, SessionIs
<1> DEFINE s == Drain(Session)
<1>3. s \in States /\ Turn(s) = s /\ Len(s.buf) <= Len(Session)
  BY <1>2, DrainIsFinal
<1>4. buf = s.buf /\ out = s.frames
  BY <1>1
<1> HIDE DEF s
<1>5. out \in Seq(GivenFrame)
  BY <1>3, <1>4 DEF States
<1>6. \A k \in DOMAIN out : out[k].kind \in {"A5", "IntelliChlor"}
  <2>1. \A k \in DOMAIN out : out[k] \in GivenFrame
    BY <1>5, ElementOfSeq
  <2> QED BY <2>1 DEF GivenFrame
<1>7. FramerTypes
  BY <1>1, <1>3, <1>4, <1>6 DEF FramerTypes
<1>8. LessThanOneFrameWaits
  BY <1>3, <1>4, LittleWaits DEF LessThanOneFrameWaits
<1> QED BY <1>7, <1>8

(* The frames given are those sent, and no others but one that a reset cut.  *)
LEMMA FedWhole == Fed => WholeFramesGiven
<1> SUFFICES ASSUME Fed, \A i \in DOMAIN plan : plan[i].kind # "cut"
             PROVE  LET sent == SentSince(Last(start))
                    IN  /\ start = <<0>> => out = sent
                        /\ IsPlain(plan) => IsSuffix(sent, out) /\ Len(out) <= Len(sent) + 1
  BY DEF WholeFramesGiven
<1> DEFINE p == plan
           S == StreamOf(p)
           l == Last(start)
           n == Len(p)
<1>1. plan \in Plans /\ pos \in 0..Len(Stream) /\ start \in Seq(0..pos) /\ Len(start) >= 1
  BY DEF Fed
<1>2. p \in Plans /\ Stream = S /\ S \in Bytes /\ Len(S) \in Nat /\ n \in Nat
      /\ DOMAIN p = 1..n /\ EndIn(p, 0) = 0 /\ EndIn(p, n) = Len(S)
  BY <1>1, PlanEnds, BytesTyped DEF Stream
<1>3. l \in Nat /\ pos \in Nat /\ l <= pos /\ pos <= Len(S)
  <2>1. l \in 0..pos
    BY <1>1, SessionIs
  <2> HIDE DEF l
  <2> QED BY <1>1, <1>2, <2>1
<1>4. out = Drain(Part(S, l, pos)).frames
  BY DEF Fed, ChunkingIrrelevant, Session, Stream, Part
<1>5. PICK g \in [0..n -> Seq(GivenFrame)] : Sends(g, p, l, pos) /\ SentSince(l) = g[n]
  BY <1>1, SentIs
<1>6. \A i \in 1..n : Regular(p, i)
  BY <1>2, RegularPieces
<1>7. g[n] \in Seq(GivenFrame)
  BY <1>2
<1> HIDE DEF p, S, n, l
<1>8. ASSUME NEW j \in 0..n, Begun(p, j, l)
      PROVE  \E xs \in Seq(GivenFrame) :
               Len(xs) <= 1 /\ (l = EndIn(p, j) => xs = <<>>) /\ out = xs \o g[n]
  <2>1. RegularAfter(p, j)
    <3>1. \A i \in (j + 1)..n : i \in 1..n
      BY <1>2
    <3> QED BY <1>6, <3>1 DEF RegularAfter, n
  <2>2. GivesAll(p, g, j, l, pos)
    BY <1>2, <1>3, <1>5, <1>8, <2>1, GivenFrom DEF n, S
  <2> QED BY <1>4, <2>2 DEF GivesAll, n, S
<1>9. start = <<0>> => out = g[n]
  <2> SUFFICES ASSUME start = << 0 >> PROVE out = g[n]
    OBVIOUS
  <2>1. l = 0 /\ 0 \in 0..n
    BY <1>2 DEF Last, l
  <2>2. l = EndIn(p, 0)
    BY <1>2, <2>1
  <2>3. PICK xs \in Seq(GivenFrame) : xs = <<>> /\ out = xs \o g[n]
    BY <1>8, <2>1, <2>2 DEF Begun
  <2> QED BY <1>7, <2>3, ConcatEmptySeq
<1>10. IsPlain(p) => \E j \in 0..n : Begun(p, j, l)
  <2> SUFFICES ASSUME IsPlain(p)
               PROVE  \E j \in 0..n : Begun(p, j, l)
    OBVIOUS
  <2>1. PICK m \in 0..Len(p) : Around(p, m, l)
    BY <1>2, <1>3, AroundExists
  <2>2. EndIn(p, m) <= l /\ (m < n => l < EndIn(p, m + 1)) /\ m \in 0..n /\ EndIn(p, m) \in Nat
    BY <1>2, <2>1, PlanEnds DEF Around, n
  <2>3. CASE l = EndIn(p, m)
    BY <2>2, <2>3 DEF Begun
  <2>4. CASE l # EndIn(p, m)
    <3>1. m < n
      <4> SUFFICES ASSUME m = n PROVE FALSE
        BY <1>2, <2>2
      <4> QED BY <1>2, <1>3, <2>2, <2>4
    <3> DEFINE j == m + 1
    <3>2. j \in 1..n /\ j - 1 = m /\ j \in 0..n /\ j > 0
      BY <1>2, <2>2, <3>1
    <3>3. l < EndIn(p, j) /\ EndIn(p, m) < l
      BY <1>3, <2>2, <2>4, <3>1
    <3> HIDE DEF j
    <3>4. EndIn(p, j - 1) < l
      BY <3>2, <3>3
    <3>5. p[j].kind # "cut"
      BY <1>2, <3>2 DEF p
    <3>6. Straddles(p, l, j)
      BY <1>2, <1>3, <3>2, <3>3, <3>4, <3>5, PlainStraddle DEF n
    <3> QED BY <3>2, <3>6 DEF Begun
  <2> QED BY <2>3, <2>4
<1>11. IsPlain(p) => IsSuffix(g[n], out) /\ Len(out) <= Len(g[n]) + 1
  <2> SUFFICES ASSUME IsPlain(p) PROVE IsSuffix(g[n], out) /\ Len(out) <= Len(g[n]) + 1
    OBVIOUS
  <2>1. PICK xs \in Seq(GivenFrame) : Len(xs) <= 1 /\ out = xs \o g[n]
    BY <1>8, <1>10
  <2>2. IsSuffix(g[n], out) /\ Len(out) = Len(xs) + Len(g[n])
    BY <1>7, <2>1, SuffixOfJoin
  <2> DEFINE w == g[n]
  <2>3. Len(w) \in Nat /\ Len(xs) \in Nat /\ Len(out) = Len(xs) + Len(w)
    BY <1>7, <2>2
  <2> HIDE DEF w
  <2>4. Len(out) <= Len(w) + 1
    BY <2>1, <2>3
  <2> QED BY <2>2, <2>4 DEF w
<1> QED BY <1>5, <1>9, <1>11 DEF p, l, n

(* A cut piece costs the frames that lie before its horizon, and no others. *)
LEMMA FedResynchronises == Fed => Resynchronises
<1> SUFFICES ASSUME Fed, start = << 0 >>, IsPlain(plan), NEW i \in DOMAIN plan,
                    {k \in DOMAIN plan : plan[k].kind = "cut"} = {i}
             PROVE  IsSuffix(SentSince(Horizon(i)), out)
  BY DEF Resynchronises
<1> DEFINE p == plan
           S == StreamOf(p)
           n == Len(p)
           h == Horizon(i)
           a == EndIn(p, i - 1)
           G == Seq(GivenFrame)
<1>1. plan \in Plans /\ pos \in 0..Len(Stream)
  BY DEF Fed
<1>2. /\ p \in Plans /\ Stream = S /\ S \in Bytes /\ Len(S) \in Nat /\ n \in Nat
      /\ DOMAIN p = 1..n /\ EndIn(p, 0) = 0 /\ i \in 1..n /\ i \in 0..n /\ i - 1 \in 0..n
      /\ a \in Nat /\ a <= Len(S) /\ pos \in Nat /\ pos <= Len(S)
  <2>1. p \in Plans /\ Stream = S /\ S \in Bytes /\ Len(S) \in Nat /\ n \in Nat
        /\ DOMAIN p = 1..n /\ EndIn(p, 0) = 0
    BY <1>1, PlanEnds, BytesTyped DEF Stream
  <2>2. i \in 1..n /\ i \in 0..n /\ i - 1 \in 0..n
    BY <2>1
  <2>3. a \in Nat /\ a <= Len(S)
    BY <2>1, <2>2, PlanEnds
  <2>4. pos \in Nat /\ pos <= Len(S)
    BY <1>1, <2>1
  <2> QED BY <2>1, <2>2, <2>3, <2>4
<1>3. /\ p[i].kind = "cut"
      /\ \A k \in 1..n : p[k].kind = "cut" => k = i
  <2>1. \A k \in DOMAIN p : p[k].kind = "cut" <=> k = i
    OBVIOUS
  <2> QED BY <1>2, <2>1
<1>4. out = Drain(Part(S, 0, pos)).frames
  <2>1. Last(start) = 0
    BY DEF Last
  <2> QED BY <2>1 DEF Fed, ChunkingIrrelevant, Session, Stream, Part
<1>5. out \in G
  <2>1. 0 <= pos
    BY <1>2
  <2>2. Part(S, 0, pos) \in Bytes
    BY <1>2, <2>1, PartIs
  <2> DEFINE x == Part(S, 0, pos)
  <2> HIDE DEF x
  <2>3. Drain(x).frames \in G
    BY <2>2, DrainIsFinal DEF States, x
  <2> QED BY <1>4, <2>3 DEF x
<1>6. h \in Nat /\ h >= a + IcMax /\ IcMax \in Nat /\ IcMax > 8
  BY <1>1, HorizonIs, FramerAssumption
<1>7. PICK f \in [0..n -> G] : Sends(f, p, h, pos) /\ SentSince(h) = f[n]
  BY <1>1, SentIs
<1>8. f[n] \in G
  <2>1. n \in 0..n
    BY <1>2
  <2> QED BY <2>1, Zenon
<1> HIDE DEF h, S, n, a, G
<1>9. EndsIn(out, f[n])
  <2>1. CASE pos < h
    <3>1. f[n] = <<>>
      BY <1>2, <1>6, <1>7, <2>1, NothingSent DEF n
    <3>2. out = out \o <<>>
      BY <1>5, ConcatEmptySeq DEF G
    <3> QED BY <1>5, <3>1, <3>2 DEF EndsIn, G
  <2>2. CASE h <= pos
    <3> DEFINE y == Part(S, a, pos)
    <3>1. PICK g \in [0..n -> G] : Sends(g, p, 0, pos)
      BY <1>1, SentIs DEF n, G
    <3>2. a <= pos /\ a + 4 <= pos
      BY <1>2, <1>6, <2>2
    <3>3. CASE OpensFrame(y, 0)
      <4>1. EndsLike(Part(S, 0, pos), y)
        <5>1. RegularUpTo(p, i - 1)
          <6> SUFFICES ASSUME NEW k \in 1..(i - 1) PROVE Regular(p, k)
            BY DEF RegularUpTo
          <6>1. k \in 1..Len(p) /\ k # i
            BY <1>2 DEF n
          <6>2. p[k].kind # "cut"
            BY <1>3, <6>1 DEF n
          <6> QED BY <1>2, <6>1, <6>2, RegularPieces
        <5>2. p[i].kind # "noise" /\ i \in 1..Len(p)
          BY <1>2, <1>3 DEF n
        <5> HIDE DEF p, y
        <5>3. S = StreamOf(p) /\ a = EndIn(p, i - 1) /\ y = Part(S, a, pos)
          BY DEF S, a, y
        <5> QED BY <1>2, <3>1, <3>2, <3>3, <5>1, <5>2, <5>3, UpToCut DEF n, G
      <4>2. PICK r \in Nat : /\ a < r /\ r <= pos /\ r <= h /\ (r = a + 1 => S[r] # FF)
                             /\ EndsLike(y, Part(S, r, pos))
        <5> HIDE DEF y
        <5>1. S = StreamOf(plan) /\ a = EndIn(plan, i - 1) /\ y = Part(S, a, pos)
          BY DEF S, a, y
        <5> QED BY <1>1, <1>2, <2>2, <3>3, <5>1, CutLeft DEF h
      <4>3. PICK e \in [0..n -> G] : Sends(e, p, r, pos)
        BY <1>1, SentIs DEF n, G
      <4>4. EndsIn(Drain(Part(S, r, pos)).frames, e[n])
        <5>1. EndIn(p, i - 1) < r /\ (r = EndIn(p, i - 1) + 1 => S[r] # FF)
          BY <4>2 DEF a
        <5>2. S = StreamOf(p) /\ IsPlain(p)
          BY DEF S
        <5>3. r <= pos
          BY <4>2
        <5> HIDE DEF p
        <5>4. EndsIn(Drain(Part(S, r, pos)).frames, e[Len(p)])
          BY <1>2, <1>3, <4>3, <5>1, <5>2, <5>3, BehindCut DEF n, G
        <5> QED BY <5>4 DEF n
      <4>5. EndsIn(e[n], f[n])
        <5>1. EndsIn(e[Len(p)], f[Len(p)])
          BY <1>2, <1>6, <1>7, <4>2, <4>3, FewerSent DEF n, G
        <5> QED BY <5>1 DEF n
      <4>6. EndsIn(out, Drain(y).frames) /\ EndsIn(Drain(y).frames, Drain(Part(S, r, pos)).frames)
        BY <1>4, <4>1, <4>2 DEF EndsIn, EndsLike
      <4>7. e[n] \in Seq(GivenFrame) /\ f[n] \in Seq(GivenFrame)
        BY <1>2, <1>8 DEF G
      <4>8. EndsIn(Drain(Part(S, r, pos)).frames, f[n])
        BY <4>4, <4>5, <4>7, EndsInMore
      <4>9. EndsIn(Drain(y).frames, f[n])
        BY <4>6, <4>7, <4>8, EndsInMore
      <4> QED BY <4>6, <4>7, <4>9, EndsInMore
    <3>4. CASE ~OpensFrame(y, 0)
      <4>1. Calm(p, i)
        <5>1. S = StreamOf(p) /\ a = EndIn(p, i - 1) /\ i \in 1..Len(p) /\ IsPlain(p)
          BY <1>2 DEF S, a, n
        <5> HIDE DEF p
        <5> QED BY <1>2, <3>2, <3>4, <5>1, CutQuiet
      <4>2. Told(p, i)
        <5>1. i < Len(p) => i + 1 \in DOMAIN p
          BY <1>2 DEF n
        <5> QED BY <5>1 DEF IsPlain, Told
      <4>3. RegularAfter(p, 0)
        <5> SUFFICES ASSUME NEW k \in (0 + 1)..Len(p) PROVE Regular(p, k)
          BY DEF RegularAfter
        <5>1. k \in 1..Len(p)
          OBVIOUS
        <5>2. CASE k = i
          BY <4>1, <4>2, <5>2 DEF Regular
        <5>3. CASE k # i
          <6>1. p[k].kind # "cut"
            BY <1>3, <5>1, <5>3 DEF n
          <6> QED BY <1>2, <5>1, <6>1, RegularPieces
        <5> QED BY <5>2, <5>3
      <4>4. GivesAll(p, g, 0, 0, pos)
        <5>1. Begun(p, 0, 0) /\ 0 \in Nat /\ 0 <= pos /\ 0 \in 0..Len(p) /\ pos <= Len(StreamOf(p))
          BY <1>2 DEF Begun, S, n
        <5> HIDE DEF p
        <5> QED BY <1>2, <3>1, <4>3, <5>1, GivenFrom DEF n, G
      <4>5. EndsIn(out, g[n])
        BY <1>4, <4>4 DEF GivesAll, EndsIn, S, n
      <4>6. EndsIn(g[n], f[n])
        <5>1. 0 <= h /\ 0 \in Nat
          BY <1>6
        <5> HIDE DEF p
        <5>2. EndsIn(g[Len(p)], f[Len(p)])
          BY <1>2, <1>6, <1>7, <3>1, <5>1, FewerSent DEF n, G
        <5> QED BY <5>2 DEF n
      <4> QED BY <1>8, <4>5, <4>6, EndsInMore DEF G
    <3> QED BY <3>3, <3>4
  <2>3. pos < h \/ h <= pos
    BY <1>2, <1>6
  <2> QED BY <2>1, <2>2, <2>3
<1>10. PICK u \in Seq(GivenFrame) : out = u \o f[n]
  BY <1>9 DEF EndsIn
<1>11. IsSuffix(f[n], out)
  BY <1>8, <1>10, SuffixOfJoin DEF G
<1> QED BY <1>7, <1>11 DEF h

(* However a transport cuts the bytes of a connection into reads, the frames *)
(* that Framer::feed has given are those of the same bytes fed at once, and  *)
(* so is what waits in the buffer: for any stream and any reconnects.        *)
THEOREM FramesWhateverTheReads == FramerSpec => []ChunkingIrrelevant
<1>1. FramerSpec => []Fed
  BY FedAtFirst, FedStays, PTL DEF FramerSpec
<1>2. Fed => ChunkingIrrelevant
  BY DEF Fed
<1> QED BY <1>1, <1>2, PTL

(* When a feed returns, less than one frame waits in the buffer: drain has   *)
(* given every frame that was there, noise or a lost end does not pile up.   *)
THEOREM LittleIsKept == FramerSpec => []LessThanOneFrameWaits
<1>1. FramerSpec => []Fed
  BY FedAtFirst, FedStays, PTL DEF FramerSpec
<1> QED BY <1>1, FedGives, PTL

(* The framer's buffer holds no more than the connection brought, and what   *)
(* it has given are A5 and IntelliChlor frames.                              *)
THEOREM FramerTyped == FramerSpec => []FramerTypes
<1>1. FramerSpec => []Fed
  BY FedAtFirst, FedStays, PTL DEF FramerSpec
<1> QED BY <1>1, FedGives, PTL

(* Every frame that a bus of frames and idle bytes carries whole within a      *)
(* connection is given once, in order and with its own bytes and verdict,     *)
(* whatever bytes its payload has; a connection that begins in a frame gives  *)
(* one more at most, that frame without its leading FF.                      *)
THEOREM EveryWholeFrameGiven == FramerSpec => []WholeFramesGiven
<1>1. FramerSpec => []Fed
  BY FedAtFirst, FedStays, PTL DEF FramerSpec
<1> QED BY <1>1, FedWhole, PTL

(* A frame cut short hides what lies up to its horizon, the length that it    *)
(* announces or IC_MAX_FRAME bytes, and nothing behind it.                   *)
THEOREM ACutCostsItsHorizon == FramerSpec => []Resynchronises
<1>1. FramerSpec => []Fed
  BY FedAtFirst, FedStays, PTL DEF FramerSpec
<1> QED BY <1>1, FedResynchronises, PTL
=============================================================================
