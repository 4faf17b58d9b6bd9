--------------------------- MODULE JournalProofs ---------------------------
(* Proofs about Journal, for any bound on the size of the file, any interval *)
(* between vacuums, and any number of records and faults.                    *)
EXTENDS Journal, InductionFacts, SequenceTheorems, FiniteSetTheorems

Cells == [rec : Nat, part : Parts]

LEMMA ConstantsTyped ==
  /\ NoTrim \notin Nat /\ MaxBytes \in Nat \cup {NoTrim} /\ Retains \in BOOLEAN
  /\ VacuumEvery \in Nat /\ VacuumEvery > 0 /\ MaxAppends \in Nat /\ MaxFaults \in Nat
  BY JournalAssumption DEF Retains

(* What the numbers of two sets of cells have in common with their union.    *)
LEMMA CellsGrow ==
  ASSUME NEW a \in Nat, NEW b \in Nat, a <= b, NEW d \in Seq([rec : 0..a, part : Parts])
  PROVE  d \in Seq([rec : 0..b, part : Parts])
<1>1. 0..a \subseteq 0..b
  OBVIOUS
<1>2. [rec : 0..a, part : Parts] \subseteq [rec : 0..b, part : Parts]
  BY <1>1
<1> QED BY <1>2, SeqMonotonic

LEMMA TextTyped ==
  ASSUME NEW a \in Nat, NEW r \in 0..a
  PROVE  /\ Text(r) \in Seq([rec : 0..a, part : Parts])
         /\ Len(Text(r)) = 3
         /\ \A n \in 1..2 : /\ SubSeq(Text(r), 1, n) \in Seq([rec : 0..a, part : Parts])
                            /\ Len(SubSeq(Text(r), 1, n)) = n
  BY DEF Text, Cell, Parts

LEMMA FixedTyped ==
  ASSUME NEW a \in Nat
  PROVE  /\ Header \in Seq([rec : 0..a, part : Parts]) /\ Len(Header) = 2
         /\ Newline \in [rec : 0..a, part : Parts]
         /\ <<Newline>> \in Seq([rec : 0..a, part : Parts]) /\ Len(<<Newline>>) = 1
         /\ <<Head(Header)>> \in Seq([rec : 0..a, part : Parts]) /\ Len(<<Head(Header)>>) = 1
  BY DEF Header, Newline, Cell, Parts

(* The first newline is where it is found; none is found at 0.               *)
LEMMA NewlineFound ==
  ASSUME NEW t \in Seq(Cells), NEW nl, nl = FirstNewline(t)
  PROVE  \/ /\ nl = 0 /\ \A i \in 1..Len(t) : t[i] # Newline
         \/ /\ nl \in 1..Len(t) /\ t[nl] = Newline
            /\ \A i \in 1..(nl - 1) : t[i] # Newline
<1> DEFINE I == {i \in 1..Len(t) : t[i] = Newline}
<1>1. nl = IF I # {} THEN Min(I) ELSE 0
  BY DEF FirstNewline, SelectInSeq
<1>2. CASE I = {}
  BY <1>1, <1>2
<1>3. CASE I # {}
  <2>1. I \subseteq Nat
    OBVIOUS
  <2>2. \E x \in I : \A y \in I : x <= y
    <3> HIDE DEF I
    <3> QED BY <1>3, <2>1, LeastNatural
  <2>3. nl \in I /\ \A y \in I : nl <= y
    <3> HIDE DEF I
    <3> QED BY <1>1, <1>3, <2>2 DEF Min
  <2>4. \A i \in 1..(nl - 1) : i \in 1..Len(t) /\ ~(nl <= i)
    <3>1. Len(t) \in Nat /\ nl \in 1..Len(t)
      BY <2>3
    <3> QED BY <3>1
  <2> QED BY <2>3, <2>4
<1> QED BY <1>2, <1>3

(* A trimmed file is no longer than max_bytes and a header.                  *)
LEMMA TrimTyped ==
  ASSUME NEW C, Header \in Seq(C), C \subseteq Cells,
         NEW d \in Seq(C), MaxBytes \in Nat, Len(d) > MaxBytes
  PROVE  Trim(d) \in Seq(C) /\ Len(Trim(d)) <= MaxBytes + 2
<1> DEFINE tail == SubSeq(d, Len(d) - MaxBytes + 1, Len(d))
           nl   == FirstNewline(tail)
           kept == SubSeq(tail, nl + 1, MaxBytes)
<1>0. Len(d) \in Nat /\ Len(Header) = 2
  BY DEF Header
<1>1. tail \in Seq(C) /\ Len(tail) = MaxBytes
  <2>1. \A i \in (Len(d) - MaxBytes + 1)..Len(d) : d[i] \in C
    <3>1. \A i \in (Len(d) - MaxBytes + 1)..Len(d) : i \in 1..Len(d)
      BY <1>0
    <3> QED BY <3>1, ElementOfSeq
  <2>2. Len(d) - MaxBytes + 1 \in Int /\ Len(d) \in Int
    BY <1>0
  <2>3. /\ tail \in Seq(C)
        /\ Len(tail) = IF Len(d) - MaxBytes + 1 <= Len(d)
                       THEN Len(d) - (Len(d) - MaxBytes + 1) + 1 ELSE 0
    BY <2>1, <2>2, SubSeqProperties
  <2> HIDE DEF tail
  <2> QED BY <1>0, <2>3
<1>2. nl \in 0..MaxBytes
  <2>1. tail \in Seq(Cells)
    BY <1>1, SeqMonotonic, Zenon
  <2>2. nl = 0 \/ nl \in 1..Len(tail)
    BY <2>1, NewlineFound
  <2> HIDE DEF tail, nl
  <2> QED BY <1>1, <2>2
<1>3. kept \in Seq(C) /\ Len(kept) <= MaxBytes
  <2> HIDE DEF nl, tail
  <2>1. \A i \in (nl + 1)..MaxBytes : tail[i] \in C
    <3>1. \A i \in (nl + 1)..MaxBytes : i \in 1..Len(tail)
      BY <1>1, <1>2
    <3> QED BY <1>1, <3>1, ElementOfSeq
  <2>2. nl + 1 \in Int /\ MaxBytes \in Int
    BY <1>2
  <2>3. /\ kept \in Seq(C)
        /\ Len(kept) = IF nl + 1 <= MaxBytes THEN MaxBytes - (nl + 1) + 1 ELSE 0
    BY <2>1, <2>2, SubSeqProperties
  <2> HIDE DEF kept
  <2> QED BY <1>2, <2>3
<1>4. Trim(d) = Header \o kept
  BY DEF Trim
<1> HIDE DEF kept
<1>5. Trim(d) \in Seq(C) /\ Len(Trim(d)) = Len(Header) + Len(kept)
  BY <1>3, <1>4, ConcatProperties
<1>6. Len(kept) \in Nat
  BY <1>3, LenProperties
<1> QED BY <1>0, <1>3, <1>5, <1>6

(* Records are numbered in the order they are appended, and the file is      *)
(* always of cells of records that were.                                     *)
LEMMA InitTypeOK == Init => TypeOK
<1> SUFFICES ASSUME Init PROVE TypeOK
  OBVIOUS
<1>1. disk \in Seq([rec : 0..attempt, part : Parts])
  BY DEF Init
<1>2. since < VacuumEvery
  BY ConstantsTyped DEF Init
<1> QED BY <1>1, <1>2, ConstantsTyped DEF Init, TypeOK

LEMMA RecordsTyped ==
  ASSUME NEW a \in Nat, NEW d \in Seq([rec : 0..a, part : Parts])
  PROVE  RecordsIn(d) \subseteq 1..a
<1>0. \A i \in DOMAIN d : d[i] \in [rec : 0..a, part : Parts]
  BY ElementOfSeq, LenProperties
<1>1. \A i \in DOMAIN d : d[i].rec \in 0..a
  BY <1>0
<1>2. \A x \in 0..a : x # 0 => x \in 1..a
  OBVIOUS
<1> QED BY <1>1, <1>2 DEF RecordsIn

(* The latest of the records in g. *)
LEMMA LatestOf ==
  ASSUME NEW a \in Nat, NEW g, g \subseteq 0..a, g # {}
  PROVE  Max(g) \in g /\ \A y \in g : y <= Max(g)
<1>1. \E x \in g : \A y \in g : x >= y
  BY GreatestNatural
<1>2. Max(g) \in g /\ \A y \in g : Max(g) >= y
  BY <1>1 DEF Max
<1>3. \A y \in g : y \in Int
  OBVIOUS
<1> QED BY <1>2, <1>3

LEMMA NextTypeOK == TypeOK /\ [Next]_vars => TypeOK'
<1> SUFFICES ASSUME TypeOK, [Next]_vars PROVE TypeOK'
  OBVIOUS
<1> USE ConstantsTyped
<1> DEFINE C == [rec : 0..attempt, part : Parts]
<1>1. attempt \in Nat /\ attempt \in 0..attempt /\ disk \in Seq(C)
  BY DEF TypeOK
<1>2. ASSUME NEW cells \in Seq(C), Write(cells) PROVE disk' \in Seq(C)
  <2>1. disk \o cells \in Seq(C)
    BY <1>1, ConcatProperties
  <2> QED BY <1>1, <1>2, <2>1 DEF Write
<1>3. Header \in Seq(C) /\ <<Newline>> \in Seq(C) /\ <<Head(Header)>> \in Seq(C)
  BY <1>1, FixedTyped
<1>a. CASE Open
  <2>1. disk' \in Seq(C)
    BY <1>1, <1>3, <1>a DEF Open
  <2> QED BY <1>a, <2>1 DEF Open, TypeOK, Retains
<1>b. CASE OpenTorn
  <2>1. disk' \in Seq(C)
    BY <1>3, <1>b DEF OpenTorn
  <2> QED BY <1>b, <2>1 DEF OpenTorn, Fails, TypeOK, Retains
<1>c. CASE WriteText
  <2> DEFINE D == [rec : 0..(attempt + 1), part : Parts]
  <2>1. attempt + 1 \in Nat /\ attempt <= attempt + 1 /\ attempt + 1 \in 0..(attempt + 1)
    BY <1>1
  <2>2. disk \in Seq(D) /\ Text(attempt + 1) \in Seq(D)
    BY <1>1, <2>1, CellsGrow, TextTyped
  <2>3. disk \o Text(attempt + 1) \in Seq(D)
    BY <2>2, ConcatProperties
  <2>4. disk' \in Seq([rec : 0..attempt', part : Parts])
    BY <1>c, <2>2, <2>3 DEF WriteText, Write
  <2>5. ok \subseteq 1..(attempt + 1) /\ trimmed \in 0..(attempt + 1)
    BY DEF TypeOK
  <2> QED BY <1>c, <2>1, <2>4, <2>5 DEF WriteText, TypeOK, Retains
<1>d. CASE WriteTextTorn
  <2> DEFINE D == [rec : 0..(attempt + 1), part : Parts]
  <2>1. attempt + 1 \in Nat /\ attempt <= attempt + 1 /\ attempt + 1 \in 0..(attempt + 1)
    BY <1>1
  <2>2. PICK n \in 1..2 : Write(SubSeq(Text(attempt + 1), 1, n))
    BY <1>d DEF WriteTextTorn
  <2>3. disk \in Seq(D) /\ SubSeq(Text(attempt + 1), 1, n) \in Seq(D)
    BY <1>1, <2>1, CellsGrow, TextTyped
  <2>4. disk \o SubSeq(Text(attempt + 1), 1, n) \in Seq(D)
    BY <2>3, ConcatProperties
  <2>5. disk' \in Seq([rec : 0..attempt', part : Parts])
    BY <1>d, <2>2, <2>3, <2>4 DEF WriteTextTorn, Write
  <2>6. ok \subseteq 1..(attempt + 1) /\ trimmed \in 0..(attempt + 1)
    BY DEF TypeOK
  <2> QED BY <1>d, <2>1, <2>5, <2>6 DEF WriteTextTorn, Fails, TypeOK, Retains
<1>e. CASE WriteNewline
  <2>1. disk' \in Seq(C)
    BY <1>2, <1>3, <1>e DEF WriteNewline
  <2>2. attempt \in 1..attempt /\ ok \subseteq 1..attempt
    BY <1>1, <1>e DEF WriteNewline, TypeOK
  <2>3. ok' = ok \/ ok' = ok \cup {attempt}
    BY <1>e DEF WriteNewline, Acknowledge, Due, Retains
  <2>4. ok' \subseteq 1..attempt
    BY <2>2, <2>3
  <2> QED BY <1>e, <2>1, <2>4 DEF WriteNewline, Due, TypeOK, Retains
<1>f. CASE WriteNewlineFails
  BY <1>f DEF WriteNewlineFails, Fails, TypeOK, Retains
<1>g. CASE Vacuum
  BY <1>g DEF Vacuum, TypeOK, Retains
<1>h. CASE Rename
  <2>1. Trim(disk) \in Seq(C)
    <3>1. C \subseteq Cells /\ MaxBytes \in Nat /\ Len(disk) > MaxBytes
      BY <1>h DEF Cells, Rename, TypeOK
    <3> QED BY <1>1, <1>3, <3>1, TrimTyped
  <2>2. trimmed' \in 0..attempt
    <3> DEFINE gone == RecordsIn(disk) \ RecordsIn(Trim(disk))
    <3>1. gone \subseteq 0..attempt
      BY <1>1, RecordsTyped
    <3>2. gone # {} => Max(gone) \in gone
      <4> HIDE DEF gone
      <4> QED BY <1>1, <3>1, LatestOf
    <3>3. trimmed' = IF gone = {} THEN trimmed ELSE Max(gone)
      BY <1>h DEF Rename
    <3> HIDE DEF gone
    <3> QED BY <3>1, <3>2, <3>3 DEF TypeOK
  <2> QED BY <1>h, <2>1, <2>2 DEF Rename, TypeOK, Retains
<1>i. CASE VacuumFails
  BY <1>i DEF VacuumFails, Fails, TypeOK, Retains
<1>j. CASE Reopen
  BY <1>j DEF Reopen, Acknowledge, TypeOK, Retains
<1>k. CASE ReopenFails
  BY <1>k DEF ReopenFails, Fails, TypeOK, Retains
<1>l. CASE Crash
  BY <1>l DEF Crash, Fails, TypeOK, Retains
<1>m. CASE UNCHANGED vars
  BY <1>m DEF vars, TypeOK, Retains
<1> QED BY <1>a, <1>b, <1>c, <1>d, <1>e, <1>f, <1>g, <1>h, <1>i, <1>j, <1>k, <1>l, <1>m DEF Next

(* TypeOK holds of the journal whatever the policy, the number of records    *)
(* and the faults.                                                           *)
THEOREM JournalTyped == Spec => []TypeOK
  BY InitTypeOK, NextTypeOK, PTL DEF Spec
-----------------------------------------------------------------------------
(* The size of the file. *)

(* What FileBounded says of a file of n cells at step s, c records after the  *)
(* last vacuum and after f faults.                                           *)
Allowance(s, c) ==
  CASE s \in {"down", "reopen"}   -> 0
    [] s = "idle"                 -> 4 * c
    [] s = "newline"              -> 4 * c + 3
    [] s \in {"vacuum", "rename"} -> 4 * VacuumEvery

Within(n, s, c, f) == n <= MaxBytes + 2 + 4 * VacuumEvery * f + Allowance(s, c)

LEMMA BoundedIsWithin ==
  TypeOK /\ MaxBytes # NoTrim => (FileBounded <=> Within(Len(disk), step, since, faults))
<1>1. Len(Header) = 2 /\ Len(Text(attempt)) = 3
  BY DEF Header, Text
<1> QED BY <1>1 DEF TypeOK, FileBounded, Overdue, Within, Allowance, LineCells

LEMMA OneMoreFault ==
  ASSUME NEW f \in Nat
  PROVE  /\ 4 * VacuumEvery * f \in Nat
         /\ 4 * VacuumEvery * (f + 1) = 4 * VacuumEvery * f + 4 * VacuumEvery
<1>1. VacuumEvery \in Nat
  BY ConstantsTyped
<1>2. 4 * VacuumEvery \in Nat
  BY <1>1
<1>3. ASSUME NEW w \in Nat PROVE w * f \in Nat /\ w * (f + 1) = w * f + w
  OBVIOUS
<1> QED BY <1>2, <1>3

LEMMA WriteLength ==
  ASSUME NEW a, NEW C, a \in Seq(C), NEW c \in Seq(C), NEW h, NEW b,
         b = (IF h = "path" THEN a \o c ELSE a)
  PROVE  Len(a) \in Nat /\ Len(b) \in Nat /\ Len(b) <= Len(a) + Len(c)
<1>1. Len(a \o c) = Len(a) + Len(c)
  BY ConcatProperties
<1>2. Len(a) \in Nat /\ Len(c) \in Nat
  OBVIOUS
<1> QED BY <1>1, <1>2

LEMMA InitFileBounded == Init => FileBounded
<1> SUFFICES ASSUME Init, MaxBytes # NoTrim PROVE FileBounded
  BY DEF FileBounded
<1>1. 4 * VacuumEvery * 0 \in Nat /\ MaxBytes \in Nat
  BY OneMoreFault, ConstantsTyped
<1>2. Within(0, "down", 0, 0)
  BY <1>1 DEF Within, Allowance
<1> QED BY <1>2, BoundedIsWithin, InitTypeOK DEF Init

LEMMA NextFileBounded == TypeOK /\ FileBounded /\ [Next]_vars => FileBounded'
<1> SUFFICES ASSUME TypeOK, TypeOK', FileBounded, [Next]_vars, MaxBytes # NoTrim
             PROVE  FileBounded'
  BY NextTypeOK DEF FileBounded
<1> DEFINE n == Len(disk)
           m == Len(disk')
           X == 4 * VacuumEvery * faults
<1>1. Within(n, step, since, faults)
  BY BoundedIsWithin
<1>2. SUFFICES Within(m, step', since', faults')
  <2>1. (TypeOK /\ MaxBytes # NoTrim => (FileBounded <=> Within(Len(disk), step, since, faults)))'
    BY BoundedIsWithin, PTL
  <2> QED BY <2>1, <1>2
<1>3. /\ VacuumEvery \in Nat /\ VacuumEvery > 0 /\ MaxBytes \in Nat /\ Retains
      /\ since \in Nat /\ since < VacuumEvery
  BY ConstantsTyped DEF TypeOK, Retains
<1>4. faults \in Nat /\ X \in Nat /\ 4 * VacuumEvery * (faults + 1) = X + 4 * VacuumEvery
  BY OneMoreFault, ConstantsTyped DEF TypeOK
<1>5. n \in Nat /\ m \in Nat
  BY LenProperties DEF TypeOK
<1>6. ASSUME NEW cells, Write(cells), NEW b \in Nat, cells \in Seq([rec : 0..b, part : Parts]),
             attempt <= b
      PROVE  m <= n + Len(cells)
  <2>0. attempt \in Nat /\ disk \in Seq([rec : 0..attempt, part : Parts])
    BY ConstantsTyped DEF TypeOK
  <2>1. disk \in Seq([rec : 0..b, part : Parts])
    BY <1>6, <2>0, CellsGrow
  <2> QED BY <1>6, <2>1, WriteLength DEF Write
<1>7. attempt \in Nat /\ attempt + 1 \in Nat /\ attempt <= attempt + 1 /\ attempt + 1 \in 0..(attempt + 1)
  BY ConstantsTyped DEF TypeOK
<1> HIDE DEF n, m, X
<1>a. CASE Open
  <2>1. m <= n \/ m = 2
    BY <1>5, <1>a DEF Open, m, n, Header
  <2>2. step = "down" /\ step' = "idle" /\ since' = 0 /\ faults' = faults
    BY <1>a DEF Open
  <2> QED BY <1>1, <1>3, <1>4, <1>5, <2>1, <2>2 DEF Within, Allowance, X
<1>b. CASE OpenTorn
  <2>1. m = 1 /\ step = "down" /\ step' = "down" /\ since' = since /\ faults' = faults + 1
    BY <1>b DEF OpenTorn, Fails, m, Header
  <2> QED BY <1>3, <1>4, <2>1 DEF Within, Allowance, X
<1>c. CASE WriteText
  <2>1. m <= n + 3
    BY <1>6, <1>7, <1>c, TextTyped DEF WriteText
  <2>2. step = "idle" /\ step' = "newline" /\ since' = since /\ faults' = faults
    BY <1>c DEF WriteText
  <2> QED BY <1>1, <1>3, <1>4, <1>5, <2>1, <2>2 DEF Within, Allowance, X
<1>d. CASE WriteTextTorn
  <2>0. PICK k \in 1..2 : Write(SubSeq(Text(attempt + 1), 1, k))
    BY <1>d DEF WriteTextTorn
  <2>1. m <= n + k
    BY <1>6, <1>7, <2>0, TextTyped
  <2>2. step = "idle" /\ step' = "idle" /\ since' = since /\ faults' = faults + 1
    BY <1>d DEF WriteTextTorn, Fails
  <2> QED BY <1>1, <1>3, <1>4, <1>5, <2>1, <2>2 DEF Within, Allowance, X
<1>e. CASE WriteNewline
  <2>1. m <= n + 1
    BY <1>6, <1>7, <1>e, FixedTyped DEF WriteNewline
  <2>2. step = "newline" /\ faults' = faults
    BY <1>e DEF WriteNewline
  <2>3. \/ step' = "vacuum" /\ since + 1 >= VacuumEvery
        \/ step' = "idle" /\ since' = since + 1
    BY <1>e DEF WriteNewline, Due, Retains
  <2> QED BY <1>1, <1>3, <1>4, <1>5, <2>1, <2>2, <2>3 DEF Within, Allowance, X
<1>f. CASE WriteNewlineFails
  <2>1. m = n /\ step = "newline" /\ step' = "idle" /\ since' = since /\ faults' = faults + 1
    BY <1>f DEF WriteNewlineFails, Fails, m, n
  <2> QED BY <1>1, <1>3, <1>4, <1>5, <2>1 DEF Within, Allowance, X
<1>g. CASE Vacuum
  <2>1. m = n /\ step = "vacuum" /\ faults' = faults
    BY <1>g DEF Vacuum, m, n
  <2>2. step' = "rename" \/ (step' = "reopen" /\ n <= MaxBytes)
    BY <1>3, <1>5, <1>g DEF Vacuum, n
  <2> QED BY <1>1, <1>3, <1>4, <1>5, <2>1, <2>2 DEF Within, Allowance, X
<1>h. CASE Rename
  <2>1. m <= MaxBytes + 2
    <3>1. [rec : 0..attempt, part : Parts] \subseteq Cells
      BY DEF Cells
    <3>2. disk \in Seq([rec : 0..attempt, part : Parts]) /\ Len(disk) > MaxBytes
      BY <1>h DEF Rename, TypeOK
    <3>3. Header \in Seq([rec : 0..attempt, part : Parts])
      BY <1>7, FixedTyped
    <3> QED BY <1>3, <1>h, <3>1, <3>2, <3>3, TrimTyped DEF Rename, m
  <2>2. step = "rename" /\ step' = "reopen" /\ faults' = faults
    BY <1>h DEF Rename
  <2> QED BY <1>3, <1>4, <1>5, <2>1, <2>2 DEF Within, Allowance, X
<1>i. CASE VacuumFails
  <2>1. m = n /\ step \in {"vacuum", "rename"} /\ step' = "idle" /\ since' = since /\ faults' = faults + 1
    BY <1>i DEF VacuumFails, Fails, m, n
  <2> QED BY <1>1, <1>3, <1>4, <1>5, <2>1 DEF Within, Allowance, X
<1>j. CASE Reopen
  <2>1. m = n /\ step = "reopen" /\ step' = "idle" /\ since' = since /\ faults' = faults
    BY <1>j DEF Reopen, m, n
  <2> QED BY <1>1, <1>3, <1>4, <1>5, <2>1 DEF Within, Allowance, X
<1>k. CASE ReopenFails
  <2>1. m = n /\ step = "reopen" /\ step' = "idle" /\ since' = since /\ faults' = faults + 1
    BY <1>k DEF ReopenFails, Fails, m, n
  <2> QED BY <1>1, <1>3, <1>4, <1>5, <2>1 DEF Within, Allowance, X
<1>l. CASE Crash
  <2>1. m = n /\ step # "down" /\ step' = "down" /\ faults' = faults + 1
    BY <1>l DEF Crash, Fails, m, n
  <2>2. step \in {"idle", "newline", "vacuum", "rename", "reopen"}
    BY <2>1 DEF TypeOK
  <2> QED BY <1>1, <1>3, <1>4, <1>5, <2>1, <2>2 DEF Within, Allowance, X
<1>m. CASE UNCHANGED vars
  BY <1>1, <1>m DEF vars, m, n
<1> QED BY <1>a, <1>b, <1>c, <1>d, <1>e, <1>f, <1>g, <1>h, <1>i, <1>j, <1>k, <1>l, <1>m DEF Next

(* The file never exceeds max_bytes by more than a header, what was appended  *)
(* since the last vacuum and the interval each fault may have put one off.   *)
THEOREM FileStaysBounded == Spec => []FileBounded
<1>1. Spec => [](TypeOK /\ FileBounded)
  BY InitTypeOK, NextTypeOK, InitFileBounded, NextFileBounded, PTL DEF Spec
<1> QED BY <1>1, PTL
-----------------------------------------------------------------------------
(* Reading: what read_all has read after each cell. *)

Started == [read |-> <<>>, line |-> <<>>]
Readings == [read : Seq(Nat), line : Seq(Cells)]

(* f is the function Reading defines for the cells d. *)
Passes(f, d) == f = [n \in 0..Len(d) |-> IF n = 0 THEN Started ELSE Take(f[n - 1], d[n])]

LEMMA ParseLineTyped ==
  ASSUME NEW l \in Seq(Cells) PROVE ParseLine(l) \in Seq(Nat)
<1>1. ParseLine(l) \in {<<>>, <<Last(l).rec>>, <<Junk>>}
  BY DEF ParseLine
<1>2. CASE l = <<>>
  BY <1>2 DEF ParseLine
<1>3. CASE l # <<>>
  <2>1. Len(l) \in 1..Len(l)
    BY <1>3, EmptySeq
  <2>2. Last(l) \in Cells
    BY <2>1, ElementOfSeq DEF Last
  <2>3. <<Last(l).rec>> \in Seq(Nat) /\ <<Junk>> \in Seq(Nat) /\ <<>> \in Seq(Nat)
    BY <2>2 DEF Cells, Junk
  <2> QED BY <1>1, <2>3
<1> QED BY <1>2, <1>3

LEMMA TakeTyped ==
  ASSUME NEW acc \in Readings, NEW cell \in Cells PROVE Take(acc, cell) \in Readings
<1>1. acc.read \o ParseLine(acc.line) \in Seq(Nat)
  <2>1. acc.read \in Seq(Nat) /\ ParseLine(acc.line) \in Seq(Nat)
    BY ParseLineTyped DEF Readings
  <2> HIDE DEF Readings
  <2> QED BY <2>1, ConcatProperties
<1>2. Append(acc.line, cell) \in Seq(Cells)
  BY AppendProperties DEF Readings
<1>3. [read |-> acc.read \o ParseLine(acc.line), line |-> <<>>] \in Readings
  BY <1>1 DEF Readings
<1>4. [acc EXCEPT !.line = Append(@, cell)] \in Readings
  BY <1>2 DEF Readings
<1> QED BY <1>3, <1>4 DEF Take

LEMMA PassesExists ==
  ASSUME NEW d \in Seq(Cells)
  PROVE  \E f \in [0..Len(d) -> Readings] : Passes(f, d)
<1> DEFINE next == [i \in 1..Len(d) |-> [acc \in Readings |-> Take(acc, d[i])]]
<1>1. Len(d) \in Nat
  OBVIOUS
<1>2. \A i \in 1..Len(d) : d[i] \in Cells
  BY ElementOfSeq
<1>3. next \in [1..Len(d) -> [Readings -> Readings]]
  BY <1>2, TakeTyped
<1>4. Started \in Readings
  BY DEF Started, Readings
<1>5. PICK f \in [0..Len(d) -> Readings] : Iterates(f, Started, next, Len(d))
  <2> HIDE DEF next
  <2> QED BY <1>1, <1>3, <1>4, IterationExists
<1>6. ASSUME NEW i \in 0..Len(d), i # 0 PROVE next[i][f[i - 1]] = Take(f[i - 1], d[i])
  <2>1. i \in 1..Len(d) /\ i - 1 \in 0..Len(d)
    BY <1>1, <1>6
  <2>2. f[i - 1] \in Readings
    BY <2>1
  <2> QED BY <2>1, <2>2
<1>7. [i \in 0..Len(d) |-> IF i = 0 THEN Started ELSE next[i][f[i - 1]]]
      = [i \in 0..Len(d) |-> IF i = 0 THEN Started ELSE Take(f[i - 1], d[i])]
  <2> HIDE DEF next
  <2> QED BY <1>6
<1>8. Passes(f, d)
  <2> HIDE DEF next
  <2> QED BY <1>5, <1>7 DEF Iterates, Passes
<1> QED BY <1>8

(* Two readings of cells that begin alike are alike as far as these go.      *)
LEMMA PassesAgree ==
  ASSUME NEW d \in Seq(Cells), NEW e \in Seq(Cells), Len(d) <= Len(e),
         \A i \in 1..Len(d) : e[i] = d[i],
         NEW f, NEW g, Passes(f, d), Passes(g, e)
  PROVE  g[Len(d)] = f[Len(d)]
<1> DEFINE T == {n \in Nat : n <= Len(d) => g[n] = f[n]}
<1>0. Len(d) \in Nat /\ Len(e) \in Nat
  OBVIOUS
<1>1. \A n \in 0..Len(d) : f[n] = IF n = 0 THEN Started ELSE Take(f[n - 1], d[n])
  BY DEF Passes
<1>2. \A n \in 0..Len(e) : g[n] = IF n = 0 THEN Started ELSE Take(g[n - 1], e[n])
  BY DEF Passes
<1>3. 0 \in T
  BY <1>0, <1>1, <1>2
<1>4. ASSUME NEW n \in Nat, n \in T PROVE n + 1 \in T
  <2> SUFFICES ASSUME n + 1 <= Len(d) PROVE g[n + 1] = f[n + 1]
    OBVIOUS
  <2>1. n + 1 \in 0..Len(d) /\ n + 1 \in 0..Len(e) /\ n + 1 # 0 /\ n + 1 - 1 = n /\ n <= Len(d)
        /\ n + 1 \in 1..Len(d)
    BY <1>0
  <2>2. g[n] = f[n] /\ e[n + 1] = d[n + 1]
    BY <1>4, <2>1
  <2>3. f[n + 1] = Take(f[n], d[n + 1])
    BY <1>1, <2>1
  <2>4. g[n + 1] = Take(g[n], e[n + 1])
    BY <1>2, <2>1
  <2> QED BY <2>2, <2>3, <2>4
<1>5. Nat \subseteq T
  <2> HIDE DEF T
  <2> QED BY <1>3, <1>4, SetInduction
<1> QED BY <1>0, <1>5

LEMMA ReadingIsPass ==
  ASSUME NEW d \in Seq(Cells), NEW f, Passes(f, d)
  PROVE  Reading(d) = f[Len(d)]
<1> DEFINE g == CHOOSE h : Passes(h, d)
<1>1. Passes(g, d)
  BY Zenon
<1>2. Reading(d) = g[Len(d)]
  BY DEF Reading, Passes, Started
<1> HIDE DEF g
<1>3. Len(d) \in Nat
  OBVIOUS
<1>4. g[Len(d)] = f[Len(d)]
  BY <1>1, <1>3, PassesAgree
<1> QED BY <1>2, <1>4

LEMMA ReadingEmpty == Reading(<<>>) = Started /\ ReadAll(<<>>) = <<>>
<1>1. <<>> \in Seq(Cells) /\ Len(<<>>) = 0
  BY EmptySeq
<1>2. PICK f : Passes(f, <<>>)
  BY <1>1, PassesExists
<1>3. f[0] = Started
  BY <1>1, <1>2 DEF Passes
<1>4. Reading(<<>>) = Started
  BY <1>1, <1>2, <1>3, ReadingIsPass
<1> QED BY <1>4 DEF ReadAll, Started, ParseLine

(* One more cell is one more Take. *)
LEMMA ReadingStep ==
  ASSUME NEW d \in Seq(Cells), NEW c \in Cells
  PROVE  /\ Reading(d) \in Readings
         /\ Reading(Append(d, c)) = Take(Reading(d), c)
<1> DEFINE e == Append(d, c)
<1>1. e \in Seq(Cells) /\ Len(e) = Len(d) + 1 /\ e[Len(d) + 1] = c /\ \A i \in 1..Len(d) : e[i] = d[i]
  BY AppendProperties
<1>2. Len(d) \in Nat
  OBVIOUS
<1> HIDE DEF e
<1>3. PICK f \in [0..Len(d) -> Readings] : Passes(f, d)
  BY PassesExists
<1>4. PICK g \in [0..Len(e) -> Readings] : Passes(g, e)
  BY <1>1, PassesExists
<1>5. Reading(d) = f[Len(d)] /\ Reading(e) = g[Len(d) + 1]
  BY <1>1, <1>3, <1>4, ReadingIsPass
<1>6. g[Len(d)] = f[Len(d)]
  <2>1. Len(d) <= Len(e)
    BY <1>1, <1>2
  <2> QED BY <1>1, <1>3, <1>4, <2>1, PassesAgree
<1>7. g[Len(d) + 1] = Take(g[Len(d)], e[Len(d) + 1])
  <2>1. Len(d) + 1 \in 0..Len(e) /\ Len(d) + 1 # 0 /\ Len(d) + 1 - 1 = Len(d)
    BY <1>1, <1>2
  <2> QED BY <1>4, <2>1 DEF Passes
<1>8. f[Len(d)] \in Readings
  BY <1>2
<1>9. Reading(e) = Take(Reading(d), c)
  BY <1>1, <1>5, <1>6, <1>7
<1> QED BY <1>5, <1>8, <1>9 DEF e
-----------------------------------------------------------------------------
(* The file of the records rs: a header, then four cells for each record.    *)

FileShape(e, rs) ==
  /\ Len(e) = 2 + 4 * Len(rs)
  /\ e[1] = Cell(0, "comment") /\ e[2] = Newline
  /\ \A k \in 1..Len(rs) : /\ e[4 * k - 1] = Cell(rs[k], "ts")
                          /\ e[4 * k]     = Cell(rs[k], "meta")
                          /\ e[4 * k + 1] = Cell(rs[k], "hex")
                          /\ e[4 * k + 2] = Newline

LEMMA CellsOfText ==
  ASSUME NEW r \in Nat
  PROVE  /\ Cell(r, "ts") \in Cells /\ Cell(r, "meta") \in Cells /\ Cell(r, "hex") \in Cells
         /\ Newline \in Cells /\ Cell(0, "comment") \in Cells
         /\ Cell(r, "ts") # Newline /\ Cell(r, "meta") # Newline /\ Cell(r, "hex") # Newline
         /\ Append(Text(r), Newline)[1] = Cell(r, "ts") /\ Append(Text(r), Newline)[2] = Cell(r, "meta")
         /\ Append(Text(r), Newline)[3] = Cell(r, "hex") /\ Append(Text(r), Newline)[4] = Newline
<1>3. /\ Cell(r, "ts") \in Cells /\ Cell(r, "meta") \in Cells /\ Cell(r, "hex") \in Cells
      /\ Newline \in Cells /\ Cell(0, "comment") \in Cells
  BY DEF Cell, Cells, Parts, Newline
<1>4. Cell(r, "ts").part = "ts" /\ Cell(r, "meta").part = "meta" /\ Cell(r, "hex").part = "hex"
      /\ Newline.part = "nl"
  BY DEF Cell, Newline
<1>5. Cell(r, "ts") # Newline /\ Cell(r, "meta") # Newline /\ Cell(r, "hex") # Newline
  BY <1>4
<1> DEFINE t == Text(r)
<1>6. t \in Seq(Cells) /\ Len(t) = 3 /\ t[1] = Cell(r, "ts") /\ t[2] = Cell(r, "meta") /\ t[3] = Cell(r, "hex")
  <2>1. ASSUME NEW a \in Cells, NEW b \in Cells, NEW c \in Cells
        PROVE  /\ <<a, b, c>> \in Seq(Cells) /\ Len(<<a, b, c>>) = 3
               /\ <<a, b, c>>[1] = a /\ <<a, b, c>>[2] = b /\ <<a, b, c>>[3] = c
    OBVIOUS
  <2> QED BY <1>3, <2>1, Zenon DEF Text
<1> HIDE DEF t
<1>7. /\ \A i \in 1..Len(t) : Append(t, Newline)[i] = t[i]
      /\ Append(t, Newline)[Len(t) + 1] = Newline
  <2>1. ASSUME NEW u \in Seq(Cells), NEW c \in Cells
        PROVE  /\ \A i \in 1..Len(u) : Append(u, c)[i] = u[i]
               /\ Append(u, c)[Len(u) + 1] = c
    BY AppendProperties
  <2> QED BY <1>3, <1>6, <2>1, Zenon
<1>8. /\ Append(t, Newline)[1] = Cell(r, "ts") /\ Append(t, Newline)[2] = Cell(r, "meta")
      /\ Append(t, Newline)[3] = Cell(r, "hex") /\ Append(t, Newline)[4] = Newline
  <2>1. Len(t) + 1 = 4 /\ 1 \in 1..Len(t) /\ 2 \in 1..Len(t) /\ 3 \in 1..Len(t)
    BY <1>6
  <2> QED BY <1>6, <1>7, <2>1
<1> QED BY <1>3, <1>5, <1>8 DEF t

LEMMA FourCells ==
  ASSUME NEW i \in Nat, i >= 3
  PROVE  \E k \in Nat : k >= 1 /\ (i = 4 * k - 1 \/ i = 4 * k \/ i = 4 * k + 1 \/ i = 4 * k + 2)
<1>1. ((i - 3) \div 4) \in Nat /\ ((i - 3) % 4) \in 0..3 /\ i - 3 = 4 * ((i - 3) \div 4) + ((i - 3) % 4)
  OBVIOUS
<1> DEFINE k == ((i - 3) \div 4) + 1
<1>2. k \in Nat /\ k >= 1 /\ (i = 4 * k - 1 \/ i = 4 * k \/ i = 4 * k + 1 \/ i = 4 * k + 2)
  BY <1>1
<1> HIDE DEF k
<1> QED BY <1>2

LEMMA FileOfShape ==
  ASSUME NEW rs \in Seq(Nat)
  PROVE  FileOf(rs) \in Seq(Cells) /\ FileShape(FileOf(rs), rs)
<1> DEFINE n == 2 + 4 * Len(rs)
           f == FileOf(rs)
<1>1. Len(rs) \in Nat /\ n \in Nat
  OBVIOUS
<1>2. f = [i \in 1..n |->
             IF i <= 2 THEN Header[i]
             ELSE Append(Text(rs[((i - 3) \div 4) + 1]), Newline)[((i - 3) % 4) + 1]]
  <2>1. Len(Header) = 2
    BY DEF Header
  <2>2. \A i \in 1..n : i - 2 - 1 = i - 3
    BY <1>1
  <2> QED BY <2>1, <2>2 DEF FileOf, LineCells
<1> HIDE DEF n, f
<1>3. 1 \in 1..n /\ 2 \in 1..n
  BY <1>1 DEF n
<1>4. f[1] = Cell(0, "comment") /\ f[2] = Newline
  BY <1>2, <1>3 DEF Header
<1>5. ASSUME NEW k \in 1..Len(rs), NEW t \in 0..3
      PROVE  4 * k - 1 + t \in 1..n /\ f[4 * k - 1 + t] = Append(Text(rs[k]), Newline)[t + 1]
  <2> DEFINE i == 4 * k - 1 + t
  <2>1. i \in 1..n /\ ~(i <= 2) /\ ((i - 3) \div 4) + 1 = k /\ (i - 3) % 4 = t
    BY <1>1 DEF n
  <2> HIDE DEF i
  <2>2. f[i] = Append(Text(rs[k]), Newline)[t + 1]
    BY <1>2, <2>1
  <2> QED BY <2>1, <2>2 DEF i
<1>6. ASSUME NEW k \in 1..Len(rs)
      PROVE  /\ f[4 * k - 1] = Cell(rs[k], "ts") /\ f[4 * k] = Cell(rs[k], "meta")
             /\ f[4 * k + 1] = Cell(rs[k], "hex") /\ f[4 * k + 2] = Newline
  <2>1. rs[k] \in Nat /\ k \in Nat
    BY ElementOfSeq
  <2>2. /\ Append(Text(rs[k]), Newline)[0 + 1] = Cell(rs[k], "ts")
        /\ Append(Text(rs[k]), Newline)[1 + 1] = Cell(rs[k], "meta")
        /\ Append(Text(rs[k]), Newline)[2 + 1] = Cell(rs[k], "hex")
        /\ Append(Text(rs[k]), Newline)[3 + 1] = Newline
    <3>1. 0 + 1 = 1 /\ 1 + 1 = 2 /\ 2 + 1 = 3 /\ 3 + 1 = 4
      OBVIOUS
    <3>2. /\ Append(Text(rs[k]), Newline)[1] = Cell(rs[k], "ts")
          /\ Append(Text(rs[k]), Newline)[2] = Cell(rs[k], "meta")
          /\ Append(Text(rs[k]), Newline)[3] = Cell(rs[k], "hex")
          /\ Append(Text(rs[k]), Newline)[4] = Newline
      BY <2>1, CellsOfText
    <3> QED BY <3>1, <3>2
  <2>3. 4 * k - 1 + 0 = 4 * k - 1 /\ 4 * k - 1 + 1 = 4 * k /\ 4 * k - 1 + 2 = 4 * k + 1 /\ 4 * k - 1 + 3 = 4 * k + 2
    BY <2>1
  <2>4. /\ f[4 * k - 1 + 0] = Append(Text(rs[k]), Newline)[0 + 1]
        /\ f[4 * k - 1 + 1] = Append(Text(rs[k]), Newline)[1 + 1]
        /\ f[4 * k - 1 + 2] = Append(Text(rs[k]), Newline)[2 + 1]
        /\ f[4 * k - 1 + 3] = Append(Text(rs[k]), Newline)[3 + 1]
    <3>1. 0 \in 0..3 /\ 1 \in 0..3 /\ 2 \in 0..3 /\ 3 \in 0..3
      OBVIOUS
    <3> QED BY <1>5, <3>1
  <2> QED BY <2>2, <2>3, <2>4
<1>7. ASSUME NEW i \in 1..n PROVE f[i] \in Cells
  <2>1. CASE i <= 2
    <3>1. i = 1 \/ i = 2
      BY <2>1
    <3>2. Cell(0, "comment") \in Cells /\ Newline \in Cells
      BY DEF Cell, Cells, Parts, Newline
    <3> QED BY <1>4, <3>1, <3>2
  <2>2. CASE i >= 3
    <3>1. PICK k \in Nat : k >= 1 /\ (i = 4 * k - 1 \/ i = 4 * k \/ i = 4 * k + 1 \/ i = 4 * k + 2)
      <4>1. i \in Nat
        OBVIOUS
      <4> QED BY <2>2, <4>1, FourCells
    <3>2. k \in 1..Len(rs)
      BY <1>1, <3>1 DEF n
    <3>3. rs[k] \in Nat
      BY <3>2, ElementOfSeq
    <3> QED BY <1>6, <3>1, <3>2, <3>3, CellsOfText
  <2> QED BY <1>1, <2>1, <2>2
<1>8. f \in [1..n -> Cells]
  BY <1>2, <1>7
<1>9. f \in Seq(Cells) /\ Len(f) = n
  BY <1>1, <1>8
<1> QED BY <1>4, <1>6, <1>9 DEF FileShape, f, n

LEMMA ShapeIsFile ==
  ASSUME NEW rs \in Seq(Nat), NEW e \in Seq(Cells), FileShape(e, rs)
  PROVE  e = FileOf(rs)
<1> DEFINE f == FileOf(rs)
<1>1. f \in Seq(Cells) /\ FileShape(f, rs)
  BY FileOfShape
<1> HIDE DEF f
<1>2. Len(e) = Len(f) /\ Len(e) = 2 + 4 * Len(rs) /\ Len(rs) \in Nat
  BY <1>1 DEF FileShape
<1>3. ASSUME NEW i \in 1..Len(e) PROVE e[i] = f[i]
  <2>1. CASE i <= 2
    <3>1. i = 1 \/ i = 2
      BY <2>1
    <3> QED BY <1>1, <3>1 DEF FileShape
  <2>2. CASE i >= 3
    <3>1. PICK k \in Nat : k >= 1 /\ (i = 4 * k - 1 \/ i = 4 * k \/ i = 4 * k + 1 \/ i = 4 * k + 2)
      <4>1. i \in Nat
        OBVIOUS
      <4> QED BY <2>2, <4>1, FourCells
    <3>2. k \in 1..Len(rs)
      BY <1>2, <3>1
    <3> QED BY <1>1, <3>1, <3>2 DEF FileShape
  <2> QED BY <1>2, <2>1, <2>2
<1>4. e = f
  BY <1>1, <1>2, <1>3, SeqEqual
<1> QED BY <1>4 DEF f

(* A record appended to the file of rs, with its newline. *)
WithText(d, r) == Append(Append(Append(d, Cell(r, "ts")), Cell(r, "meta")), Cell(r, "hex"))

LEMMA WithTextIsConcat ==
  ASSUME NEW d \in Seq(Cells), NEW r \in Nat
  PROVE  /\ d \o Text(r) = WithText(d, r) /\ WithText(d, r) \in Seq(Cells)
         /\ Len(WithText(d, r)) = Len(d) + 3
         /\ \A i \in 1..Len(d) : WithText(d, r)[i] = d[i]
         /\ WithText(d, r)[Len(d) + 1] = Cell(r, "ts")
         /\ WithText(d, r)[Len(d) + 2] = Cell(r, "meta")
         /\ WithText(d, r)[Len(d) + 3] = Cell(r, "hex")
<1>1. Cell(r, "ts") \in Cells /\ Cell(r, "meta") \in Cells /\ Cell(r, "hex") \in Cells
  BY CellsOfText
<1> DEFINE a == Cell(r, "ts")
           b == Cell(r, "meta")
           c == Cell(r, "hex")
           t == Text(r)
           u == d \o t
           w == WithText(d, r)
<1>2. t = <<a, b, c>>
  BY DEF Text
<1> HIDE DEF a, b, c, t
<1>3. a \in Cells /\ b \in Cells /\ c \in Cells
  BY <1>1 DEF a, b, c
<1>4. t \in Seq(Cells) /\ Len(t) = 3 /\ t[1] = a /\ t[2] = b /\ t[3] = c
  BY <1>2, <1>3
<1>5. w = Append(Append(Append(d, a), b), c)
  BY DEF WithText, a, b, c
<1>6. Len(d) \in Nat
  OBVIOUS
<1> HIDE DEF w, u
<1>7. /\ w \in Seq(Cells) /\ Len(w) = Len(d) + 3 /\ \A i \in 1..Len(d) : w[i] = d[i]
      /\ w[Len(d) + 1] = a /\ w[Len(d) + 2] = b /\ w[Len(d) + 3] = c
  <2> DEFINE x == Append(d, a)
             y == Append(x, b)
  <2>1. x \in Seq(Cells) /\ Len(x) = Len(d) + 1 /\ x[Len(d) + 1] = a /\ \A i \in 1..Len(d) : x[i] = d[i]
    BY <1>3, AppendProperties
  <2> HIDE DEF x
  <2>2. y \in Seq(Cells) /\ Len(y) = Len(x) + 1 /\ y[Len(x) + 1] = b /\ \A i \in 1..Len(x) : y[i] = x[i]
    BY <1>3, <2>1, AppendProperties
  <2> HIDE DEF y
  <2>3. w = Append(y, c)
    BY <1>5 DEF x, y
  <2>4. w \in Seq(Cells) /\ Len(w) = Len(y) + 1 /\ w[Len(y) + 1] = c /\ \A i \in 1..Len(y) : w[i] = y[i]
    BY <1>3, <2>2, <2>3, AppendProperties
  <2>5. Len(y) = Len(d) + 2 /\ Len(x) = Len(d) + 1 /\ Len(w) = Len(d) + 3
    BY <1>6, <2>1, <2>2, <2>4
  <2>6. /\ Len(d) + 1 \in 1..Len(x) /\ Len(d) + 1 \in 1..Len(y) /\ Len(d) + 2 \in 1..Len(y)
        /\ Len(x) + 1 = Len(d) + 2 /\ Len(y) + 1 = Len(d) + 3
        /\ \A i \in 1..Len(d) : i \in 1..Len(x) /\ i \in 1..Len(y)
    BY <1>6, <2>5
  <2> QED BY <2>1, <2>2, <2>4, <2>5, <2>6
<1>8. u \in Seq(Cells) /\ Len(u) = Len(d) + 3
      /\ \A i \in 1..(Len(d) + 3) : u[i] = IF i <= Len(d) THEN d[i] ELSE t[i - Len(d)]
  <2>1. /\ d \o t \in Seq(Cells) /\ Len(d \o t) = Len(d) + Len(t)
        /\ \A i \in 1..(Len(d) + Len(t)) : (d \o t)[i] = IF i <= Len(d) THEN d[i] ELSE t[i - Len(d)]
    BY <1>4, ConcatProperties, Zenon
  <2>2. /\ u \in Seq(Cells) /\ Len(u) = Len(d) + Len(t)
        /\ \A i \in 1..(Len(d) + Len(t)) : u[i] = IF i <= Len(d) THEN d[i] ELSE t[i - Len(d)]
    BY <2>1, Zenon DEF u
  <2>3. Len(t) = 3
    BY <1>4
  <2> QED BY <2>2, <2>3, Zenon
<1>9. ASSUME NEW i \in 1..Len(u) PROVE u[i] = w[i]
  <2>1. \/ i \in 1..Len(d)
        \/ i = Len(d) + 1 /\ i - Len(d) = 1 /\ ~(i <= Len(d))
        \/ i = Len(d) + 2 /\ i - Len(d) = 2 /\ ~(i <= Len(d))
        \/ i = Len(d) + 3 /\ i - Len(d) = 3 /\ ~(i <= Len(d))
    BY <1>6, <1>8
  <2> QED BY <1>4, <1>7, <1>8, <2>1
<1>10. u = w
  BY <1>7, <1>8, <1>9, SeqEqual
<1> QED BY <1>7, <1>10 DEF u, w, a, b, c, t

LEMMA FileOfAppend ==
  ASSUME NEW rs \in Seq(Nat), NEW r \in Nat
  PROVE  FileOf(Append(rs, r)) = Append(WithText(FileOf(rs), r), Newline)
<1> DEFINE f == FileOf(rs)
           w == WithText(f, r)
           e == Append(w, Newline)
           q == Append(rs, r)
<1>1. f \in Seq(Cells) /\ FileShape(f, rs)
  BY FileOfShape
<1>2. q \in Seq(Nat) /\ Len(q) = Len(rs) + 1 /\ q[Len(rs) + 1] = r /\ \A i \in 1..Len(rs) : q[i] = rs[i]
  BY AppendProperties
<1> HIDE DEF f, q
<1>3. /\ w \in Seq(Cells) /\ Len(w) = Len(f) + 3 /\ \A i \in 1..Len(f) : w[i] = f[i]
      /\ w[Len(f) + 1] = Cell(r, "ts") /\ w[Len(f) + 2] = Cell(r, "meta") /\ w[Len(f) + 3] = Cell(r, "hex")
  BY <1>1, WithTextIsConcat
<1> HIDE DEF w
<1>4. e \in Seq(Cells) /\ Len(e) = Len(w) + 1 /\ e[Len(w) + 1] = Newline /\ \A i \in 1..Len(w) : e[i] = w[i]
  <2>1. Newline \in Cells
    BY CellsOfText
  <2> QED BY <1>3, <2>1, AppendProperties
<1> HIDE DEF e
<1>5. Len(rs) \in Nat /\ Len(f) = 2 + 4 * Len(rs) /\ Len(w) = 5 + 4 * Len(rs)
      /\ Len(e) = 2 + 4 * (Len(rs) + 1)
  <2>1. Len(rs) \in Nat /\ Len(f) = 2 + 4 * Len(rs)
    BY <1>1 DEF FileShape
  <2> QED BY <1>3, <1>4, <2>1
<1>6. ASSUME NEW i \in 1..Len(f) PROVE e[i] = f[i]
  <2>1. i \in 1..Len(w)
    BY <1>5
  <2> QED BY <1>3, <1>4, <2>1
<1>7. ASSUME NEW k \in 1..Len(q)
      PROVE  /\ e[4 * k - 1] = Cell(q[k], "ts") /\ e[4 * k] = Cell(q[k], "meta")
             /\ e[4 * k + 1] = Cell(q[k], "hex") /\ e[4 * k + 2] = Newline
  <2>1. CASE k \in 1..Len(rs)
    <3>1. 4 * k - 1 \in 1..Len(f) /\ 4 * k \in 1..Len(f) /\ 4 * k + 1 \in 1..Len(f) /\ 4 * k + 2 \in 1..Len(f)
      BY <1>5, <2>1
    <3>2. q[k] = rs[k]
      BY <1>2, <2>1
    <3>3. /\ f[4 * k - 1] = Cell(rs[k], "ts") /\ f[4 * k] = Cell(rs[k], "meta")
          /\ f[4 * k + 1] = Cell(rs[k], "hex") /\ f[4 * k + 2] = Newline
      BY <1>1, <2>1 DEF FileShape
    <3> QED BY <1>6, <3>1, <3>2, <3>3
  <2>2. CASE k = Len(rs) + 1
    <3>1. 4 * k - 1 = Len(f) + 1 /\ 4 * k = Len(f) + 2 /\ 4 * k + 1 = Len(f) + 3 /\ 4 * k + 2 = Len(w) + 1
      BY <1>5, <2>2
    <3>2. Len(f) + 1 \in 1..Len(w) /\ Len(f) + 2 \in 1..Len(w) /\ Len(f) + 3 \in 1..Len(w)
      BY <1>5
    <3>3. q[k] = r
      BY <1>2, <2>2
    <3> QED BY <1>3, <1>4, <3>1, <3>2, <3>3
  <2>3. k \in 1..Len(rs) \/ k = Len(rs) + 1
    BY <1>2, <1>5
  <2> QED BY <2>1, <2>2, <2>3
<1>8. e[1] = f[1] /\ e[2] = f[2]
  <2>1. 1 \in 1..Len(f) /\ 2 \in 1..Len(f)
    BY <1>5
  <2> QED BY <1>6, <2>1
<1>9. f[1] = Cell(0, "comment") /\ f[2] = Newline
  BY <1>1 DEF FileShape
<1>10. Len(e) = 2 + 4 * Len(q)
  BY <1>2, <1>5
<1>11. FileShape(e, q)
  BY <1>7, <1>8, <1>9, <1>10 DEF FileShape
<1>12. e = FileOf(q)
  BY <1>2, <1>4, <1>11, ShapeIsFile
<1> QED BY <1>12 DEF e, q, w, f

(* A whole line is the record it was written for. *)
LEMMA TextIsRead ==
  ASSUME NEW r \in Nat PROVE ParseLine(Text(r)) = <<r>> /\ Text(r) \in Seq(Cells)
<1> DEFINE t == Text(r)
<1>1. /\ t \in Seq(Cells) /\ Len(t) = 3
      /\ t[1] = Cell(r, "ts") /\ t[2] = Cell(r, "meta") /\ t[3] = Cell(r, "hex")
  <2>1. ASSUME NEW a \in Cells, NEW b \in Cells, NEW c \in Cells
        PROVE  /\ <<a, b, c>> \in Seq(Cells) /\ Len(<<a, b, c>>) = 3
               /\ <<a, b, c>>[1] = a /\ <<a, b, c>>[2] = b /\ <<a, b, c>>[3] = c
    OBVIOUS
  <2> QED BY <2>1, CellsOfText, Zenon DEF Text
<1> HIDE DEF t
<1>2. Head(t).part = "ts" /\ t # <<>> /\ Last(t).part = "hex" /\ Last(t).rec = r
  <2>1. Cell(r, "ts").part = "ts" /\ Cell(r, "hex").part = "hex" /\ Cell(r, "hex").rec = r
    BY DEF Cell
  <2>2. Head(t) = t[1] /\ Last(t) = t[3] /\ t # <<>>
    BY <1>1 DEF Last
  <2> QED BY <1>1, <2>1, <2>2
<1>3. {i \in DOMAIN t : t[i].part = "meta"} = {2}
  <2>1. \A i \in DOMAIN t : i = 1 \/ i = 2 \/ i = 3
    BY <1>1
  <2>2. 2 \in DOMAIN t
    BY <1>1
  <2>3. t[1].part # "meta" /\ t[2].part = "meta" /\ t[3].part # "meta"
    BY <1>1 DEF Cell
  <2> QED BY <2>1, <2>2, <2>3
<1>4. Len(t) > 2 /\ Len(t) - 1 = 2
  BY <1>1
<1>5. ParseLine(t) = <<r>>
  BY <1>2, <1>3, <1>4 DEF ParseLine
<1> QED BY <1>1, <1>5 DEF t

LEMMA TakeText ==
  ASSUME NEW q, NEW l, NEW c, c # Newline
  PROVE  Take([read |-> q, line |-> l], c) = [read |-> q, line |-> Append(l, c)]
  BY DEF Take

LEMMA ReadingText ==
  ASSUME NEW d \in Seq(Cells), NEW r \in Nat, NEW q \in Seq(Nat),
         Reading(d) = [read |-> q, line |-> <<>>]
  PROVE  /\ ReadAll(WithText(d, r)) = Append(q, r)
         /\ Reading(Append(WithText(d, r), Newline)) = [read |-> Append(q, r), line |-> <<>>]
<1> DEFINE a == Cell(r, "ts")
           b == Cell(r, "meta")
           c == Cell(r, "hex")
           x == Append(d, a)
           y == Append(x, b)
           w == Append(y, c)
<1>1. a \in Cells /\ b \in Cells /\ c \in Cells /\ Newline \in Cells
      /\ a # Newline /\ b # Newline /\ c # Newline
  BY CellsOfText
<1>2. w = WithText(d, r)
  BY DEF WithText
<1>3. Append(Append(Append(<<>>, a), b), c) = Text(r)
  <2>1. <<>> \o Text(r) = WithText(<<>>, r)
    BY EmptySeq, WithTextIsConcat
  <2>2. <<>> \o Text(r) = Text(r)
    BY TextIsRead, ConcatEmptySeq
  <2> QED BY <2>1, <2>2 DEF WithText
<1> HIDE DEF a, b, c
<1>4. x \in Seq(Cells)
  BY <1>1, AppendProperties
<1>5. Reading(x) = [read |-> q, line |-> Append(<<>>, a)]
  <2>1. Reading(x) = Take(Reading(d), a)
    BY <1>1, ReadingStep
  <2>2. Take([read |-> q, line |-> <<>>], a) = [read |-> q, line |-> Append(<<>>, a)]
    BY <1>1, TakeText, Zenon
  <2> QED BY <2>1, <2>2, Zenon
<1> HIDE DEF x
<1>6. y \in Seq(Cells)
  BY <1>1, <1>4, AppendProperties
<1>7. Reading(y) = [read |-> q, line |-> Append(Append(<<>>, a), b)]
  <2>1. Reading(y) = Take(Reading(x), b)
    BY <1>1, <1>4, ReadingStep
  <2>2. Take([read |-> q, line |-> Append(<<>>, a)], b)
        = [read |-> q, line |-> Append(Append(<<>>, a), b)]
    BY <1>1, TakeText, Zenon
  <2> QED BY <1>5, <2>1, <2>2, Zenon
<1> HIDE DEF y
<1>8. w \in Seq(Cells)
  BY <1>1, <1>6, AppendProperties
<1>9. Reading(w) = [read |-> q, line |-> Text(r)]
  <2>1. Reading(w) = Take(Reading(y), c)
    BY <1>1, <1>6, ReadingStep
  <2>2. Reading(w) = [read |-> q, line |-> Append(Append(Append(<<>>, a), b), c)]
    <3>1. Take([read |-> q, line |-> Append(Append(<<>>, a), b)], c)
          = [read |-> q, line |-> Append(Append(Append(<<>>, a), b), c)]
      BY <1>1, TakeText, Zenon
    <3> QED BY <1>7, <2>1, <3>1, Zenon
  <2> HIDE DEF w
  <2> QED BY <1>3, <2>2
<1> HIDE DEF w
<1>10. q \o <<r>> = Append(q, r)
  BY AppendIsConcat
<1>11. ReadAll(w) = Append(q, r)
  <2>1. Reading(w).read = q /\ Reading(w).line = Text(r)
    BY <1>9
  <2>2. ReadAll(w) = q \o ParseLine(Text(r))
    BY <2>1, Zenon DEF ReadAll
  <2> QED BY <1>10, <2>2, TextIsRead
<1>12. Reading(Append(w, Newline)) = [read |-> Append(q, r), line |-> <<>>]
  <2>1. Reading(Append(w, Newline)) = Take(Reading(w), Newline)
    BY <1>1, <1>8, ReadingStep
  <2>2. Take([read |-> q, line |-> Text(r)], Newline) = [read |-> q \o ParseLine(Text(r)), line |-> <<>>]
    BY DEF Take
  <2> QED BY <1>9, <1>10, <2>1, <2>2, TextIsRead
<1> QED BY <1>2, <1>11, <1>12

LEMMA HeaderIsRead ==
  FileOf(<<>>) = Header /\ Reading(Header) = Started
<1> DEFINE c == Cell(0, "comment")
           x == Append(<<>>, c)
           h == Append(x, Newline)
<1>1. c \in Cells /\ Newline \in Cells /\ c # Newline /\ c.part = "comment"
  BY DEF Cell, Cells, Newline, Parts
<1>2. <<>> \in Seq(Cells) /\ Len(<<>>) = 0 /\ <<>> \in Seq(Nat)
  BY EmptySeq
<1>3. Header = <<c, Newline>>
  BY DEF Header
<1> HIDE DEF c
<1>4. Header \in Seq(Cells) /\ Len(Header) = 2 /\ Header[1] = c /\ Header[2] = Newline
  BY <1>1, <1>3
<1>5. x \in Seq(Cells) /\ Len(x) = 1 /\ x[1] = c
  <2>1. /\ x \in Seq(Cells) /\ Len(x) = Len(<<>>) + 1 /\ x[Len(<<>>) + 1] = c
    BY <1>1, <1>2, AppendProperties
  <2> HIDE DEF x
  <2> QED BY <1>2, <2>1
<1>6. x = <<c>>
  BY <1>1
<1> HIDE DEF x
<1>7. h \in Seq(Cells) /\ Len(h) = 2 /\ h[1] = c /\ h[2] = Newline
  <2>1. /\ h \in Seq(Cells) /\ Len(h) = Len(x) + 1 /\ h[Len(x) + 1] = Newline
        /\ \A i \in 1..Len(x) : h[i] = x[i]
    <3>1. ASSUME NEW u \in Seq(Cells), NEW e \in Cells
          PROVE  /\ Append(u, e) \in Seq(Cells) /\ Len(Append(u, e)) = Len(u) + 1
                 /\ \A i \in 1..Len(u) : Append(u, e)[i] = u[i]
                 /\ Append(u, e)[Len(u) + 1] = e
      BY AppendProperties
    <3> QED BY <1>1, <1>5, <3>1, Zenon
  <2>2. 1 \in 1..Len(x) /\ Len(x) + 1 = 2
    BY <1>5
  <2> HIDE DEF h
  <2> QED BY <1>5, <2>1, <2>2
<1>8. Header = h
  <2> HIDE DEF h
  <2>1. \A i \in 1..2 : i = 1 \/ i = 2
    OBVIOUS
  <2> QED BY <1>4, <1>7, <2>1, SeqEqual
<1>9. FileShape(Header, <<>>)
  BY <1>2, <1>4 DEF FileShape, c
<1>10. FileOf(<<>>) = Header
  BY <1>2, <1>4, <1>9, ShapeIsFile
<1>11. Reading(x) = [read |-> <<>>, line |-> <<c>>]
  <2>1. Reading(x) = Take(Started, c)
    <3>1. x = Append(<<>>, c)
      BY DEF x
    <3> QED BY <1>1, <1>2, <3>1, ReadingEmpty, ReadingStep
  <2>2. Append(<<>>, c) = <<c>>
    BY <1>6 DEF x
  <2> QED BY <1>1, <2>1, <2>2 DEF Take, Started
<1>12. Reading(h) = Started
  <2>1. Reading(h) = Take(Reading(x), Newline)
    BY <1>1, <1>5, ReadingStep
  <2>2. ParseLine(<<c>>) = <<>>
    BY <1>1 DEF ParseLine
  <2>3. Take([read |-> <<>>, line |-> <<c>>], Newline) = [read |-> <<>> \o ParseLine(<<c>>), line |-> <<>>]
    BY DEF Take
  <2>4. <<>> \o <<>> = <<>>
    OBVIOUS
  <2> QED BY <1>11, <2>1, <2>2, <2>3, <2>4 DEF Started
<1> QED BY <1>8, <1>10, <1>12

(* The file of the records rs is read as rs. *)
LEMMA FileIsRead ==
  ASSUME NEW rs \in Seq(Nat)
  PROVE  /\ Reading(FileOf(rs)) = [read |-> rs, line |-> <<>>]
         /\ ReadAll(FileOf(rs)) = rs
<1> DEFINE T == {n \in Nat : \A q \in Seq(Nat) :
                   Len(q) = n => Reading(FileOf(q)) = [read |-> q, line |-> <<>>]}
<1>1. 0 \in T
  <2>1. \A q \in Seq(Nat) : Len(q) = 0 => q = <<>>
    BY EmptySeq
  <2> QED BY <2>1, HeaderIsRead DEF Started
<1>2. ASSUME NEW n \in Nat, n \in T PROVE n + 1 \in T
  <2> SUFFICES ASSUME NEW q \in Seq(Nat), Len(q) = n + 1
               PROVE  Reading(FileOf(q)) = [read |-> q, line |-> <<>>]
    OBVIOUS
  <2>1. q # <<>>
    BY EmptySeq
  <2>2. PICK p \in Seq(Nat), r \in Nat : q = Append(p, r)
    BY <2>1, SequenceEmptyOrAppend
  <2>3. Len(p) = n
    BY <2>2
  <2>4. Reading(FileOf(p)) = [read |-> p, line |-> <<>>]
    BY <1>2, <2>3
  <2>5. FileOf(p) \in Seq(Cells)
    BY FileOfShape
  <2>6. Reading(Append(WithText(FileOf(p), r), Newline)) = [read |-> Append(p, r), line |-> <<>>]
    BY <2>4, <2>5, ReadingText
  <2> QED BY <2>2, <2>6, FileOfAppend
<1>3. Nat \subseteq T
  <2> HIDE DEF T
  <2> QED BY <1>1, <1>2, SetInduction
<1>4. Reading(FileOf(rs)) = [read |-> rs, line |-> <<>>]
  <2>1. Len(rs) \in Nat
    OBVIOUS
  <2> QED BY <1>3, <2>1
<1>5. rs \o ParseLine(<<>>) = rs
  <2>1. ParseLine(<<>>) = <<>>
    BY DEF ParseLine
  <2> QED BY <2>1, ConcatEmptySeq
<1> QED BY <1>4, <1>5 DEF ReadAll
-----------------------------------------------------------------------------
(* Trimming: the file of rs becomes the file of the last of rs. *)

LEMMA NewlinesOfFile ==
  ASSUME NEW rs \in Seq(Nat), NEW i \in 1..(2 + 4 * Len(rs))
  PROVE  FileOf(rs)[i] = Newline <=> \E j \in 0..Len(rs) : i = 4 * j + 2
<1> DEFINE f == FileOf(rs)
<1>1. FileShape(f, rs) /\ Len(rs) \in Nat
  BY FileOfShape
<1> HIDE DEF f
<1>2. CASE i <= 2
  <2>1. i = 1 \/ i = 2
    BY <1>2
  <2>2. f[1] # Newline /\ f[2] = Newline
    <3>1. f[1].part = "comment" /\ Newline.part = "nl" /\ f[2] = Newline
      BY <1>1 DEF FileShape, Newline, Cell
    <3> QED BY <3>1
  <2>3. (\E j \in 0..Len(rs) : 2 = 4 * j + 2) /\ ~(\E j \in 0..Len(rs) : 1 = 4 * j + 2)
    <3>1. 0 \in 0..Len(rs) /\ 2 = 4 * 0 + 2
      BY <1>1
    <3>2. \A j \in 0..Len(rs) : 1 # 4 * j + 2
      OBVIOUS
    <3> QED BY <3>1, <3>2
  <2> QED BY <2>1, <2>2, <2>3 DEF f
<1>3. CASE i >= 3
  <2>1. PICK k \in Nat : k >= 1 /\ (i = 4 * k - 1 \/ i = 4 * k \/ i = 4 * k + 1 \/ i = 4 * k + 2)
    <3>1. i \in Nat
      BY <1>1
    <3> QED BY <1>3, <3>1, FourCells
  <2>2. k \in 1..Len(rs) /\ k \in 0..Len(rs)
    BY <1>1, <2>1
  <2>3. rs[k] \in Nat
    BY <2>2, ElementOfSeq
  <2>4. f[4 * k - 1] # Newline /\ f[4 * k] # Newline /\ f[4 * k + 1] # Newline /\ f[4 * k + 2] = Newline
    BY <1>1, <2>2, <2>3, CellsOfText DEF FileShape
  <2>5. CASE i = 4 * k + 2
    BY <2>2, <2>4, <2>5 DEF f
  <2>6. CASE i # 4 * k + 2
    <3>1. f[i] # Newline
      BY <2>1, <2>4, <2>6
    <3>2. \A j \in 0..Len(rs) : i # 4 * j + 2
      BY <1>1, <2>1, <2>6
    <3> QED BY <3>1, <3>2 DEF f
  <2> QED BY <2>5, <2>6
<1> QED BY <1>1, <1>2, <1>3

LEMMA LastOfSeq ==
  ASSUME NEW rs \in Seq(Nat), NEW j \in 0..Len(rs), NEW q, q = SubSeq(rs, j + 1, Len(rs))
  PROVE  /\ q \in Seq(Nat) /\ Len(q) = Len(rs) - j
         /\ \A k \in 1..(Len(rs) - j) : q[k] = rs[j + k]
<1>1. Len(rs) \in Nat /\ j \in Nat /\ j + 1 \in Int /\ Len(rs) \in Int
  OBVIOUS
<1>2. \A i \in (j + 1)..Len(rs) : rs[i] \in Nat
  <2>1. \A i \in (j + 1)..Len(rs) : i \in 1..Len(rs)
    BY <1>1
  <2> QED BY <2>1, ElementOfSeq
<1>3. /\ q \in Seq(Nat)
      /\ Len(q) = IF j + 1 <= Len(rs) THEN Len(rs) - (j + 1) + 1 ELSE 0
      /\ \A i \in 1..(Len(rs) - (j + 1) + 1) : q[i] = rs[j + 1 + i - 1]
  BY <1>1, <1>2, SubSeqProperties
<1>4. Len(q) = Len(rs) - j
  BY <1>1, <1>3
<1>5. ASSUME NEW k \in 1..(Len(rs) - j) PROVE q[k] = rs[j + k]
  <2>1. k \in 1..(Len(rs) - (j + 1) + 1) /\ j + 1 + k - 1 = j + k
    BY <1>1
  <2> QED BY <1>3, <2>1
<1> QED BY <1>3, <1>4, <1>5

LEMMA TrimOfFile ==
  ASSUME NEW rs \in Seq(Nat), MaxBytes \in Nat, Len(FileOf(rs)) > MaxBytes
  PROVE  \E j \in 0..Len(rs) :
           /\ Trim(FileOf(rs)) = FileOf(SubSeq(rs, j + 1, Len(rs)))
           /\ Len(rs) - j >= (MaxBytes \div 4) - 1
<1> DEFINE f == FileOf(rs)
           n == Len(rs)
           L == 2 + 4 * n
           M == MaxBytes
           tail == SubSeq(f, Len(f) - M + 1, Len(f))
           nl == FirstNewline(tail)
           kept == SubSeq(tail, nl + 1, M)
<1>1. f \in Seq(Cells) /\ FileShape(f, rs) /\ Len(f) = L /\ n \in Nat /\ L \in Nat
  BY FileOfShape DEF FileShape
<1>2. \A i \in 1..L : f[i] = Newline <=> \E j \in 0..n : i = 4 * j + 2
  BY NewlinesOfFile
<1>3. Trim(f) = Header \o kept
  BY DEF Trim
<1>4. M \in Nat /\ M < L
  BY <1>1
<1> HIDE DEF f, M
<1>5. tail \in Seq(Cells) /\ Len(tail) = M /\ \A i \in 1..M : tail[i] = f[L - M + i]
  <2>1. \A i \in (L - M + 1)..L : f[i] \in Cells
    <3>1. \A i \in (L - M + 1)..L : i \in 1..Len(f)
      BY <1>1, <1>4
    <3> QED BY <1>1, <3>1, ElementOfSeq
  <2>2. L - M + 1 \in Int /\ L \in Int
    BY <1>1, <1>4
  <2>3. tail = SubSeq(f, L - M + 1, L)
    BY <1>1
  <2> HIDE DEF tail, L
  <2>4. /\ tail \in Seq(Cells)
        /\ Len(tail) = IF L - M + 1 <= L THEN L - (L - M + 1) + 1 ELSE 0
        /\ \A i \in 1..(L - (L - M + 1) + 1) : tail[i] = f[L - M + 1 + i - 1]
    BY <2>1, <2>2, <2>3, SubSeqProperties
  <2>5. Len(tail) = M
    BY <1>1, <1>4, <2>4
  <2>6. ASSUME NEW i \in 1..M PROVE tail[i] = f[L - M + i]
    <3>1. i \in 1..(L - (L - M + 1) + 1) /\ L - M + 1 + i - 1 = L - M + i
      BY <1>1, <1>4
    <3> QED BY <2>4, <3>1
  <2> QED BY <2>4, <2>5, <2>6
<1> HIDE DEF tail
<1>6. \/ nl = 0 /\ \A i \in 1..M : tail[i] # Newline
      \/ nl \in 1..M /\ tail[nl] = Newline /\ \A i \in 1..(nl - 1) : tail[i] # Newline
  BY <1>5, NewlineFound
<1> HIDE DEF nl
<1>7. nl \in 0..M
  BY <1>4, <1>6
<1>8. kept \in Seq(Cells) /\ Len(kept) = M - nl /\ \A i \in 1..(M - nl) : kept[i] = tail[nl + i]
  <2>1. \A i \in (nl + 1)..M : tail[i] \in Cells
    <3>1. \A i \in (nl + 1)..M : i \in 1..Len(tail)
      BY <1>4, <1>5, <1>7
    <3> QED BY <1>5, <3>1, ElementOfSeq
  <2>2. nl + 1 \in Int /\ M \in Int
    BY <1>4, <1>7
  <2>3. /\ kept \in Seq(Cells)
        /\ Len(kept) = IF nl + 1 <= M THEN M - (nl + 1) + 1 ELSE 0
        /\ \A i \in 1..(M - (nl + 1) + 1) : kept[i] = tail[nl + 1 + i - 1]
    BY <2>1, <2>2, SubSeqProperties
  <2> HIDE DEF kept
  <2>4. Len(kept) = M - nl
    BY <1>4, <1>7, <2>3
  <2>5. ASSUME NEW i \in 1..(M - nl) PROVE kept[i] = tail[nl + i]
    <3>1. i \in 1..(M - (nl + 1) + 1) /\ nl + 1 + i - 1 = nl + i
      BY <1>4, <1>7
    <3> QED BY <2>3, <3>1
  <2> QED BY <2>3, <2>4, <2>5
<1> HIDE DEF kept
(* What is kept begins after the j-th line, and so is whole lines. *)
<1>9. PICK j \in 0..n : Len(kept) = 4 * (n - j) /\ n - j >= (M \div 4) - 1
                       /\ \A i \in 1..(4 * (n - j)) : kept[i] = f[4 * j + 2 + i]
  <2>1. CASE M = 0
    <3>1. n \in 0..n /\ Len(kept) = 4 * (n - n) /\ n - n >= (M \div 4) - 1
      <4>1. nl = 0 /\ Len(kept) = 0
        <5>1. nl \in 0..0
          BY <1>7, <2>1
        <5>2. nl = 0
          BY <5>1
        <5>4. M - nl = 0 - 0 /\ 0 - 0 = 0
          BY <2>1, <5>2
        <5>3. Len(kept) = M - nl
          BY <1>8
        <5> QED BY <5>2, <5>3, <5>4, Zenon
      <4>2. n \in 0..n /\ 4 * (n - n) = 0 /\ n - n = 0
        BY <1>1
      <4>3. M \div 4 = 0
        BY <2>1
      <4> QED BY <4>1, <4>2, <4>3
    <3>2. \A i \in 1..(4 * (n - n)) : kept[i] = f[4 * n + 2 + i]
      BY <1>1
    <3> QED BY <3>1, <3>2
  <2>2. CASE M > 0
    <3>1. tail[M] = Newline
      <4>1. M \in 1..M /\ L - M + M = L /\ L \in 1..L /\ n \in 0..n /\ L = 4 * n + 2
        BY <1>1, <1>4, <2>2
      <4>2. f[L] = Newline
        BY <1>2, <4>1
      <4> QED BY <1>5, <4>1, <4>2
    <3>2. nl \in 1..M /\ tail[nl] = Newline /\ \A i \in 1..(nl - 1) : tail[i] # Newline
      <4>1. M \in 1..M
        BY <1>4, <2>2
      <4> QED BY <1>6, <3>1, <4>1
    <3> DEFINE p == L - M + nl
    <3>3. p \in 1..L /\ f[p] = Newline
      BY <1>1, <1>4, <1>5, <3>2
    <3>4. PICK j \in 0..n : p = 4 * j + 2
      <4> HIDE DEF p
      <4> QED BY <1>2, <3>3
    <3>5. M - nl = 4 * (n - j)
      BY <1>1, <1>4, <3>2, <3>4
    <3>6. nl <= 4
      <4> SUFFICES ASSUME nl >= 5 PROVE FALSE
        BY <3>2
      <4>1. nl - 4 \in 1..(nl - 1) /\ nl - 4 \in 1..M
        BY <1>4, <3>2
      <4>2. L - M + (nl - 4) = 4 * (j - 1) + 2
        BY <1>1, <1>4, <3>2, <3>4
      <4>3. j - 1 \in 0..n /\ 4 * (j - 1) + 2 \in 1..L
        BY <1>1, <1>4, <3>2, <3>4
      <4>4. f[4 * (j - 1) + 2] = Newline
        BY <1>2, <4>3
      <4>5. tail[nl - 4] = Newline
        BY <1>5, <4>1, <4>2, <4>4
      <4> QED BY <3>2, <4>1, <4>5
    <3>7. n - j >= (M \div 4) - 1
      <4>1. (M \div 4) \in Nat /\ 4 * (M \div 4) <= M
        BY <1>4
      <4> DEFINE q == M \div 4
      <4>2. q \in Nat /\ 4 * q <= M
        BY <4>1
      <4> HIDE DEF q
      <4>3. n - j >= q - 1
        BY <1>1, <1>4, <3>2, <3>5, <3>6, <4>2
      <4> QED BY <4>3 DEF q
    <3>8. ASSUME NEW i \in 1..(4 * (n - j)) PROVE kept[i] = f[4 * j + 2 + i]
      <4>1. i \in 1..(M - nl) /\ nl + i \in 1..M
        BY <1>4, <3>2, <3>5
      <4>2. L - M + (nl + i) = 4 * j + 2 + i
        <5>1. i \in Nat /\ j \in Nat /\ nl \in Nat /\ M \in Nat /\ L \in Nat
          BY <1>1, <1>4, <3>2
        <5>2. L - M + nl = 4 * j + 2
          BY <3>4
        <5> HIDE DEF L
        <5> QED BY <5>1, <5>2
      <4> QED BY <1>5, <1>8, <4>1, <4>2
    <3> QED BY <1>8, <3>5, <3>7, <3>8
  <2> QED BY <1>4, <2>1, <2>2
<1> DEFINE q == SubSeq(rs, j + 1, n)
           e == Header \o kept
<1>10. q \in Seq(Nat) /\ Len(q) = n - j /\ \A k \in 1..(n - j) : q[k] = rs[j + k]
  BY LastOfSeq
<1> HIDE DEF q
<1>11. /\ Header \in Seq(Cells) /\ Len(Header) = 2
       /\ Header[1] = Cell(0, "comment") /\ Header[2] = Newline
  BY DEF Header, Cell, Cells, Newline, Parts
<1>12. /\ e \in Seq(Cells) /\ Len(e) = 2 + Len(kept)
       /\ \A i \in 1..(2 + Len(kept)) : e[i] = IF i <= 2 THEN Header[i] ELSE kept[i - 2]
  <2>1. /\ e \in Seq(Cells) /\ Len(e) = Len(Header) + Len(kept)
        /\ \A i \in 1..(Len(Header) + Len(kept)) :
              e[i] = IF i <= Len(Header) THEN Header[i] ELSE kept[i - Len(Header)]
    BY <1>8, <1>11, ConcatProperties
  <2> HIDE DEF e
  <2> QED BY <1>11, <2>1
<1> HIDE DEF e
<1>13. Len(e) = 2 + 4 * Len(q) /\ e[1] = Cell(0, "comment") /\ e[2] = Newline
  BY <1>1, <1>9, <1>10, <1>11, <1>12
<1>14. ASSUME NEW i \in 1..(4 * (n - j)) PROVE e[i + 2] = f[4 * j + 2 + i]
  <2>1. i + 2 \in 1..(2 + Len(kept)) /\ ~(i + 2 <= 2) /\ i + 2 - 2 = i
    BY <1>1, <1>9
  <2>2. e[i + 2] = IF i + 2 <= 2 THEN Header[i + 2] ELSE kept[i + 2 - 2]
    BY <1>12, <2>1
  <2>3. e[i + 2] = kept[i]
    BY <2>1, <2>2
  <2>4. kept[i] = f[4 * j + 2 + i]
    BY <1>9
  <2> QED BY <2>3, <2>4
<1>15. ASSUME NEW k \in 1..Len(q)
       PROVE  /\ e[4 * k - 1] = Cell(q[k], "ts") /\ e[4 * k] = Cell(q[k], "meta")
              /\ e[4 * k + 1] = Cell(q[k], "hex") /\ e[4 * k + 2] = Newline
  <2>0. k \in 1..(n - j)
    BY <1>10
  <2>1. j + k \in 1..n /\ q[k] = rs[j + k]
    BY <1>1, <1>10, <2>0
  <2>2. /\ f[4 * (j + k) - 1] = Cell(rs[j + k], "ts") /\ f[4 * (j + k)] = Cell(rs[j + k], "meta")
        /\ f[4 * (j + k) + 1] = Cell(rs[j + k], "hex") /\ f[4 * (j + k) + 2] = Newline
    BY <1>1, <2>1 DEF FileShape
  <2>3. /\ 4 * k - 3 \in 1..(4 * (n - j)) /\ 4 * k - 2 \in 1..(4 * (n - j))
        /\ 4 * k - 1 \in 1..(4 * (n - j)) /\ 4 * k \in 1..(4 * (n - j))
    BY <1>1, <2>0
  <2>4. /\ 4 * k - 3 + 2 = 4 * k - 1 /\ 4 * k - 2 + 2 = 4 * k /\ 4 * k - 1 + 2 = 4 * k + 1
        /\ 4 * j + 2 + (4 * k - 3) = 4 * (j + k) - 1 /\ 4 * j + 2 + (4 * k - 2) = 4 * (j + k)
        /\ 4 * j + 2 + (4 * k - 1) = 4 * (j + k) + 1 /\ 4 * j + 2 + 4 * k = 4 * (j + k) + 2
    BY <1>1
  <2>5. /\ e[4 * k - 3 + 2] = f[4 * j + 2 + (4 * k - 3)] /\ e[4 * k - 2 + 2] = f[4 * j + 2 + (4 * k - 2)]
        /\ e[4 * k - 1 + 2] = f[4 * j + 2 + (4 * k - 1)] /\ e[4 * k + 2] = f[4 * j + 2 + 4 * k]
    BY <1>14, <2>3
  <2> QED BY <2>1, <2>2, <2>4, <2>5
<1>16. e = FileOf(q)
  BY <1>10, <1>12, <1>13, <1>15, ShapeIsFile DEF FileShape
<1>17. Trim(f) = FileOf(q)
  BY <1>3, <1>16 DEF e
<1> QED BY <1>9, <1>17 DEF q, f, M
-----------------------------------------------------------------------------
(* Reading back. *)

LEMMA ReadAllTyped ==
  ASSUME NEW d \in Seq(Cells) PROVE ReadAll(d) \in Seq(Nat)
<1>1. Reading(d) \in Readings
  BY ReadingStep, CellsOfText
<1>2. Reading(d).read \in Seq(Nat) /\ ParseLine(Reading(d).line) \in Seq(Nat)
  BY <1>1, ParseLineTyped DEF Readings
<1> QED BY <1>2, ConcatProperties DEF ReadAll

LEMMA FileNotEmpty ==
  ASSUME NEW rs \in Seq(Nat) PROVE FileOf(rs) # <<>>
<1>1. FileOf(rs) \in Seq(Cells) /\ Len(FileOf(rs)) = 2 + 4 * Len(rs) /\ Len(rs) \in Nat
  BY FileOfShape DEF FileShape
<1>2. Len(FileOf(rs)) # 0
  BY <1>1
<1> QED BY <1>2, EmptySeq

(* The records from the one after t up to the a-th. *)
From(t, a) == [i \in 1..(a - t) |-> t + i]

LEMMA FromTyped ==
  ASSUME NEW a \in Nat, NEW t \in 0..a
  PROVE  From(t, a) \in Seq(Nat) /\ Len(From(t, a)) = a - t
<1>1. a - t \in Nat /\ \A i \in 1..(a - t) : t + i \in Nat
  OBVIOUS
<1>2. From(t, a) \in [1..(a - t) -> Nat]
  BY <1>1 DEF From
<1> QED BY <1>1, <1>2

LEMMA FromAppend ==
  ASSUME NEW a \in Nat, NEW t \in 0..a
  PROVE  Append(From(t, a), a + 1) = From(t, a + 1)
<1> DEFINE u == From(t, a)
           v == From(t, a + 1)
           w == Append(u, a + 1)
<1>1. u \in Seq(Nat) /\ Len(u) = a - t /\ \A i \in 1..(a - t) : u[i] = t + i
  BY FromTyped DEF From
<1>2. v \in Seq(Nat) /\ Len(v) = a + 1 - t /\ \A i \in 1..(a + 1 - t) : v[i] = t + i
  <2>1. a + 1 \in Nat /\ t \in 0..(a + 1)
    OBVIOUS
  <2> QED BY <2>1, FromTyped DEF From
<1> HIDE DEF u, v
<1>3. w \in Seq(Nat) /\ Len(w) = Len(u) + 1 /\ w[Len(u) + 1] = a + 1 /\ \A i \in 1..Len(u) : w[i] = u[i]
  BY <1>1, AppendProperties
<1> HIDE DEF w
<1>4. ASSUME NEW i \in 1..Len(w) PROVE w[i] = v[i]
  <2>1. i \in 1..(a - t) \/ (i = Len(u) + 1 /\ i = a - t + 1)
    BY <1>1, <1>3
  <2>2. i \in 1..(a + 1 - t)
    BY <1>1, <1>3
  <2>3. v[i] = t + i
    BY <1>2, <2>2
  <2>4. w[i] = t + i
    <3>1. CASE i \in 1..(a - t)
      BY <1>1, <1>3, <3>1
    <3>2. CASE i = Len(u) + 1 /\ i = a - t + 1
      <4>1. t + i = a + 1
        BY <3>2
      <4> QED BY <1>3, <3>2, <4>1
    <3> QED BY <2>1, <3>1, <3>2
  <2> QED BY <2>3, <2>4
<1>5. Len(w) = Len(v)
  BY <1>1, <1>2, <1>3
<1>6. w = v
  BY <1>2, <1>3, <1>4, <1>5, SeqEqual
<1> QED BY <1>6 DEF u, v, w

LEMMA FromSubSeq ==
  ASSUME NEW a \in Nat, NEW t \in 0..a, NEW j \in 0..(a - t)
  PROVE  /\ SubSeq(From(t, a), j + 1, Len(From(t, a))) = From(t + j, a)
         /\ t + j \in 0..a
<1> DEFINE u == From(t, a)
           v == From(t + j, a)
           w == SubSeq(u, j + 1, Len(u))
<1>0. t + j \in 0..a
  OBVIOUS
<1>1. u \in Seq(Nat) /\ Len(u) = a - t /\ \A i \in 1..(a - t) : u[i] = t + i
  BY FromTyped DEF From
<1>2. v \in Seq(Nat) /\ Len(v) = a - (t + j) /\ \A i \in 1..(a - (t + j)) : v[i] = t + j + i
  BY <1>0, FromTyped DEF From
<1> HIDE DEF u, v
<1>3. j \in 0..Len(u)
  BY <1>1
<1>4. w \in Seq(Nat) /\ Len(w) = Len(u) - j /\ \A k \in 1..(Len(u) - j) : w[k] = u[j + k]
  BY <1>1, <1>3, LastOfSeq
<1> HIDE DEF w
<1>5. ASSUME NEW i \in 1..Len(w) PROVE w[i] = v[i]
  <2>1. i \in 1..(Len(u) - j) /\ j + i \in 1..(a - t) /\ i \in 1..(a - (t + j)) /\ t + (j + i) = t + j + i
    BY <1>1, <1>4
  <2> QED BY <1>1, <1>2, <1>4, <2>1
<1>6. Len(w) = Len(v)
  BY <1>1, <1>2, <1>4
<1>7. w = v
  BY <1>2, <1>4, <1>5, <1>6, SeqEqual
<1> QED BY <1>0, <1>7 DEF u, v, w

LEMMA RecordsOfFile ==
  ASSUME NEW rs \in Seq(Nat)
  PROVE  RecordsIn(FileOf(rs)) = {rs[k] : k \in 1..Len(rs)} \ {0}
<1> DEFINE f == FileOf(rs)
<1>1. f \in Seq(Cells) /\ FileShape(f, rs) /\ Len(rs) \in Nat
  BY FileOfShape
<1>2. DOMAIN f = 1..(2 + 4 * Len(rs))
  BY <1>1 DEF FileShape
<1> HIDE DEF f
<1>3. ASSUME NEW i \in DOMAIN f, f[i].rec # 0
      PROVE  \E k \in 1..Len(rs) : f[i].rec = rs[k]
  <2>1. f[1].rec = 0 /\ f[2].rec = 0
    <3>1. Cell(0, "comment").rec = 0 /\ Newline.rec = 0
      BY DEF Cell, Newline
    <3> QED BY <1>1, <3>1 DEF FileShape
  <2>2. i \in Nat /\ i >= 3 /\ i <= 2 + 4 * Len(rs)
    <3>1. i \in 1..(2 + 4 * Len(rs)) /\ i # 1 /\ i # 2
      BY <1>2, <1>3, <2>1
    <3> QED BY <1>1, <3>1
  <2>3. PICK k \in Nat : k >= 1 /\ (i = 4 * k - 1 \/ i = 4 * k \/ i = 4 * k + 1 \/ i = 4 * k + 2)
    BY <2>2, FourCells
  <2>4. k \in 1..Len(rs)
    BY <1>1, <2>2, <2>3
  <2>5. /\ f[4 * k - 1] = Cell(rs[k], "ts") /\ f[4 * k] = Cell(rs[k], "meta")
        /\ f[4 * k + 1] = Cell(rs[k], "hex") /\ f[4 * k + 2] = Newline
    BY <1>1, <2>4 DEF FileShape
  <2>6. Cell(rs[k], "ts").rec = rs[k] /\ Cell(rs[k], "meta").rec = rs[k] /\ Cell(rs[k], "hex").rec = rs[k]
        /\ Newline.rec = 0
    BY DEF Cell, Newline
  <2>7. f[i].rec = rs[k]
    BY <1>3, <2>3, <2>5, <2>6
  <2> QED BY <2>4, <2>7
<1>4. ASSUME NEW k \in 1..Len(rs) PROVE \E i \in DOMAIN f : f[i].rec = rs[k]
  <2>1. 4 * k \in DOMAIN f
    BY <1>1, <1>2
  <2>2. f[4 * k] = Cell(rs[k], "meta")
    BY <1>1 DEF FileShape
  <2>3. Cell(rs[k], "meta").rec = rs[k]
    BY DEF Cell
  <2> QED BY <2>1, <2>2, <2>3
<1>5. RecordsIn(f) = {rs[k] : k \in 1..Len(rs)} \ {0}
  <2>1. ASSUME NEW x, x \in RecordsIn(f) PROVE x \in {rs[k] : k \in 1..Len(rs)} \ {0}
    <3>1. PICK i \in DOMAIN f : x = f[i].rec
      BY <2>1 DEF RecordsIn
    <3>2. x # 0
      BY <2>1 DEF RecordsIn
    <3> QED BY <1>3, <3>1, <3>2
  <2>2. ASSUME NEW x, x \in {rs[k] : k \in 1..Len(rs)} \ {0} PROVE x \in RecordsIn(f)
    <3>1. PICK k \in 1..Len(rs) : x = rs[k]
      BY <2>2
    <3>2. PICK i \in DOMAIN f : f[i].rec = rs[k]
      BY <1>4
    <3> QED BY <2>2, <3>1, <3>2 DEF RecordsIn
  <2> QED BY <2>1, <2>2
<1> QED BY <1>5 DEF f

(* The records a rewrite drops when it drops the first j of those from t up   *)
(* to a, and what it notes as the latest one dropped.                        *)
Dropped(t, j, a) == RecordsIn(FileOf(From(t, a))) \ RecordsIn(FileOf(From(t + j, a)))

LEMMA LatestDropped ==
  ASSUME NEW a \in Nat, NEW t \in 0..a, NEW j \in 0..(a - t)
  PROVE  /\ Dropped(t, j, a) = {} => t = t + j
         /\ Dropped(t, j, a) # {} => Max(Dropped(t, j, a)) = t + j
<1> DEFINE gone == Dropped(t, j, a)
<1>1. t + j \in 0..a
  OBVIOUS
<1>2. ASSUME NEW s \in 0..a PROVE RecordsIn(FileOf(From(s, a))) = (s + 1)..a
  <2> DEFINE u == From(s, a)
  <2>1. u \in Seq(Nat) /\ Len(u) = a - s /\ \A i \in 1..(a - s) : u[i] = s + i
    BY FromTyped DEF From
  <2> HIDE DEF u
  <2>2. RecordsIn(FileOf(u)) = {u[k] : k \in 1..(a - s)} \ {0}
    BY <2>1, RecordsOfFile
  <2>3. ASSUME NEW x \in (s + 1)..a PROVE x \in {u[k] : k \in 1..(a - s)} \ {0}
    <3>1. x - s \in 1..(a - s) /\ s + (x - s) = x /\ x # 0
      OBVIOUS
    <3> QED BY <2>1, <3>1
  <2>4. ASSUME NEW k \in 1..(a - s) PROVE u[k] \in (s + 1)..a
    <3>1. s + k \in (s + 1)..a
      OBVIOUS
    <3> QED BY <2>1, <3>1
  <2>5. {u[k] : k \in 1..(a - s)} \ {0} = (s + 1)..a
    BY <2>3, <2>4
  <2> QED BY <2>2, <2>5 DEF u
<1>3. gone = (t + 1)..(t + j)
  <2>1. gone = ((t + 1)..a) \ ((t + j + 1)..a)
    <3>1. t \in 0..a
      OBVIOUS
    <3> QED BY <1>1, <1>2, <3>1 DEF Dropped
  <2>2. ((t + 1)..a) \ ((t + j + 1)..a) = (t + 1)..(t + j)
    OBVIOUS
  <2> QED BY <2>1, <2>2
<1> HIDE DEF gone
<1>4. CASE j = 0
  <2>1. gone = {}
    BY <1>3, <1>4
  <2> QED BY <1>4, <2>1 DEF gone
<1>5. CASE j # 0
  <2>1. t + j \in gone /\ \A y \in gone : y <= t + j
    BY <1>3, <1>5
  <2>2. gone \subseteq 0..a /\ gone # {}
    BY <1>1, <1>3, <2>1
  <2>3. Max(gone) \in gone /\ \A y \in gone : y <= Max(gone)
    BY <2>2, LatestOf
  <2>4. Max(gone) = t + j
    <3>1. Max(gone) <= t + j /\ t + j <= Max(gone)
      BY <2>1, <2>3
    <3>2. Max(gone) \in Int /\ t + j \in Int
      BY <1>3, <2>3
    <3> HIDE DEF Max
    <3> QED BY <3>1, <3>2
  <2> QED BY <2>1, <2>4 DEF gone
<1> QED BY <1>4, <1>5 DEF gone

LEMMA DiskTyped == TypeOK => disk \in Seq(Cells) /\ ReadAll(disk) \in Seq(Nat)
<1> SUFFICES ASSUME TypeOK PROVE disk \in Seq(Cells) /\ ReadAll(disk) \in Seq(Nat)
  OBVIOUS
<1>1. [rec : 0..attempt, part : Parts] \subseteq Cells
  BY DEF Cells
<1>2. disk \in Seq([rec : 0..attempt, part : Parts])
  BY DEF TypeOK
<1>3. disk \in Seq(Cells)
  BY <1>1, <1>2, SeqMonotonic, Zenon
<1> QED BY <1>3, ReadAllTyped

(* A rewrite keeps the last of the lines of a whole file. *)
LEMMA RenameTrims ==
  ASSUME TypeOK, CleanReadBack, Rename, tears = 0
  PROVE  \E j \in 0..Len(ReadAll(disk)) :
           LET q == SubSeq(ReadAll(disk), j + 1, Len(ReadAll(disk)))
           IN  /\ q \in Seq(Nat) /\ disk' = FileOf(q) /\ ReadAll(disk') = q
               /\ Len(ReadAll(disk)) - j >= (MaxBytes \div 4) - 1
<1> DEFINE rs == ReadAll(disk)
<1>1. rs \in Seq(Nat) /\ disk = FileOf(rs)
  BY DiskTyped DEF CleanReadBack, WholeLines, Rename
<1>2. MaxBytes \in Nat /\ Len(disk) > MaxBytes /\ disk' = Trim(disk)
  BY ConstantsTyped DEF Rename, TypeOK
<1> HIDE DEF rs
<1>3. PICK j \in 0..Len(rs) : /\ Trim(FileOf(rs)) = FileOf(SubSeq(rs, j + 1, Len(rs)))
                             /\ Len(rs) - j >= (MaxBytes \div 4) - 1
  BY <1>1, <1>2, TrimOfFile
<1> DEFINE q == SubSeq(rs, j + 1, Len(rs))
<1>4. q \in Seq(Nat)
  BY <1>1, LastOfSeq
<1>5. disk' = FileOf(q)
  BY <1>1, <1>2, <1>3
<1>6. ReadAll(disk') = q
  <2> HIDE DEF q
  <2> QED BY <1>4, <1>5, FileIsRead
<1> QED BY <1>3, <1>4, <1>5, <1>6 DEF rs

LEMMA InitCleanReadBack == Init => CleanReadBack
<1> SUFFICES ASSUME Init PROVE CleanReadBack
  OBVIOUS
<1>1. ReadAll(disk) = <<>> /\ attempt - trimmed = 0
  BY ReadingEmpty DEF Init
<1>2. [i \in 1..0 |-> trimmed + i] = <<>>
  OBVIOUS
<1>3. WholeLines
  BY DEF Init, WholeLines
<1> QED BY <1>1, <1>2, <1>3 DEF CleanReadBack, Init

LEMMA NextCleanReadBack == TypeOK /\ CleanReadBack /\ [Next]_vars => CleanReadBack'
<1> SUFFICES ASSUME TypeOK, CleanReadBack, [Next]_vars, tears' = 0 PROVE CleanReadBack'
  BY DEF CleanReadBack
<1> DEFINE rs == ReadAll(disk)
           qs == ReadAll(disk')
<1>1. disk \in Seq(Cells) /\ rs \in Seq(Nat)
  BY DiskTyped
<1>2. tears \in Nat /\ orphaned \in Nat /\ attempt \in Nat /\ trimmed \in 0..attempt
  BY ConstantsTyped DEF TypeOK
<1>3. tears = 0 => /\ WholeLines
                   /\ orphaned = 0 => /\ handle # "unlinked" \/ step = "reopen"
                                      /\ rs = From(trimmed, attempt)
  BY DEF CleanReadBack, From
<1>4. SUFFICES /\ WholeLines'
               /\ orphaned' = 0 => /\ handle' # "unlinked" \/ step' = "reopen"
                                   /\ qs = From(trimmed', attempt')
  BY DEF CleanReadBack, From
<1>5. WholeLines' <=> IF step' = "newline" /\ handle' = "path"
                      THEN Append(disk', Newline) = FileOf(qs)
                      ELSE disk' = FileOf(qs) \/ (step' = "down" /\ disk' = <<>> /\ attempt' = 0)
  BY DEF WholeLines
<1>6. disk' = disk => qs = rs
  OBVIOUS
<1>7. WholeLines <=> IF step = "newline" /\ handle = "path"
                     THEN Append(disk, Newline) = FileOf(rs)
                     ELSE disk = FileOf(rs) \/ (step = "down" /\ disk = <<>> /\ attempt = 0)
  BY DEF WholeLines
<1>8. step = "down" <=> handle = "none"
  BY DEF TypeOK
<1>9. handle \in {"path", "unlinked", "none"}
  BY DEF TypeOK
<1> HIDE DEF rs, qs
<1>a. CASE Open
  <2>1. /\ step = "down" /\ step' = "idle" /\ handle' = "path" /\ tears = 0
        /\ UNCHANGED <<attempt, trimmed, orphaned>>
    BY <1>a DEF Open
  <2>2. CASE disk = <<>>
    <3>1. disk' = Header /\ Header = FileOf(<<>>)
      BY <1>a, <2>2, HeaderIsRead DEF Open
    <3>2. qs = <<>>
      <4>1. <<>> \in Seq(Nat)
        OBVIOUS
      <4> QED BY <3>1, <4>1, FileIsRead DEF qs
    <3>3. rs = <<>>
      BY <2>2, ReadingEmpty DEF rs
    <3> QED BY <1>3, <1>5, <2>1, <3>1, <3>2, <3>3
  <2>3. CASE disk # <<>>
    <3>1. disk' = disk
      BY <1>a, <2>3 DEF Open
    <3> QED BY <1>3, <1>5, <1>6, <1>7, <2>1, <2>3, <3>1
  <2> QED BY <2>2, <2>3
<1>b. CASE OpenTorn
  BY <1>2, <1>b DEF OpenTorn
<1>c. CASE WriteText
  <2>1. /\ step = "idle" /\ step' = "newline" /\ handle' = handle /\ tears = 0
        /\ attempt' = attempt + 1 /\ UNCHANGED <<trimmed, orphaned>>
    BY <1>c DEF WriteText
  <2>2. disk = FileOf(rs)
    BY <1>3, <1>7, <2>1
  <2>3. CASE handle = "path"
    <3>1. disk' = disk \o Text(attempt + 1)
      BY <1>c, <2>3 DEF WriteText, Write
    <3>2. attempt + 1 \in Nat
      BY <1>2
    <3>3. disk' = WithText(FileOf(rs), attempt + 1)
      BY <1>1, <2>2, <3>1, <3>2, WithTextIsConcat
    <3>4. Append(disk', Newline) = FileOf(Append(rs, attempt + 1))
      BY <1>1, <3>2, <3>3, FileOfAppend
    <3>5. qs = Append(rs, attempt + 1)
      <4>1. Reading(FileOf(rs)) = [read |-> rs, line |-> <<>>] /\ FileOf(rs) \in Seq(Cells)
        BY <1>1, FileIsRead, FileOfShape
      <4> QED BY <1>1, <3>2, <3>3, <4>1, ReadingText DEF qs
    <3>6. orphaned = 0 => qs = From(trimmed, attempt + 1)
      BY <1>2, <1>3, <2>1, <3>5, FromAppend
    <3> QED BY <1>5, <2>1, <2>3, <3>4, <3>5, <3>6
  <2>4. CASE handle # "path"
    <3>1. disk' = disk
      BY <1>c, <2>4 DEF WriteText, Write
    <3>2. orphaned # 0
      BY <1>3, <1>8, <1>9, <2>1, <2>4
    <3> QED BY <1>5, <1>6, <2>1, <2>2, <2>4, <3>1, <3>2
  <2> QED BY <2>3, <2>4
<1>d. CASE WriteTextTorn
  BY <1>2, <1>d DEF WriteTextTorn
<1>e. CASE WriteNewline
  <2>1. /\ step = "newline" /\ step' \in {"idle", "vacuum"} /\ handle' = handle /\ tears = 0
        /\ UNCHANGED <<attempt, trimmed, orphaned>>
    BY <1>e DEF WriteNewline, Due, Retains
  <2>2. CASE handle = "path"
    <3>1. Append(disk, Newline) = FileOf(rs)
      BY <1>3, <1>7, <2>1, <2>2
    <3>2. disk' = disk \o <<Newline>>
      BY <1>e, <2>2 DEF WriteNewline, Write
    <3>3. disk' = FileOf(rs)
      <4>1. Newline \in Cells
        BY CellsOfText
      <4> QED BY <1>1, <3>1, <3>2, <4>1, AppendIsConcat
    <3>4. qs = rs
      BY <1>1, <3>3, FileIsRead DEF qs
    <3> QED BY <1>3, <1>5, <2>1, <2>2, <3>3, <3>4
  <2>3. CASE handle # "path"
    <3>1. disk' = disk
      BY <1>e, <2>3 DEF WriteNewline, Write
    <3> QED BY <1>3, <1>5, <1>6, <1>7, <2>1, <2>3, <3>1
  <2> QED BY <2>2, <2>3
<1>f. CASE WriteNewlineFails
  BY <1>2, <1>f DEF WriteNewlineFails
<1>g. CASE Vacuum
  <2>1. /\ step = "vacuum" /\ step' \in {"rename", "reopen"} /\ handle' = handle /\ tears = 0
        /\ UNCHANGED <<disk, attempt, trimmed, orphaned>>
    BY <1>g DEF Vacuum
  <2> QED BY <1>3, <1>5, <1>6, <1>7, <2>1
<1>h. CASE Rename
  <2>1. /\ step = "rename" /\ step' = "reopen" /\ tears = 0 /\ UNCHANGED <<attempt, orphaned>>
    BY <1>h DEF Rename
  <2>2. PICK j \in 0..Len(rs) : /\ disk' = FileOf(SubSeq(rs, j + 1, Len(rs)))
                               /\ qs = SubSeq(rs, j + 1, Len(rs))
    BY <1>h, <2>1, RenameTrims DEF rs, qs
  <2>3. ASSUME orphaned = 0 PROVE qs = From(trimmed', attempt)
    <3>1. rs = From(trimmed, attempt) /\ disk = FileOf(rs)
      BY <1>3, <1>7, <2>1, <2>3
    <3>2. j \in 0..(attempt - trimmed)
      BY <1>2, <3>1, FromTyped
    <3>3. qs = From(trimmed + j, attempt)
      BY <1>2, <2>2, <3>1, <3>2, FromSubSeq
    <3> DEFINE gone == RecordsIn(disk) \ RecordsIn(Trim(disk))
    <3>4. trimmed' = IF gone = {} THEN trimmed ELSE Max(gone)
      BY <1>h DEF Rename
    <3>5. Trim(disk) = FileOf(From(trimmed + j, attempt))
      BY <1>h, <2>2, <3>3 DEF Rename
    <3>6. gone = RecordsIn(FileOf(From(trimmed, attempt))) \ RecordsIn(FileOf(From(trimmed + j, attempt)))
      BY <3>1, <3>5
    <3> HIDE DEF gone
    <3>7. trimmed' = trimmed + j
      <4>1. /\ gone = {} => trimmed = trimmed + j
            /\ gone # {} => Max(gone) = trimmed + j
        <5>1. attempt \in Nat /\ trimmed \in 0..attempt /\ j \in 0..(attempt - trimmed)
          BY <1>2, <3>2
        <5>2. /\ Dropped(trimmed, j, attempt) = {} => trimmed = trimmed + j
              /\ Dropped(trimmed, j, attempt) # {} => Max(Dropped(trimmed, j, attempt)) = trimmed + j
          BY <5>1, LatestDropped
        <5>3. gone = Dropped(trimmed, j, attempt)
          BY <3>6, Zenon DEF Dropped
        <5> QED BY <5>2, <5>3, Zenon
      <4> QED BY <3>4, <4>1, Zenon
    <3> QED BY <3>3, <3>7
  <2>4. disk' = FileOf(qs)
    BY <2>2
  <2> QED BY <1>5, <2>1, <2>3, <2>4
<1>i. CASE VacuumFails
  <2>1. /\ step \in {"vacuum", "rename"} /\ step' = "idle" /\ handle' = handle /\ tears = 0
        /\ UNCHANGED <<disk, attempt, trimmed, orphaned>>
    BY <1>i DEF VacuumFails
  <2> QED BY <1>3, <1>5, <1>6, <1>7, <2>1
<1>j. CASE Reopen
  <2>1. /\ step = "reopen" /\ step' = "idle" /\ handle' = "path" /\ tears = 0
        /\ UNCHANGED <<disk, attempt, trimmed, orphaned>>
    BY <1>j DEF Reopen
  <2> QED BY <1>3, <1>5, <1>6, <1>7, <2>1
<1>k. CASE ReopenFails
  <2>1. /\ step = "reopen" /\ step' = "idle" /\ handle' = handle /\ tears = 0
        /\ UNCHANGED <<disk, attempt, trimmed>>
    BY <1>k DEF ReopenFails
  <2>2. orphaned' # 0
    BY <1>2, <1>k DEF ReopenFails
  <2> QED BY <1>3, <1>5, <1>6, <1>7, <2>1, <2>2
<1>l. CASE Crash
  <2>1. /\ step # "down" /\ step' = "down" /\ handle' = "none"
        /\ UNCHANGED <<disk, attempt, trimmed, orphaned>>
    BY <1>l DEF Crash
  <2>2. step # "newline" /\ tears = 0
    BY <1>2, <1>l DEF Crash
  <2> QED BY <1>3, <1>5, <1>6, <1>7, <2>1, <2>2
<1>m. CASE UNCHANGED vars
  <2>1. UNCHANGED <<disk, handle, step, attempt, trimmed, tears, orphaned>>
    BY <1>m DEF vars
  <2> QED BY <1>3, <1>5, <1>6, <1>7, <2>1
<1> QED BY <1>a, <1>b, <1>c, <1>d, <1>e, <1>f, <1>g, <1>h, <1>i, <1>j, <1>k, <1>l, <1>m DEF Next

(* As long as no line was cut short and no reopen failed, read_all gives      *)
(* every record that was not trimmed, in the order they were appended.       *)
THEOREM JournalReadsBack == Spec => []CleanReadBack
<1>1. Spec => [](TypeOK /\ CleanReadBack)
  BY InitTypeOK, NextTypeOK, InitCleanReadBack, NextCleanReadBack, PTL DEF Spec
<1> QED BY <1>1, PTL

LEMMA FunctionIsSeq ==
  ASSUME NEW S, NEW n \in Nat, NEW f \in [1..n -> S] PROVE f \in Seq(S) /\ Len(f) = n
  OBVIOUS

LEMMA SuffixOfSeq ==
  ASSUME NEW rs \in Seq(Nat), NEW j \in 0..Len(rs)
  PROVE  IsSuffix(SubSeq(rs, j + 1, Len(rs)), rs)
<1> DEFINE q == SubSeq(rs, j + 1, Len(rs))
           a == Reverse(q)
           b == Reverse(rs)
<1>1. q \in Seq(Nat) /\ Len(q) = Len(rs) - j /\ \A k \in 1..(Len(rs) - j) : q[k] = rs[j + k]
  BY LastOfSeq
<1>2. Len(rs) \in Nat /\ Len(q) \in Nat /\ Len(q) <= Len(rs)
  BY <1>1
<1> HIDE DEF q
<1>3. a \in Seq(Nat) /\ Len(a) = Len(q) /\ \A i \in 1..Len(q) : a[i] = q[(Len(q) - i) + 1]
  <2>1. \A i \in 1..Len(q) : (Len(q) - i) + 1 \in 1..Len(q)
    BY <1>2
  <2>2. a \in [1..Len(q) -> Nat] /\ \A i \in 1..Len(q) : a[i] = q[(Len(q) - i) + 1]
    BY <1>1, <2>1, ElementOfSeq DEF Reverse
  <2> HIDE DEF a
  <2>3. a \in Seq(Nat) /\ Len(a) = Len(q)
    BY <1>2, <2>2, FunctionIsSeq
  <2> QED BY <2>2, <2>3
<1>4. b \in Seq(Nat) /\ Len(b) = Len(rs) /\ \A i \in 1..Len(rs) : b[i] = rs[(Len(rs) - i) + 1]
  <2>1. \A i \in 1..Len(rs) : (Len(rs) - i) + 1 \in 1..Len(rs)
    BY <1>2
  <2>2. b \in [1..Len(rs) -> Nat] /\ \A i \in 1..Len(rs) : b[i] = rs[(Len(rs) - i) + 1]
    BY <2>1, ElementOfSeq DEF Reverse
  <2> HIDE DEF b
  <2>3. b \in Seq(Nat) /\ Len(b) = Len(rs)
    BY <1>2, <2>2, FunctionIsSeq
  <2> QED BY <2>2, <2>3
<1> HIDE DEF a, b
<1>5. ASSUME NEW i \in 1..Len(q) PROVE a[i] = b[i]
  <2>1. /\ (Len(q) - i) + 1 \in 1..(Len(rs) - j) /\ j + ((Len(q) - i) + 1) = (Len(rs) - i) + 1
        /\ i \in 1..Len(rs)
    <3>1. \A m \in Nat, n \in Nat : m = n - j /\ i \in 1..m =>
            (m - i) + 1 \in 1..(n - j) /\ j + ((m - i) + 1) = (n - i) + 1 /\ i \in 1..n
      BY <1>2
    <3> QED BY <1>1, <1>2, <3>1
  <2>2. a[i] = q[(Len(q) - i) + 1] /\ b[i] = rs[(Len(rs) - i) + 1]
    BY <1>3, <1>4, <2>1
  <2> QED BY <1>1, <2>1, <2>2
<1>6. SubSeq(a, 1, Len(a)) = SubSeq(b, 1, Len(a))
  <2> DEFINE n == Len(a)
             x == SubSeq(a, 1, n)
             y == SubSeq(b, 1, n)
  <2>1. n \in Nat /\ n = Len(q) /\ n <= Len(b)
    BY <1>2, <1>3, <1>4
  <2> HIDE DEF n
  <2>2. \A i \in 1..n : a[i] \in Nat /\ b[i] \in Nat
    <3>1. \A i \in 1..n : i \in 1..Len(a) /\ i \in 1..Len(b)
      BY <1>3, <2>1
    <3> QED BY <1>3, <1>4, <3>1, ElementOfSeq
  <2>3. 1 \in Int /\ n \in Int /\ n - 1 + 1 = n
    BY <2>1
  <2>4. x \in Seq(Nat) /\ Len(x) = (IF 1 <= n THEN n - 1 + 1 ELSE 0) /\ \A i \in 1..(n - 1 + 1) : x[i] = a[1 + i - 1]
    BY <2>2, <2>3, SubSeqProperties
  <2>5. y \in Seq(Nat) /\ Len(y) = (IF 1 <= n THEN n - 1 + 1 ELSE 0) /\ \A i \in 1..(n - 1 + 1) : y[i] = b[1 + i - 1]
    BY <2>2, <2>3, SubSeqProperties
  <2> HIDE DEF x, y
  <2>6. Len(x) = n /\ Len(y) = n
    BY <2>1, <2>4, <2>5
  <2>7. ASSUME NEW i \in 1..Len(x) PROVE x[i] = y[i]
    <3>1. i \in 1..n /\ i \in 1..(n - 1 + 1) /\ 1 + i - 1 = i /\ i \in 1..Len(q)
      BY <2>1, <2>6
    <3>2. x[i] = a[i] /\ y[i] = b[i]
      BY <2>4, <2>5, <3>1
    <3> QED BY <1>5, <3>1, <3>2
  <2>8. x = y
    BY <2>4, <2>5, <2>6, <2>7, SeqEqual
  <2> QED BY <2>8 DEF x, y, n
<1>7. Len(a) <= Len(b)
  BY <1>2, <1>3, <1>4
<1>8. IsPrefix(a, b)
  BY <1>6, <1>7, Zenon DEF IsPrefix
<1> QED BY <1>8, Zenon DEF IsSuffix, a, b, q

(* A vacuum drops old records only, and keeps as many as fit but one.        *)
THEOREM VacuumDropsOldest == Spec => VacuumKeepsTail
<1> DEFINE Kept == /\ IsSuffix(ReadAll(disk'), ReadAll(disk))
                   /\ Len(ReadAll(disk')) >= (MaxBytes \div LineCells) - 1
<1>1. TypeOK /\ CleanReadBack /\ [Next]_vars => [step = "rename" /\ tears = 0 /\ disk' # disk => Kept]_vars
  <2> SUFFICES ASSUME TypeOK, CleanReadBack, Next, step = "rename", tears = 0, disk' # disk
               PROVE  Kept
    BY DEF vars
  <2>1. Rename
    BY DEF Next, Open, OpenTorn, WriteText, WriteTextTorn, WriteNewline, WriteNewlineFails,
           Vacuum, VacuumFails, Reopen, ReopenFails, Crash
  <2>2. ReadAll(disk) \in Seq(Nat)
    BY DiskTyped
  <2> DEFINE rs == ReadAll(disk)
             qs == ReadAll(disk')
  <2>3. PICK j \in 0..Len(rs) : /\ qs = SubSeq(rs, j + 1, Len(rs))
                               /\ Len(rs) - j >= (MaxBytes \div 4) - 1
    BY <2>1, RenameTrims
  <2> HIDE DEF rs, qs
  <2>4. IsSuffix(qs, rs)
    BY <2>2, <2>3, SuffixOfSeq DEF rs
  <2>5. Len(qs) = Len(rs) - j
    BY <2>2, <2>3, LastOfSeq DEF rs
  <2> QED BY <2>3, <2>4, <2>5 DEF rs, qs, LineCells
<1>2. Spec => [](TypeOK /\ CleanReadBack)
  BY InitTypeOK, NextTypeOK, InitCleanReadBack, NextCleanReadBack, PTL DEF Spec
<1> QED BY <1>1, <1>2, PTL DEF Spec, VacuumKeepsTail
-----------------------------------------------------------------------------
(* What a record whose append was acknowledged can be lost to: its line runs *)
(* into one that was cut short, or it was written to a file without a name.  *)

(* The line of record r is whole and begins at p; r is nowhere else in d.    *)
LineAt(d, p, r) ==
  /\ p \in Nat /\ 1 <= p /\ p + 3 <= Len(d)
  /\ d[p] = Cell(r, "ts") /\ d[p + 1] = Cell(r, "meta") /\ d[p + 2] = Cell(r, "hex")
  /\ d[p + 3] = Newline
  /\ \A i \in 1..Len(d) : d[i].rec = r => p <= i /\ i <= p + 2

(* The line of r runs into what is before it, which ends without a newline.  *)
JoinedAt(d, p, r) == LineAt(d, p, r) /\ p > 1 /\ d[p - 1] # Newline

LEMMA CellParts ==
  ASSUME NEW r, NEW p
  PROVE  Cell(r, p).rec = r /\ Cell(r, p).part = p
  BY DEF Cell

LEMMA NewlineParts == Newline.rec = 0 /\ Newline.part = "nl"
  BY DEF Newline, Cell

LEMMA LineOnce ==
  ASSUME NEW d \in Seq(Cells), NEW r, NEW p, NEW q, LineAt(d, p, r), LineAt(d, q, r)
  PROVE  p = q
<1>1. d[p].rec = r /\ d[q].rec = r /\ p \in 1..Len(d) /\ q \in 1..Len(d)
  BY CellParts DEF LineAt
<1>2. p <= q /\ q <= p
  BY <1>1 DEF LineAt
<1> QED BY <1>2 DEF LineAt

LEMMA RecordsAre ==
  ASSUME NEW d \in Seq(Cells), NEW r, r # 0
  PROVE  r \in RecordsIn(d) <=> \E i \in 1..Len(d) : d[i].rec = r
  BY DEF RecordsIn

LEMMA LineIsRecord ==
  ASSUME NEW d \in Seq(Cells), NEW r, NEW p, LineAt(d, p, r)
  PROVE  r # 0 => r \in RecordsIn(d)
<1>1. d[p].rec = r /\ p \in 1..Len(d)
  BY CellParts DEF LineAt
<1> QED BY <1>1, RecordsAre

LEMMA ConcatCells ==
  ASSUME NEW d \in Seq(Cells), NEW c \in Seq(Cells), NEW e, e = d \o c
  PROVE  /\ e \in Seq(Cells) /\ Len(e) = Len(d) + Len(c) /\ Len(d) \in Nat /\ Len(c) \in Nat
         /\ \A i \in 1..Len(d) : e[i] = d[i]
         /\ \A i \in 1..Len(c) : e[Len(d) + i] = c[i]
  BY ConcatProperties, LenProperties

(* What is appended leaves the lines of other records as they are.           *)
LEMMA AppendKeepsLine ==
  ASSUME NEW d \in Seq(Cells), NEW c \in Seq(Cells), NEW r \in Nat, r # 0,
         \A i \in 1..Len(c) : c[i].rec # r,
         NEW e, e = d \o c
  PROVE  /\ r \in RecordsIn(e) <=> r \in RecordsIn(d)
         /\ \A p : LineAt(d, p, r) => LineAt(e, p, r)
<1>1. /\ e \in Seq(Cells) /\ Len(e) = Len(d) + Len(c) /\ Len(d) \in Nat /\ Len(c) \in Nat
      /\ \A i \in 1..Len(d) : e[i] = d[i]
      /\ \A i \in 1..Len(c) : e[Len(d) + i] = c[i]
  BY ConcatCells
<1>2. \A i \in 1..Len(e) : e[i].rec = r => i \in 1..Len(d) /\ d[i].rec = r
  <2> SUFFICES ASSUME NEW i \in 1..Len(e), e[i].rec = r PROVE i \in 1..Len(d) /\ d[i].rec = r
    OBVIOUS
  <2>1. i \in 1..Len(d) \/ (i - Len(d) \in 1..Len(c) /\ Len(d) + (i - Len(d)) = i)
    BY <1>1
  <2> QED BY <1>1, <2>1
<1>3. \A i \in 1..Len(d) : i \in 1..Len(e) /\ e[i] = d[i]
  BY <1>1
<1>4. r \in RecordsIn(e) <=> r \in RecordsIn(d)
  <2>1. r \in RecordsIn(e) <=> \E i \in 1..Len(e) : e[i].rec = r
    BY <1>1, RecordsAre
  <2>2. r \in RecordsIn(d) <=> \E i \in 1..Len(d) : d[i].rec = r
    BY RecordsAre
  <2> QED BY <1>2, <1>3, <2>1, <2>2
<1>5. ASSUME NEW p, LineAt(d, p, r) PROVE LineAt(e, p, r)
  <2>1. p \in Nat /\ 1 <= p /\ p + 3 <= Len(d)
    BY <1>5 DEF LineAt
  <2>2. p \in 1..Len(d) /\ p + 1 \in 1..Len(d) /\ p + 2 \in 1..Len(d) /\ p + 3 \in 1..Len(d)
        /\ p + 3 <= Len(e)
    BY <1>1, <2>1
  <2>3. e[p] = d[p] /\ e[p + 1] = d[p + 1] /\ e[p + 2] = d[p + 2] /\ e[p + 3] = d[p + 3]
    BY <1>3, <2>2
  <2>4. \A i \in 1..Len(e) : e[i].rec = r => p <= i /\ i <= p + 2
    BY <1>2, <1>5 DEF LineAt
  <2> QED BY <1>5, <2>1, <2>2, <2>3, <2>4 DEF LineAt
<1> QED BY <1>4, <1>5

(* What is appended neither is of record r nor ends its line. *)
Apart(d, c, r) ==
  /\ \A i \in 1..Len(c) : c[i].rec # r
  /\ Len(c) > 0 => c[1] # Newline \/ (Len(d) > 0 => d[Len(d)].rec # r)

(* A line that is whole after such an append was whole before.               *)
LEMMA LineWasThere ==
  ASSUME NEW d \in Seq(Cells), NEW c \in Seq(Cells), NEW r \in Nat, r # 0, Apart(d, c, r),
         NEW e, e = d \o c, NEW p, LineAt(e, p, r)
  PROVE  LineAt(d, p, r) /\ (JoinedAt(e, p, r) => JoinedAt(d, p, r))
<1>1. /\ e \in Seq(Cells) /\ Len(e) = Len(d) + Len(c) /\ Len(d) \in Nat /\ Len(c) \in Nat
      /\ \A i \in 1..Len(d) : e[i] = d[i]
      /\ \A i \in 1..Len(c) : e[Len(d) + i] = c[i]
  BY ConcatCells
<1>2. p \in Nat /\ 1 <= p /\ p + 3 <= Len(e)
  BY DEF LineAt
<1>3. e[p + 2].rec = r /\ e[p + 3] = Newline
  BY CellParts DEF LineAt
<1>4. p + 2 <= Len(d)
  <2> SUFFICES ASSUME p + 2 > Len(d) PROVE FALSE
    BY <1>1, <1>2
  <2>1. p + 2 - Len(d) \in 1..Len(c) /\ Len(d) + (p + 2 - Len(d)) = p + 2
    BY <1>1, <1>2
  <2>2. e[p + 2] = c[p + 2 - Len(d)]
    BY <1>1, <2>1
  <2> QED BY <1>3, <2>1, <2>2 DEF Apart
<1>5. p + 3 <= Len(d)
  <2> SUFFICES ASSUME p + 3 > Len(d) PROVE FALSE
    BY <1>1, <1>2
  <2>1. p + 2 = Len(d) /\ p + 3 = Len(d) + 1 /\ 1 \in 1..Len(c) /\ Len(d) \in 1..Len(d)
    BY <1>1, <1>2, <1>4
  <2>2. e[p + 3] = c[1] /\ e[p + 2] = d[Len(d)]
    BY <1>1, <2>1
  <2> QED BY <1>3, <2>1, <2>2 DEF Apart
<1>6. \A i \in 1..Len(d) : i \in 1..Len(e) /\ e[i] = d[i]
  BY <1>1
<1>7. p \in 1..Len(d) /\ p + 1 \in 1..Len(d) /\ p + 2 \in 1..Len(d) /\ p + 3 \in 1..Len(d)
      /\ (p > 1 => p - 1 \in 1..Len(d))
  BY <1>1, <1>2, <1>5
<1>8. e[p] = d[p] /\ e[p + 1] = d[p + 1] /\ e[p + 2] = d[p + 2] /\ e[p + 3] = d[p + 3]
      /\ (p > 1 => e[p - 1] = d[p - 1])
  BY <1>6, <1>7
<1>9. \A i \in 1..Len(d) : d[i].rec = r => p <= i /\ i <= p + 2
  BY <1>6 DEF LineAt
<1>10. LineAt(d, p, r)
  BY <1>2, <1>5, <1>8, <1>9 DEF LineAt
<1> QED BY <1>8, <1>10 DEF JoinedAt

LEMMA TakeRest ==
  ASSUME NEW g, NEW c, c # Newline PROVE Take(g, c).read = g.read
  BY DEF Take

(* A whole line that begins a line of the file is read as its record, and    *)
(* stays read whatever follows it.                                           *)
LEMMA LineIsRead ==
  ASSUME NEW d \in Seq(Cells), NEW r \in Nat, NEW p, LineAt(d, p, r), ~JoinedAt(d, p, r)
  PROVE  \E i \in DOMAIN ReadAll(d) : ReadAll(d)[i] = r
<1>1. PICK f \in [0..Len(d) -> Readings] : Passes(f, d)
  BY PassesExists
<1>2. /\ f[0] = Started
      /\ \A n \in 1..Len(d) : f[n] = Take(f[n - 1], d[n])
  <2>0. Len(d) \in Nat
    BY LenProperties
  <2>1. \A n \in 0..Len(d) : f[n] = IF n = 0 THEN Started ELSE Take(f[n - 1], d[n])
    BY <1>1 DEF Passes
  <2>2. \A n \in 1..Len(d) : n \in 0..Len(d) /\ n # 0
    BY <2>0
  <2>3. 0 \in 0..Len(d)
    BY <2>0
  <2> QED BY <2>1, <2>2, <2>3
<1>3. p \in Nat /\ 1 <= p /\ p + 3 <= Len(d) /\ Len(d) \in Nat
  BY LenProperties DEF LineAt
<1>4. \A n \in 0..Len(d) : f[n].read \in Seq(Nat) /\ f[n].line \in Seq(Cells)
  BY <1>1 DEF Readings
<1> DEFINE q == f[p - 1].read
           k == Len(q) + 1
<1>5. f[p - 1] = [read |-> q, line |-> <<>>]
  <2>1. CASE p = 1
    BY <1>2, <2>1 DEF Started
  <2>2. CASE p # 1
    <3>1. p > 1 /\ d[p - 1] = Newline
      BY <1>3, <2>2 DEF JoinedAt
    <3>2. p - 1 \in 1..Len(d)
      BY <1>3, <3>1
    <3>3. f[p - 1] = Take(f[(p - 1) - 1], Newline)
      BY <1>2, <3>1, <3>2
    <3>4. f[p - 1].line = <<>> /\ f[p - 1] = [read |-> f[p - 1].read, line |-> <<>>]
      BY <3>3 DEF Take
    <3> QED BY <3>4
  <2> QED BY <2>1, <2>2
<1>6. q \in Seq(Nat) /\ k \in Nat /\ k = Len(q) + 1
  <2>1. p - 1 \in 0..Len(d)
    BY <1>3
  <2>2. q \in Seq(Nat)
    BY <1>4, <2>1
  <2> HIDE DEF q
  <2> QED BY <2>2, LenProperties
<1> HIDE DEF q, k
<1>7. f[p + 2] = [read |-> q, line |-> Text(r)]
  <2>1. p \in 1..Len(d) /\ p + 1 \in 1..Len(d) /\ p + 2 \in 1..Len(d)
        /\ (p + 1) - 1 = p /\ (p + 2) - 1 = p + 1
    BY <1>3
  <2>2. d[p] = Cell(r, "ts") /\ d[p + 1] = Cell(r, "meta") /\ d[p + 2] = Cell(r, "hex")
    BY DEF LineAt
  <2>3. f[p] = Take(f[p - 1], Cell(r, "ts")) /\ f[p + 1] = Take(f[p], Cell(r, "meta"))
        /\ f[p + 2] = Take(f[p + 1], Cell(r, "hex"))
    BY <1>2, <2>1, <2>2
  <2>4. Cell(r, "ts") # Newline /\ Cell(r, "meta") # Newline /\ Cell(r, "hex") # Newline
    BY CellsOfText
  <2> DEFINE a == Append(<<>>, Cell(r, "ts"))
             b == Append(a, Cell(r, "meta"))
             h == Append(b, Cell(r, "hex"))
  <2>5. f[p] = [read |-> q, line |-> a]
    <3>1. Take([read |-> q, line |-> <<>>], Cell(r, "ts")) = [read |-> q, line |-> a]
      BY <2>4, TakeText
    <3> QED BY <1>5, <2>3, <3>1
  <2>7. f[p + 1] = [read |-> q, line |-> b]
    <3>1. Take([read |-> q, line |-> a], Cell(r, "meta")) = [read |-> q, line |-> b]
      <4> HIDE DEF a
      <4> QED BY <2>4, TakeText
    <3> QED BY <2>3, <2>5, <3>1
  <2>8. f[p + 2] = [read |-> q, line |-> h]
    <3>1. Take([read |-> q, line |-> b], Cell(r, "hex")) = [read |-> q, line |-> h]
      <4> HIDE DEF b
      <4> QED BY <2>4, TakeText
    <3> QED BY <2>3, <2>7, <3>1
  <2>6. Text(r) = Append(Append(Append(<<>>, Cell(r, "ts")), Cell(r, "meta")), Cell(r, "hex"))
    <3>1. Cell(r, "ts") \in Cells /\ Cell(r, "meta") \in Cells /\ Cell(r, "hex") \in Cells
      BY CellsOfText
    <3> QED BY <3>1 DEF Text
  <2> QED BY <2>8, <2>6
<1>8. f[p + 3].read = Append(q, r)
  <2>1. p + 3 \in 1..Len(d) /\ (p + 3) - 1 = p + 2
    BY <1>3
  <2>2. d[p + 3] = Newline
    BY DEF LineAt
  <2>3. f[p + 3] = Take([read |-> q, line |-> Text(r)], Newline)
    BY <1>2, <1>7, <2>1, <2>2
  <2>4. f[p + 3].read = q \o ParseLine(Text(r))
    BY <2>3 DEF Take
  <2>5. f[p + 3].read = q \o <<r>>
    BY <2>4, TextIsRead
  <2> QED BY <1>6, <2>5
<1> DEFINE T == {n \in Nat : p + 3 + n <= Len(d) =>
                   k <= Len(f[p + 3 + n].read) /\ f[p + 3 + n].read[k] = r}
<1>9. 0 \in T
  <2>1. p + 3 + 0 = p + 3
    BY <1>3
  <2>2. Len(Append(q, r)) = k /\ Append(q, r)[k] = r
    BY <1>6
  <2> QED BY <1>6, <1>8, <2>1, <2>2
<1>10. ASSUME NEW n \in Nat, n \in T PROVE n + 1 \in T
  <2> SUFFICES ASSUME p + 3 + (n + 1) <= Len(d)
               PROVE  /\ k <= Len(f[p + 3 + (n + 1)].read)
                      /\ f[p + 3 + (n + 1)].read[k] = r
    OBVIOUS
  <2> DEFINE m == p + 3 + n
             g == f[m]
             l == ParseLine(g.line)
  <2>1. m \in 0..Len(d) /\ p + 3 + (n + 1) = m + 1 /\ m + 1 \in 1..Len(d) /\ (m + 1) - 1 = m
    BY <1>3
  <2>2. k <= Len(g.read) /\ g.read[k] = r
    BY <1>10, <2>1
  <2> HIDE DEF m
  <2>3. g.read \in Seq(Nat) /\ g.line \in Seq(Cells)
    BY <1>4, <2>1
  <2>4. f[m + 1] = Take(g, d[m + 1])
    BY <1>2, <2>1
  <2>5. l \in Seq(Nat)
    BY <2>3, ParseLineTyped
  <2>6. f[m + 1].read = g.read \o l \/ f[m + 1].read = g.read
    <3>1. Take(g, d[m + 1]).read = g.read \o l \/ Take(g, d[m + 1]).read = g.read
      <4> HIDE DEF g, l
      <4>1. CASE d[m + 1] = Newline
        BY <4>1 DEF Take, l
      <4>2. CASE d[m + 1] # Newline
        BY <4>2, TakeRest
      <4> QED BY <4>1, <4>2
    <3> QED BY <2>4, <3>1
  <2> HIDE DEF g, l
  <2>7. k \in 1..Len(g.read)
    BY <1>6, <2>2, <2>3, LenProperties
  <2>8. k <= Len(g.read \o l) /\ (g.read \o l)[k] = r
    BY <2>2, <2>3, <2>5, <2>7, ConcatProperties, LenProperties
  <2> QED BY <2>1, <2>2, <2>6, <2>8
<1>11. k <= Len(f[Len(d)].read) /\ f[Len(d)].read[k] = r
  <2>1. Nat \subseteq T
    <3> HIDE DEF T
    <3> QED BY <1>9, <1>10, SetInduction
  <2>2. Len(d) - (p + 3) \in Nat /\ p + 3 + (Len(d) - (p + 3)) = Len(d)
    BY <1>3
  <2> QED BY <2>1, <2>2
<1> DEFINE a == f[Len(d)]
           l == ParseLine(a.line)
<1>12. a.read \in Seq(Nat) /\ l \in Seq(Nat)
  BY <1>3, <1>4, ParseLineTyped
<1>13. ReadAll(d) = a.read \o l
  BY <1>1, ReadingIsPass DEF ReadAll
<1> HIDE DEF a, l
<1>14. k \in 1..Len(a.read)
  BY <1>6, <1>11, <1>12, LenProperties DEF a
<1>15. k \in 1..Len(a.read \o l) /\ (a.read \o l)[k] = r
  BY <1>11, <1>12, <1>14, ConcatProperties, LenProperties DEF a
<1>16. a.read \o l \in Seq(Nat)
  BY <1>12, ConcatProperties
<1>17. DOMAIN (a.read \o l) = 1..Len(a.read \o l)
  BY <1>16
<1> QED BY <1>13, <1>15, <1>17

(* What a rewrite keeps: the cells after a newline, at c, under a header.    *)
CutAt(d, e, c) ==
  /\ c \in 1..Len(d) /\ d[c] = Newline /\ Len(e) = 2 + (Len(d) - c)
  /\ e[1] = Cell(0, "comment") /\ e[2] = Newline
  /\ \A i \in 1..(Len(d) - c) : e[2 + i] = d[c + i]

LEMMA TrimCuts ==
  ASSUME NEW d \in Seq(Cells), MaxBytes \in Nat, Len(d) > MaxBytes, d[Len(d)] = Newline
  PROVE  Trim(d) \in Seq(Cells) /\ \E c \in 1..Len(d) : CutAt(d, Trim(d), c)
<1> DEFINE m    == Len(d) - MaxBytes
           tail == SubSeq(d, m + 1, Len(d))
           nl   == FirstNewline(tail)
           kept == SubSeq(tail, nl + 1, MaxBytes)
           c    == m + nl
<1>1. Len(d) \in Nat /\ m \in Nat /\ m > 0 /\ m + MaxBytes = Len(d)
  BY LenProperties
<1> HIDE DEF m
<1>2. tail \in Seq(Cells) /\ Len(tail) = MaxBytes /\ \A i \in 1..MaxBytes : tail[i] = d[m + i]
  <2>1. \A i \in (m + 1)..Len(d) : d[i] \in Cells
    <3>1. \A i \in (m + 1)..Len(d) : i \in 1..Len(d)
      BY <1>1
    <3> QED BY <3>1, ElementOfSeq
  <2>2. m + 1 \in Int /\ Len(d) \in Int
    BY <1>1
  <2>3. /\ tail \in Seq(Cells)
        /\ Len(tail) = IF m + 1 <= Len(d) THEN Len(d) - (m + 1) + 1 ELSE 0
        /\ \A i \in 1..(Len(d) - (m + 1) + 1) : tail[i] = d[(m + 1) + i - 1]
    BY <2>1, <2>2, SubSeqProperties
  <2> HIDE DEF tail
  <2>4. Len(tail) = MaxBytes
    BY <1>1, <2>3
  <2>5. ASSUME NEW i \in 1..MaxBytes PROVE tail[i] = d[m + i]
    <3>1. i \in 1..(Len(d) - (m + 1) + 1) /\ (m + 1) + i - 1 = m + i
      BY <1>1
    <3> QED BY <2>3, <3>1
  <2> QED BY <2>3, <2>4, <2>5
<1> HIDE DEF tail
<1>3. \/ nl = 0 /\ \A i \in 1..MaxBytes : tail[i] # Newline
      \/ nl \in 1..MaxBytes /\ tail[nl] = Newline
  BY <1>2, NewlineFound
<1> HIDE DEF nl
<1>4. nl \in 0..MaxBytes /\ c \in 1..Len(d) /\ d[c] = Newline
  <2>1. CASE nl \in 1..MaxBytes /\ tail[nl] = Newline
    BY <1>1, <1>2, <2>1
  <2>2. CASE nl = 0 /\ \A i \in 1..MaxBytes : tail[i] # Newline
    <3>1. MaxBytes = 0
      <4>1. MaxBytes \in 1..MaxBytes => tail[MaxBytes] = d[Len(d)]
        BY <1>1, <1>2
      <4> QED BY <2>2, <4>1
    <3>2. c = Len(d) /\ Len(d) \in 1..Len(d)
      BY <1>1, <2>2, <3>1
    <3> QED BY <2>2, <3>1, <3>2
  <2> QED BY <1>3, <2>1, <2>2
<1> HIDE DEF c
<1>5. c = m + nl
  BY DEF c
<1>6. kept \in Seq(Cells) /\ Len(kept) = Len(d) - c /\ \A i \in 1..(Len(d) - c) : kept[i] = d[c + i]
  <2>1. \A i \in (nl + 1)..MaxBytes : tail[i] \in Cells
    <3>1. \A i \in (nl + 1)..MaxBytes : i \in 1..Len(tail)
      BY <1>2, <1>4
    <3> QED BY <1>2, <3>1, ElementOfSeq
  <2>2. nl + 1 \in Int /\ MaxBytes \in Int
    BY <1>4
  <2>3. /\ kept \in Seq(Cells)
        /\ Len(kept) = IF nl + 1 <= MaxBytes THEN MaxBytes - (nl + 1) + 1 ELSE 0
        /\ \A i \in 1..(MaxBytes - (nl + 1) + 1) : kept[i] = tail[(nl + 1) + i - 1]
    BY <2>1, <2>2, SubSeqProperties
  <2> HIDE DEF kept
  <2>4. Len(kept) = Len(d) - c
    BY <1>1, <1>4, <1>5, <2>3
  <2>5. ASSUME NEW i \in 1..(Len(d) - c) PROVE kept[i] = d[c + i]
    <3>1. /\ i \in 1..(MaxBytes - (nl + 1) + 1) /\ (nl + 1) + i - 1 = nl + i
          /\ nl + i \in 1..MaxBytes /\ m + (nl + i) = c + i
      BY <1>1, <1>4, <1>5
    <3> QED BY <1>2, <2>3, <3>1
  <2> QED BY <2>3, <2>4, <2>5
<1>7. Trim(d) = Header \o kept
  BY Zenon DEF Trim, kept, nl, tail, m
<1> HIDE DEF kept
<1>8. /\ Header \in Seq(Cells) /\ Len(Header) = 2
      /\ Header[1] = Cell(0, "comment") /\ Header[2] = Newline
  <2>1. Cell(0, "comment") \in Cells /\ Newline \in Cells
    BY CellsOfText
  <2> QED BY <2>1 DEF Header
<1> DEFINE e == Header \o kept
<1>9. /\ e \in Seq(Cells) /\ Len(e) = 2 + Len(kept)
      /\ \A i \in 1..2 : e[i] = Header[i]
      /\ \A i \in 1..Len(kept) : e[2 + i] = kept[i]
  <2> HIDE DEF e
  <2>1. e = Header \o kept
    BY DEF e
  <2>2. /\ e \in Seq(Cells) /\ Len(e) = Len(Header) + Len(kept)
        /\ \A i \in 1..Len(Header) : e[i] = Header[i]
        /\ \A i \in 1..Len(kept) : e[Len(Header) + i] = kept[i]
    <3>1. kept \in Seq(Cells) /\ Header \in Seq(Cells)
      BY <1>6, <1>8
    <3> QED BY <2>1, <3>1, ConcatCells
  <2> QED BY <1>8, <2>2
<1> HIDE DEF e
<1>10. CutAt(d, e, c)
  <2>1. \A i \in 1..(Len(d) - c) : e[2 + i] = d[c + i]
    BY <1>6, <1>9
  <2> QED BY <1>4, <1>6, <1>8, <1>9, <2>1 DEF CutAt
<1> QED BY <1>4, <1>7, <1>9, <1>10 DEF e

(* Of what is kept, records and whole lines are what they were.              *)
LEMMA CutKeepsRecords ==
  ASSUME NEW d \in Seq(Cells), NEW e \in Seq(Cells), NEW c, CutAt(d, e, c), NEW r \in Nat, r # 0
  PROVE  /\ r \in RecordsIn(e) <=> \E i \in (c + 1)..Len(d) : d[i].rec = r
         /\ r \in RecordsIn(e) => r \in RecordsIn(d)
<1>1. Len(d) \in Nat /\ c \in 1..Len(d) /\ Len(e) = 2 + (Len(d) - c) /\ Len(d) - c \in Nat
  BY LenProperties DEF CutAt
<1>2. e[1].rec = 0 /\ e[2].rec = 0
  BY CellParts, NewlineParts DEF CutAt
<1>3. r \in RecordsIn(e) <=> \E j \in 1..Len(e) : e[j].rec = r
  BY RecordsAre
<1>4. ASSUME NEW j \in 1..Len(e), e[j].rec = r
      PROVE  c + (j - 2) \in (c + 1)..Len(d) /\ d[c + (j - 2)].rec = r
  <2>1. j # 1 /\ j # 2
    BY <1>2, <1>4
  <2>2. j - 2 \in 1..(Len(d) - c) /\ 2 + (j - 2) = j
    BY <1>1, <2>1
  <2>3. e[2 + (j - 2)] = d[c + (j - 2)]
    BY <2>2 DEF CutAt
  <2> QED BY <1>1, <1>4, <2>2, <2>3
<1>5. ASSUME NEW i \in (c + 1)..Len(d), d[i].rec = r
      PROVE  2 + (i - c) \in 1..Len(e) /\ e[2 + (i - c)].rec = r
  <2>1. i - c \in 1..(Len(d) - c) /\ c + (i - c) = i
    BY <1>1
  <2>2. e[2 + (i - c)] = d[c + (i - c)]
    BY <2>1 DEF CutAt
  <2> QED BY <1>1, <1>5, <2>1, <2>2
<1>6. r \in RecordsIn(e) <=> \E i \in (c + 1)..Len(d) : d[i].rec = r
  BY <1>3, <1>4, <1>5
<1>7. \A i \in (c + 1)..Len(d) : i \in 1..Len(d)
  BY <1>1
<1> QED BY <1>6, <1>7, RecordsAre

LEMMA CutKeepsLine ==
  ASSUME NEW d \in Seq(Cells), NEW e \in Seq(Cells), NEW c, CutAt(d, e, c), NEW r \in Nat, r # 0,
         NEW p, LineAt(d, p, r), r \in RecordsIn(e), NEW t, t = p - c + 2
  PROVE  /\ LineAt(e, t, r)
         /\ e[t - 1] # Newline => p > 1 /\ d[p - 1] # Newline
<1>1. Len(d) \in Nat /\ c \in 1..Len(d) /\ Len(e) = 2 + (Len(d) - c) /\ Len(d) - c \in Nat
  BY LenProperties DEF CutAt
<1>2. p \in Nat /\ 1 <= p /\ p + 3 <= Len(d)
  BY DEF LineAt
<1>3. PICK i \in (c + 1)..Len(d) : d[i].rec = r
  BY CutKeepsRecords
<1>4. c < p
  <2>1. p <= i /\ i <= p + 2
    BY <1>1, <1>3 DEF LineAt
  <2>2. d[c].rec = 0
    BY NewlineParts DEF CutAt
  <2>3. d[p].rec = r /\ d[p + 1].rec = r /\ d[p + 2].rec = r
    BY CellParts DEF LineAt
  <2>4. c # p /\ c # p + 1 /\ c # p + 2
    BY <2>2, <2>3
  <2> QED BY <1>1, <1>2, <1>3, <2>1, <2>4
<1>5. t \in Nat /\ t > 2 /\ t + 3 <= Len(e)
  BY <1>1, <1>2, <1>4
<1>6. ASSUME NEW k \in 0..3 PROVE e[t + k] = d[p + k]
  <2>1. (p - c) + k \in 1..(Len(d) - c) /\ 2 + ((p - c) + k) = t + k /\ c + ((p - c) + k) = p + k
    BY <1>1, <1>2, <1>4
  <2>2. e[2 + ((p - c) + k)] = d[c + ((p - c) + k)]
    BY <2>1 DEF CutAt
  <2> QED BY <2>1, <2>2
<1>7. e[t] = Cell(r, "ts") /\ e[t + 1] = Cell(r, "meta") /\ e[t + 2] = Cell(r, "hex") /\ e[t + 3] = Newline
  <2>1. e[t + 0] = d[p + 0] /\ e[t + 1] = d[p + 1] /\ e[t + 2] = d[p + 2] /\ e[t + 3] = d[p + 3]
    BY <1>6
  <2>2. t + 0 = t /\ p + 0 = p
    BY <1>2, <1>5
  <2> QED BY <2>1, <2>2 DEF LineAt
<1>8. ASSUME NEW j \in 1..Len(e), e[j].rec = r PROVE t <= j /\ j <= t + 2
  <2>1. e[1].rec = 0 /\ e[2].rec = 0
    BY CellParts, NewlineParts DEF CutAt
  <2>2. j # 1 /\ j # 2
    BY <1>8, <2>1
  <2>3. j - 2 \in 1..(Len(d) - c) /\ 2 + (j - 2) = j /\ c + (j - 2) \in 1..Len(d)
    BY <1>1, <2>2
  <2>4. e[j] = d[c + (j - 2)]
    BY <2>3 DEF CutAt
  <2>5. p <= c + (j - 2) /\ c + (j - 2) <= p + 2
    BY <1>8, <2>3, <2>4 DEF LineAt
  <2> QED BY <1>1, <1>2, <2>5
<1>9. ASSUME e[t - 1] # Newline PROVE p > 1 /\ d[p - 1] # Newline
  <2>1. p > 1
    BY <1>1, <1>2, <1>4
  <2>2. CASE t = 3
    <3>1. t - 1 = 2
      BY <2>2
    <3>2. e[2] = Newline
      BY DEF CutAt
    <3> QED BY <1>9, <3>1, <3>2
  <2>3. CASE t # 3
    <3>1. (p - c) - 1 \in 1..(Len(d) - c) /\ 2 + ((p - c) - 1) = t - 1 /\ c + ((p - c) - 1) = p - 1
      BY <1>1, <1>2, <1>4, <2>3
    <3>2. e[2 + ((p - c) - 1)] = d[c + ((p - c) - 1)]
      BY <3>1 DEF CutAt
    <3>3. e[t - 1] = d[p - 1]
      BY <3>1, <3>2
    <3> QED BY <1>9, <2>1, <3>3
  <2> QED BY <2>2, <2>3
<1>10. LineAt(e, t, r)
  <2>1. t \in Nat /\ 1 <= t /\ t + 3 <= Len(e)
    BY <1>5
  <2>2. \A j \in 1..Len(e) : e[j].rec = r => t <= j /\ j <= t + 2
    BY <1>8
  <2> QED BY <1>7, <2>1, <2>2, Zenon DEF LineAt
<1> QED BY <1>9, <1>10

(* The records in the file are numbered upwards, from the one after t.       *)
Rising(d, t) ==
  /\ \A i \in 1..Len(d) : d[i].rec # 0 => d[i].rec > t
  /\ \A i, j \in 1..Len(d) : i < j /\ d[i].rec # 0 /\ d[j].rec # 0 => d[i].rec <= d[j].rec

(* Of the records o: those with a line in the file have a whole one, those    *)
(* whose line runs into another, and those after t that are not in the file. *)
WholeIn(d, o)      == \A r \in o : r \in RecordsIn(d) => \E p \in 1..Len(d) : LineAt(d, p, r)
JoinedIn(d, o)     == {r \in o : \E p \in 1..Len(d) : JoinedAt(d, p, r)}
OrphansOf(d, o, t) == {r \in o : r > t /\ r \notin RecordsIn(d)}

LEMMA LineInside ==
  ASSUME NEW d \in Seq(Cells), NEW p, NEW r, LineAt(d, p, r)
  PROVE  p \in 1..Len(d)
  BY LenProperties DEF LineAt

LEMMA AppendRises ==
  ASSUME NEW d \in Seq(Cells), NEW c \in Seq(Cells), NEW e, e = d \o c, NEW t \in Nat, NEW b \in Nat,
         Rising(d, t), b > t, \A i \in 1..Len(d) : d[i].rec <= b,
         \A i \in 1..Len(c) : c[i].rec \in {0, b}
  PROVE  Rising(e, t)
<1>1. /\ e \in Seq(Cells) /\ Len(e) = Len(d) + Len(c) /\ Len(d) \in Nat /\ Len(c) \in Nat
      /\ \A i \in 1..Len(d) : e[i] = d[i]
      /\ \A i \in 1..Len(c) : e[Len(d) + i] = c[i]
  BY ConcatCells
<1>2. ASSUME NEW i \in 1..Len(e)
      PROVE  \/ i \in 1..Len(d) /\ e[i] = d[i]
             \/ i > Len(d) /\ e[i].rec \in {0, b}
  <2>1. CASE i <= Len(d)
    <3>1. i \in 1..Len(d)
      BY <1>1, <2>1
    <3> QED BY <1>1, <3>1
  <2>2. CASE i > Len(d)
    <3>1. i - Len(d) \in 1..Len(c) /\ Len(d) + (i - Len(d)) = i
      BY <1>1, <2>2
    <3>2. e[i] = c[i - Len(d)]
      BY <1>1, <3>1
    <3> QED BY <2>2, <3>1, <3>2
  <2>3. i \in Nat
    OBVIOUS
  <2> QED BY <1>1, <2>1, <2>2, <2>3
<1>3. \A i \in 1..Len(e) : e[i].rec # 0 => e[i].rec > t
  BY <1>2 DEF Rising
<1>4. ASSUME NEW i \in 1..Len(e), NEW j \in 1..Len(e), i < j, e[i].rec # 0, e[j].rec # 0
      PROVE  e[i].rec <= e[j].rec
  <2>1. CASE j \in 1..Len(d) /\ e[j] = d[j]
    <3>1. i \in 1..Len(d)
      BY <1>1, <1>4, <2>1
    <3>2. e[i] = d[i]
      BY <1>1, <3>1
    <3> QED BY <1>4, <2>1, <3>1, <3>2 DEF Rising
  <2>2. CASE e[j].rec \in {0, b}
    <3>1. e[j].rec = b
      BY <1>4, <2>2
    <3>2. e[i].rec <= b
      <4>1. CASE i \in 1..Len(d) /\ e[i] = d[i]
        BY <4>1
      <4>2. CASE e[i].rec \in {0, b}
        BY <4>2
      <4> QED BY <1>2, <4>1, <4>2
    <3> QED BY <3>1, <3>2
  <2> QED BY <1>2, <2>1, <2>2
<1> QED BY <1>3, <1>4 DEF Rising

(* An append costs no other record anything. *)
LEMMA AppendKeeps ==
  ASSUME NEW d \in Seq(Cells), NEW c \in Seq(Cells), NEW e, e = d \o c, NEW t, NEW o, o \subseteq Nat \ {0},
         \A r \in o : Apart(d, c, r), WholeIn(d, o)
  PROVE  /\ WholeIn(e, o) /\ JoinedIn(e, o) \subseteq JoinedIn(d, o)
         /\ OrphansOf(e, o, t) \subseteq OrphansOf(d, o, t)
<1>0. e \in Seq(Cells)
  BY ConcatCells
<1>1. ASSUME NEW r \in o
      PROVE  /\ r \in RecordsIn(e) <=> r \in RecordsIn(d)
             /\ \A p : LineAt(d, p, r) => LineAt(e, p, r)
  <2>1. r \in Nat /\ r # 0
    OBVIOUS
  <2>2. \A i \in 1..Len(c) : c[i].rec # r
    BY DEF Apart
  <2> QED BY <2>1, <2>2, AppendKeepsLine
<1>2. WholeIn(e, o)
  <2> SUFFICES ASSUME NEW r \in o, r \in RecordsIn(e) PROVE \E p \in 1..Len(e) : LineAt(e, p, r)
    BY DEF WholeIn
  <2>1. PICK p \in 1..Len(d) : LineAt(d, p, r)
    BY <1>1 DEF WholeIn
  <2>2. LineAt(e, p, r)
    BY <1>1, <2>1
  <2> QED BY <1>0, <2>2, LineInside
<1>3. ASSUME NEW r \in JoinedIn(e, o) PROVE r \in JoinedIn(d, o)
  <2>1. r \in o /\ r \in Nat /\ r # 0
    BY DEF JoinedIn
  <2>2. PICK p \in 1..Len(e) : JoinedAt(e, p, r)
    BY DEF JoinedIn
  <2>3. LineAt(e, p, r) /\ p > 1 /\ e[p - 1] # Newline
    BY <2>2 DEF JoinedAt
  <2>4. Apart(d, c, r)
    BY <2>1
  <2>5. JoinedAt(d, p, r) /\ p \in 1..Len(d)
    BY <2>1, <2>2, <2>3, <2>4, LineWasThere, LineInside
  <2> QED BY <2>1, <2>5 DEF JoinedIn
<1>4. OrphansOf(e, o, t) \subseteq OrphansOf(d, o, t)
  BY <1>1 DEF OrphansOf
<1> QED BY <1>2, <1>3, <1>4

LEMMA NewlineAppended ==
  ASSUME NEW d \in Seq(Cells), NEW e, e = d \o <<Newline>>
  PROVE  /\ e \in Seq(Cells) /\ Len(e) = Len(d) + 1
         /\ \A i \in 1..Len(d) : e[i] = d[i]
         /\ e[Len(d) + 1] = Newline
<1>1. <<Newline>> \in Seq(Cells) /\ Len(<<Newline>>) = 1 /\ <<Newline>>[1] = Newline
  BY CellsOfText
<1> QED BY <1>1, ConcatCells

(* The newline makes the text before it a line of its own, or of the one     *)
(* that had none.                                                            *)
LEMMA NewlineEnds ==
  ASSUME NEW d \in Seq(Cells), NEW a \in Nat, a # 0, NEW b \in Nat, Len(d) = b + 3,
         d[b + 1] = Cell(a, "ts"), d[b + 2] = Cell(a, "meta"), d[b + 3] = Cell(a, "hex"),
         \A i \in 1..Len(d) : d[i].rec = a => i > b,
         NEW e, e = d \o <<Newline>>
  PROVE  /\ LineAt(e, b + 1, a) /\ a \in RecordsIn(e)
         /\ \A p : JoinedAt(e, p, a) => b > 0 /\ d[b] # Newline
<1>1. /\ e \in Seq(Cells) /\ Len(e) = b + 4
      /\ \A i \in 1..Len(d) : e[i] = d[i]
      /\ e[b + 4] = Newline
  <2>1. /\ e \in Seq(Cells) /\ Len(e) = Len(d) + 1
        /\ \A i \in 1..Len(d) : e[i] = d[i]
        /\ e[Len(d) + 1] = Newline
    BY NewlineAppended
  <2>2. Len(d) + 1 = b + 4
    OBVIOUS
  <2> QED BY <2>1, <2>2
<1>2. LineAt(e, b + 1, a)
  <2> SUFFICES ASSUME NEW q, q = b + 1 PROVE LineAt(e, q, a)
    OBVIOUS
  <2>1. q \in Nat /\ 1 <= q /\ q + 3 <= Len(e) /\ q + 1 = b + 2 /\ q + 2 = b + 3 /\ q + 3 = b + 4
    BY <1>1
  <2>2. e[q] = d[b + 1] /\ e[q + 1] = d[b + 2] /\ e[q + 2] = d[b + 3]
    <3>1. b + 1 \in 1..Len(d) /\ b + 2 \in 1..Len(d) /\ b + 3 \in 1..Len(d)
      OBVIOUS
    <3> QED BY <1>1, <2>1, <3>1
  <2>3. ASSUME NEW i \in 1..Len(e), e[i].rec = a PROVE q <= i /\ i <= q + 2
    <3>1. i # b + 4
      BY <1>1, <2>3, NewlineParts
    <3>2. i \in 1..Len(d)
      BY <1>1, <3>1
    <3>3. i > b
      BY <1>1, <2>3, <3>2
    <3> QED BY <3>2, <3>3
  <2> QED BY <1>1, <2>1, <2>2, <2>3 DEF LineAt
<1>3. ASSUME NEW p, JoinedAt(e, p, a) PROVE b > 0 /\ d[b] # Newline
  <2>1. p = b + 1 /\ p > 1 /\ e[p - 1] # Newline
    BY <1>1, <1>2, <1>3, LineOnce DEF JoinedAt
  <2>2. p - 1 = b /\ b \in 1..Len(d)
    BY <2>1
  <2> QED BY <1>1, <2>1, <2>2
<1>4. a \in RecordsIn(e)
  BY <1>1, <1>2, LineIsRecord
<1> QED BY <1>2, <1>3, <1>4

(* A rewrite costs only the records it notes as dropped.                     *)
LEMMA CutKeeps ==
  ASSUME NEW d \in Seq(Cells), NEW e \in Seq(Cells), NEW c, CutAt(d, e, c), d[Len(d)] = Newline,
         NEW a \in Nat, RecordsIn(d) \subseteq 1..a, NEW t \in Nat, NEW u,
         NEW gone, gone = RecordsIn(d) \ RecordsIn(e), u = IF gone = {} THEN t ELSE Max(gone),
         NEW o, o \subseteq Nat \ {0}, Rising(d, t), WholeIn(d, o)
  PROVE  /\ Rising(e, u) /\ WholeIn(e, o) /\ JoinedIn(e, o) \subseteq JoinedIn(d, o)
         /\ OrphansOf(e, o, u) \subseteq OrphansOf(d, o, t)
         /\ Len(e) > 0 /\ e[Len(e)] = Newline
<1>1. Len(d) \in Nat /\ c \in 1..Len(d) /\ Len(e) = 2 + (Len(d) - c) /\ Len(d) - c \in Nat
  BY LenProperties DEF CutAt
<1>2. \A r \in gone : r \in Nat /\ r > t /\ r <= u
  <2>1. \A r \in RecordsIn(d) : r \in 1..a /\ r > t
    BY DEF RecordsIn, Rising
  <2>2. gone \subseteq 0..a
    BY <2>1
  <2>3. gone # {} => \A r \in gone : r <= Max(gone)
    BY <2>2, LatestOf
  <2> SUFFICES ASSUME NEW r \in gone PROVE r \in Nat /\ r > t /\ r <= u
    OBVIOUS
  <2>4. u = Max(gone) /\ r \in RecordsIn(d) /\ gone # {}
    OBVIOUS
  <2>5. r <= Max(gone)
    BY <2>3, <2>4
  <2>6. r \in 1..a /\ r > t
    BY <2>1, <2>4
  <2> QED BY <2>4, <2>5, <2>6
<1>3. u \in Nat /\ u >= t
  <2>1. gone \subseteq 0..a
    OBVIOUS
  <2>2. gone # {} => Max(gone) \in gone
    BY <2>1, LatestOf
  <2>3. CASE gone = {}
    <3>1. u = t
      BY <2>3
    <3> QED BY <3>1
  <2>4. CASE gone # {}
    <3>1. u = Max(gone) /\ u \in gone
      BY <2>2, <2>4
    <3>2. u \in Nat /\ u > t
      BY <1>2, <3>1
    <3> QED BY <3>2
  <2> QED BY <2>3, <2>4
<1>4. Len(e) > 0 /\ e[Len(e)] = Newline
  <2>1. CASE c = Len(d)
    BY <1>1, <2>1 DEF CutAt
  <2>2. CASE c # Len(d)
    <3>1. Len(d) - c \in 1..(Len(d) - c) /\ 2 + (Len(d) - c) = Len(e) /\ c + (Len(d) - c) = Len(d)
      BY <1>1, <2>2
    <3>2. e[2 + (Len(d) - c)] = d[c + (Len(d) - c)]
      BY <3>1 DEF CutAt
    <3> QED BY <1>1, <3>1, <3>2
  <2> QED BY <2>1, <2>2
<1>5. ASSUME NEW i \in 1..Len(e), e[i].rec # 0
      PROVE  c + (i - 2) \in (c + 1)..Len(d) /\ e[i] = d[c + (i - 2)] /\ i > 2
  <2>1. i # 1 /\ i # 2
    BY <1>5, CellParts, NewlineParts DEF CutAt
  <2>2. i - 2 \in 1..(Len(d) - c) /\ 2 + (i - 2) = i
    BY <1>1, <2>1
  <2>3. e[2 + (i - 2)] = d[c + (i - 2)]
    BY <2>2 DEF CutAt
  <2> QED BY <1>1, <2>2, <2>3
<1>6. Rising(e, u)
  <2>1. ASSUME NEW i \in 1..Len(e), e[i].rec # 0 PROVE e[i].rec > u
    <3>1. PICK j \in (c + 1)..Len(d) : e[i] = d[j]
      BY <1>5, <2>1
    <3>2. j \in 1..Len(d) /\ d[j].rec # 0 /\ d[j].rec > t /\ d[j].rec \in Nat
      <4>1. j \in 1..Len(d) /\ d[j].rec # 0
        BY <1>1, <2>1, <3>1
      <4>2. d[j] \in Cells
        BY <4>1, ElementOfSeq
      <4>3. d[j].rec \in Nat
        BY <4>2 DEF Cells
      <4> QED BY <4>1, <4>3 DEF Rising
    <3>3. CASE gone = {}
      BY <3>1, <3>2, <3>3
    <3>4. CASE gone # {}
      <4>1. u \in gone
        <5>1. gone \subseteq 0..a
          OBVIOUS
        <5> QED BY <3>4, <5>1, LatestOf
      <4>2. u \in RecordsIn(d) /\ u \notin RecordsIn(e) /\ u # 0
        BY <1>2, <1>3, <4>1
      <4>3. PICK k \in 1..Len(d) : d[k].rec = u
        BY <4>2, RecordsAre
      <4>4. \A x \in (c + 1)..Len(d) : d[x].rec # u
        BY <1>3, <4>2, CutKeepsRecords
      <4>5. k < j
        <5>1. ~(k \in (c + 1)..Len(d))
          BY <4>3, <4>4
        <5> QED BY <1>1, <5>1
      <4>6. u <= d[j].rec
        BY <3>2, <4>2, <4>3, <4>5 DEF Rising
      <4>7. u # d[j].rec
        BY <4>4
      <4> QED BY <1>3, <3>1, <3>2, <4>6, <4>7
    <3> QED BY <3>3, <3>4
  <2>2. ASSUME NEW i \in 1..Len(e), NEW j \in 1..Len(e), i < j, e[i].rec # 0, e[j].rec # 0
        PROVE  e[i].rec <= e[j].rec
    <3>1. c + (i - 2) \in (c + 1)..Len(d) /\ e[i] = d[c + (i - 2)]
      BY <1>5, <2>2
    <3>2. c + (j - 2) \in (c + 1)..Len(d) /\ e[j] = d[c + (j - 2)]
      BY <1>5, <2>2
    <3>3. c + (i - 2) \in 1..Len(d) /\ c + (j - 2) \in 1..Len(d) /\ c + (i - 2) < c + (j - 2)
      BY <1>1, <2>2, <3>1, <3>2
    <3> QED BY <2>2, <3>1, <3>2, <3>3 DEF Rising
  <2> QED BY <2>1, <2>2 DEF Rising
<1>7. ASSUME NEW r \in o, r \in RecordsIn(e)
      PROVE  \E p \in 1..Len(d) : \E q \in 1..Len(e) :
               /\ LineAt(d, p, r) /\ LineAt(e, q, r)
               /\ JoinedAt(e, q, r) => JoinedAt(d, p, r)
  <2>1. r \in Nat /\ r # 0 /\ r \in RecordsIn(d)
    BY <1>7, CutKeepsRecords
  <2>2. PICK p \in 1..Len(d) : LineAt(d, p, r)
    BY <2>1 DEF WholeIn
  <2> DEFINE q == p - c + 2
  <2>3. LineAt(e, q, r) /\ (e[q - 1] # Newline => p > 1 /\ d[p - 1] # Newline)
    <3> HIDE DEF q
    <3>1. q = p - c + 2
      BY DEF q
    <3> QED BY <1>7, <2>1, <2>2, <3>1, CutKeepsLine
  <2> HIDE DEF q
  <2>4. q \in 1..Len(e)
    BY <2>3, LineInside
  <2> QED BY <2>2, <2>3, <2>4 DEF JoinedAt
<1>8. WholeIn(e, o)
  BY <1>7 DEF WholeIn
<1>9. ASSUME NEW r \in JoinedIn(e, o) PROVE r \in JoinedIn(d, o)
  <2>1. r \in o /\ r # 0
    BY DEF JoinedIn
  <2>2. PICK k \in 1..Len(e) : JoinedAt(e, k, r)
    BY DEF JoinedIn
  <2>3. LineAt(e, k, r)
    BY <2>2 DEF JoinedAt
  <2>4. r \in RecordsIn(e)
    BY <2>1, <2>3, LineIsRecord
  <2>5. PICK p \in 1..Len(d), q \in 1..Len(e) :
               /\ LineAt(d, p, r) /\ LineAt(e, q, r)
               /\ JoinedAt(e, q, r) => JoinedAt(d, p, r)
    BY <1>7, <2>1, <2>4
  <2>6. k = q
    BY <2>3, <2>5, LineOnce
  <2> QED BY <2>1, <2>2, <2>5, <2>6 DEF JoinedIn
<1>10. ASSUME NEW r \in OrphansOf(e, o, u) PROVE r \in OrphansOf(d, o, t)
  <2>1. r \in o /\ r \in Nat /\ r > u /\ r \notin RecordsIn(e)
    BY DEF OrphansOf
  <2>2. r \notin gone
    <3> SUFFICES ASSUME r \in gone PROVE FALSE
      OBVIOUS
    <3>1. r <= u
      BY <1>2
    <3> QED BY <1>3, <2>1, <3>1
  <2>3. r \notin RecordsIn(d)
    BY <2>1, <2>2
  <2>4. r > t
    BY <1>3, <2>1
  <2> QED BY <2>1, <2>3, <2>4 DEF OrphansOf
<1> QED BY <1>4, <1>6, <1>8, <1>9, <1>10

(* The records acknowledged, or on the way to it. *)
Owed == ok \cup (IF step \in {"vacuum", "rename", "reopen"} THEN {attempt} ELSE {})

Joined  == JoinedIn(disk, Owed)
Orphans == OrphansOf(disk, Owed, trimmed)

(* The text of the latest record waits for its newline, after the first       *)
(* Before cells.                                                             *)
TextPending == step = "newline" /\ handle = "path"
Before      == IF TextPending THEN Len(disk) - 3 ELSE Len(disk)
Dangling    == Before > 0 /\ disk[Before] # Newline

PendingIsLast ==
  /\ TextPending =>
       /\ Before \in Nat
       /\ disk[Before + 1] = Cell(attempt, "ts") /\ disk[Before + 2] = Cell(attempt, "meta")
       /\ disk[Before + 3] = Cell(attempt, "hex")
       /\ \A i \in 1..Len(disk) : disk[i].rec = attempt => i > Before
  /\ step = "newline" => attempt \notin ok /\ (handle # "path" => attempt \notin RecordsIn(disk))

(* A file that was rewritten, or is about to be, ends with a newline.        *)
RewrittenEnds ==
  /\ step \in {"vacuum", "rename"} \/ handle = "unlinked" => Len(disk) > 0 /\ disk[Len(disk)] = Newline
  /\ handle = "unlinked" => Retains

(* Every line that runs into another, and one that waits to, was cut short.  *)
TearsCounted == Cardinality(Joined) + (IF Dangling THEN 1 ELSE 0) <= tears

(* What a file without a name may still swallow before the next vacuum.      *)
Exposed == IF handle = "unlinked" /\ step \in {"idle", "newline"} THEN VacuumEvery - since ELSE 0

OrphansCounted == Cardinality(Orphans) + Exposed <= VacuumEvery * (faults - tears)

Reopened == orphaned = 0 => Orphans = {} /\ (handle = "unlinked" => step = "reopen")

LossInv ==
  /\ Rising(disk, trimmed) /\ WholeIn(disk, Owed) /\ PendingIsLast /\ RewrittenEnds
  /\ TearsCounted /\ OrphansCounted /\ Reopened

LEMMA OwedTyped == TypeOK => Owed \subseteq 1..attempt /\ Owed \subseteq Nat \ {0} /\ attempt \in Nat
<1> SUFFICES ASSUME TypeOK PROVE Owed \subseteq 1..attempt /\ Owed \subseteq Nat \ {0} /\ attempt \in Nat
  OBVIOUS
<1>1. attempt \in Nat /\ ok \subseteq 1..attempt
  BY ConstantsTyped DEF TypeOK
<1>2. step \in {"vacuum", "rename", "reopen"} => attempt \in 1..attempt
  BY <1>1 DEF TypeOK
<1>3. Owed \subseteq 1..attempt
  BY <1>1, <1>2 DEF Owed
<1> QED BY <1>1, <1>3

LEMMA FewerOf ==
  ASSUME NEW a \in Nat, NEW S, S \subseteq 1..a, NEW T, T \subseteq S
  PROVE  /\ IsFiniteSet(S) /\ Cardinality(S) \in Nat
         /\ IsFiniteSet(T) /\ Cardinality(T) \in Nat /\ Cardinality(T) <= Cardinality(S)
<1>1. IsFiniteSet(1..a)
  BY FS_Interval
<1>2. IsFiniteSet(S)
  BY <1>1, FS_Subset
<1>3. IsFiniteSet(T) /\ Cardinality(T) <= Cardinality(S)
  BY <1>2, FS_Subset
<1> QED BY <1>2, <1>3, FS_CardinalityType

LEMMA OneMoreOf ==
  ASSUME NEW a \in Nat, NEW S, S \subseteq 1..a, NEW x, NEW T, T \subseteq S \cup {x}
  PROVE  /\ Cardinality(S) \in Nat /\ Cardinality(T) \in Nat
         /\ Cardinality(T) <= Cardinality(S) + 1
<1>1. IsFiniteSet(S) /\ Cardinality(S) \in Nat
  BY FewerOf
<1>2. IsFiniteSet(S \cup {x}) /\ Cardinality(S \cup {x}) <= Cardinality(S) + 1
  <2>1. /\ IsFiniteSet(S \cup {x})
        /\ Cardinality(S \cup {x}) = IF x \in S THEN Cardinality(S) ELSE Cardinality(S) + 1
    BY <1>1, FS_AddElement, Zenon
  <2> QED BY <1>1, <2>1
<1>3. IsFiniteSet(T) /\ Cardinality(T) <= Cardinality(S \cup {x})
  BY <1>2, FS_Subset
<1>4. Cardinality(T) \in Nat /\ Cardinality(S \cup {x}) \in Nat
  BY <1>2, <1>3, FS_CardinalityType
<1> QED BY <1>1, <1>2, <1>3, <1>4

LEMMA SetsTyped ==
  TypeOK => /\ Joined \subseteq 1..attempt /\ Orphans \subseteq 1..attempt /\ attempt \in Nat
            /\ Cardinality(Joined) \in Nat /\ Cardinality(Orphans) \in Nat
<1> SUFFICES ASSUME TypeOK
             PROVE  /\ Joined \subseteq 1..attempt /\ Orphans \subseteq 1..attempt /\ attempt \in Nat
                    /\ Cardinality(Joined) \in Nat /\ Cardinality(Orphans) \in Nat
  OBVIOUS
<1>1. Joined \subseteq 1..attempt /\ Orphans \subseteq 1..attempt /\ attempt \in Nat
  BY OwedTyped DEF Joined, JoinedIn, Orphans, OrphansOf
<1> QED BY <1>1, FewerOf

LEMMA OneMoreInterval ==
  ASSUME NEW n \in Int
  PROVE  VacuumEvery * n \in Int /\ VacuumEvery * (n + 1) = VacuumEvery * n + VacuumEvery
<1>1. VacuumEvery \in Int
  BY ConstantsTyped
<1>2. ASSUME NEW w \in Int PROVE w * n \in Int /\ w * (n + 1) = w * n + w
  OBVIOUS
<1> QED BY <1>1, <1>2

LEMMA CountsTyped ==
  TypeOK => /\ tears \in Nat /\ faults \in Nat /\ faults - tears \in Int
            /\ Exposed \in Int /\ VacuumEvery \in Nat
<1> SUFFICES ASSUME TypeOK
             PROVE  /\ tears \in Nat /\ faults \in Nat /\ faults - tears \in Int
                    /\ Exposed \in Int /\ VacuumEvery \in Nat
  OBVIOUS
<1>1. tears \in Nat /\ faults \in Nat /\ since \in Int /\ VacuumEvery \in Nat
  BY ConstantsTyped DEF TypeOK
<1> QED BY <1>1 DEF Exposed

(* A step that costs no record anything, or is a line cut short.             *)
LEMMA TearsStayCounted ==
  ASSUME TypeOK, TypeOK', TearsCounted, Joined' \subseteq Joined,
         \/ tears' = tears /\ (Dangling' => Dangling)
         \/ tears' = tears + 1
  PROVE  TearsCounted'
<1>1. /\ Cardinality(Joined) \in Nat /\ Cardinality(Joined)' \in Nat
      /\ Cardinality(Joined)' <= Cardinality(Joined)
  <2>1. Joined \subseteq 1..attempt /\ attempt \in Nat
    BY SetsTyped
  <2> QED BY <2>1, FewerOf
<1>2. tears \in Nat
  BY CountsTyped
<1> QED BY <1>1, <1>2 DEF TearsCounted

(* A fault that is no line cut short allows for VacuumEvery orphans more.    *)
LEMMA OrphansStayCounted ==
  ASSUME TypeOK, TypeOK', OrphansCounted, Orphans' \subseteq Orphans,
         \/ faults' - tears' = faults - tears /\ Exposed' <= Exposed
         \/ faults' - tears' = faults - tears + 1 /\ Exposed' <= Exposed + VacuumEvery
  PROVE  OrphansCounted'
<1>1. /\ Cardinality(Orphans) \in Nat /\ Cardinality(Orphans)' \in Nat
      /\ Cardinality(Orphans)' <= Cardinality(Orphans)
  <2>1. Orphans \subseteq 1..attempt /\ attempt \in Nat
    BY SetsTyped
  <2> QED BY <2>1, FewerOf
<1>2. Exposed \in Int /\ Exposed' \in Int /\ VacuumEvery \in Nat
  <2>1. since \in Int /\ since' \in Int /\ VacuumEvery \in Nat
    BY ConstantsTyped DEF TypeOK
  <2> QED BY <2>1 DEF Exposed
<1> DEFINE n == faults - tears
           m == faults' - tears'
<1>3. VacuumEvery * n \in Int /\ VacuumEvery * (n + 1) = VacuumEvery * n + VacuumEvery
  <2>1. n \in Int
    BY CountsTyped
  <2> HIDE DEF n
  <2> QED BY <2>1, OneMoreInterval
<1>4. Cardinality(Orphans) + Exposed <= VacuumEvery * n
  BY DEF OrphansCounted
<1>5. Cardinality(Orphans)' + Exposed' <= VacuumEvery * m
  <2>1. (m = n /\ Exposed' <= Exposed) \/ (m = n + 1 /\ Exposed' <= Exposed + VacuumEvery)
    OBVIOUS
  <2> HIDE DEF n, m
  <2> QED BY <1>1, <1>2, <1>3, <1>4, <2>1
<1> QED BY <1>5 DEF OrphansCounted

(* The file and the records owed stay as they are, or fewer are owed.        *)
LEMMA QuietKeeps ==
  ASSUME disk' = disk, trimmed' = trimmed, Owed' \subseteq Owed, Rising(disk, trimmed), WholeIn(disk, Owed)
  PROVE  /\ Rising(disk, trimmed)' /\ WholeIn(disk, Owed)'
         /\ Joined' \subseteq Joined /\ Orphans' \subseteq Orphans
<1>1. Rising(disk, trimmed)'
  BY DEF Rising
<1>2. WholeIn(disk', Owed')
  BY DEF WholeIn
<1>3. JoinedIn(disk', Owed') \subseteq JoinedIn(disk, Owed)
  BY DEF JoinedIn
<1>4. OrphansOf(disk', Owed', trimmed') \subseteq OrphansOf(disk, Owed, trimmed)
  BY DEF OrphansOf
<1> QED BY <1>1, <1>2, <1>3, <1>4 DEF Joined, Orphans

LEMMA InitLossInv == Init => LossInv
<1> SUFFICES ASSUME Init PROVE LossInv
  OBVIOUS
<1>1. Owed = {} /\ Joined = {} /\ Orphans = {}
  BY DEF Init, Owed, Joined, JoinedIn, Orphans, OrphansOf
<1>2. Cardinality({}) = 0 /\ VacuumEvery * (0 - 0) = 0
  BY FS_EmptySet, ConstantsTyped
<1>3. TearsCounted
  BY <1>1, <1>2 DEF Init, TearsCounted, Dangling, Before, TextPending
<1>4. OrphansCounted
  BY <1>1, <1>2 DEF Init, OrphansCounted, Exposed
<1>5. Rising(disk, trimmed) /\ WholeIn(disk, Owed)
  BY <1>1 DEF Init, Rising, WholeIn
<1>6. PendingIsLast /\ RewrittenEnds /\ Reopened
  BY <1>1 DEF Init, PendingIsLast, RewrittenEnds, Reopened, TextPending
<1> QED BY <1>3, <1>4, <1>5, <1>6 DEF LossInv

(* What a step that keeps every record has still to show.                    *)
StepCounts ==
  /\ PendingIsLast' /\ RewrittenEnds'
  /\ orphaned' = 0 => orphaned = 0 /\ (handle' = "unlinked" => step' = "reopen")
  /\ \/ tears' = tears /\ (Dangling' => Dangling)
     \/ tears' = tears + 1
  /\ \/ faults' - tears' = faults - tears /\ Exposed' <= Exposed
     \/ faults' - tears' = faults - tears + 1 /\ Exposed' <= Exposed + VacuumEvery

LEMMA KeepingStep ==
  ASSUME TypeOK, TypeOK', LossInv, StepCounts,
         Rising(disk, trimmed)', WholeIn(disk, Owed)', Joined' \subseteq Joined, Orphans' \subseteq Orphans
  PROVE  LossInv'
<1>1. TearsCounted'
  BY TearsStayCounted DEF LossInv, StepCounts
<1>2. OrphansCounted'
  BY OrphansStayCounted DEF LossInv, StepCounts
<1>3. Reopened'
  BY DEF LossInv, StepCounts, Reopened
<1> QED BY <1>1, <1>2, <1>3 DEF LossInv, StepCounts

LEMMA QuietStep ==
  ASSUME TypeOK, TypeOK', LossInv, StepCounts, disk' = disk, trimmed' = trimmed, Owed' \subseteq Owed
  PROVE  LossInv'
  BY KeepingStep, QuietKeeps DEF LossInv

LEMMA DiskRecords ==
  TypeOK => /\ disk \in Seq(Cells) /\ RecordsIn(disk) \subseteq 1..attempt /\ Len(disk) \in Nat
            /\ \A i \in 1..Len(disk) : disk[i].rec <= attempt /\ disk[i].rec \in Nat
            /\ attempt \in Nat
<1> SUFFICES ASSUME TypeOK
             PROVE  /\ disk \in Seq(Cells) /\ RecordsIn(disk) \subseteq 1..attempt /\ Len(disk) \in Nat
                    /\ \A i \in 1..Len(disk) : disk[i].rec <= attempt /\ disk[i].rec \in Nat
                    /\ attempt \in Nat
  OBVIOUS
<1>1. disk \in Seq(Cells) /\ Len(disk) \in Nat
  BY DiskTyped, LenProperties
<1>2. attempt \in Nat /\ disk \in Seq([rec : 0..attempt, part : Parts])
  BY ConstantsTyped DEF TypeOK
<1>3. RecordsIn(disk) \subseteq 1..attempt
  BY <1>2, RecordsTyped
<1>4. \A i \in 1..Len(disk) : disk[i] \in [rec : 0..attempt, part : Parts]
  BY <1>2, ElementOfSeq
<1>5. \A i \in 1..Len(disk) : disk[i].rec \in 0..attempt
  BY <1>4
<1> QED BY <1>1, <1>2, <1>3, <1>5

LEMMA ExposedTyped == TypeOK /\ RewrittenEnds => Exposed \in Nat /\ Exposed <= VacuumEvery
<1> SUFFICES ASSUME TypeOK, RewrittenEnds PROVE Exposed \in Nat /\ Exposed <= VacuumEvery
  OBVIOUS
<1>1. since \in Nat /\ (handle = "unlinked" => since < VacuumEvery) /\ VacuumEvery \in Nat
  BY ConstantsTyped DEF TypeOK, RewrittenEnds
<1> QED BY <1>1 DEF Exposed

(* The header of a new file, or the beginning of it. *)
LEMMA NewFileKeeps ==
  ASSUME TypeOK, TypeOK', disk = <<>>, \A i \in 1..Len(disk') : disk'[i].rec = 0,
         Owed' = Owed, trimmed' = trimmed
  PROVE  /\ Rising(disk, trimmed)' /\ WholeIn(disk, Owed)'
         /\ Joined' \subseteq Joined /\ Orphans' \subseteq Orphans
<1>1. disk' \in Seq(Cells)
  <2>1. (TypeOK => disk \in Seq(Cells) /\ ReadAll(disk) \in Seq(Nat))'
    BY DiskTyped, PTL
  <2> QED BY <2>1
<1>2. RecordsIn(disk') = {} /\ RecordsIn(disk) = {}
  BY <1>1 DEF RecordsIn
<1>3. Rising(disk', trimmed')
  BY DEF Rising
<1>4. WholeIn(disk', Owed')
  BY <1>2 DEF WholeIn
<1>5. JoinedIn(disk', Owed') = {}
  <2> SUFFICES ASSUME NEW r \in Owed, NEW p \in 1..Len(disk'), JoinedAt(disk', p, r) PROVE FALSE
    BY DEF JoinedIn
  <2>1. LineAt(disk', p, r)
    BY DEF JoinedAt
  <2>2. r # 0
    BY OwedTyped
  <2> QED BY <1>1, <1>2, <2>1, <2>2, LineIsRecord
<1>6. OrphansOf(disk', Owed', trimmed') = OrphansOf(disk, Owed, trimmed)
  BY <1>2 DEF OrphansOf
<1> QED BY <1>3, <1>4, <1>5, <1>6 DEF Joined, Orphans

LEMMA OpenKeepsLoss == TypeOK /\ TypeOK' /\ LossInv /\ Open => LossInv'
<1> SUFFICES ASSUME TypeOK, TypeOK', LossInv, Open PROVE LossInv'
  OBVIOUS
<1>1. /\ step = "down" /\ handle = "none" /\ step' = "idle" /\ handle' = "path" /\ since' = 0
      /\ UNCHANGED <<attempt, ok, trimmed, tears, faults, orphaned>>
  BY DEF Open, TypeOK
<1>2. Owed' = Owed /\ ~TextPending /\ ~TextPending'
  BY <1>1 DEF Owed, TextPending
<1>3. PendingIsLast' /\ RewrittenEnds'
  BY <1>1, <1>2 DEF PendingIsLast, RewrittenEnds
<1>4. Exposed = 0 /\ Exposed' = 0
  BY <1>1 DEF Exposed
<1>5. SUFFICES ASSUME TRUE
               PROVE  /\ Dangling' => Dangling
                      /\ Rising(disk, trimmed)' /\ WholeIn(disk, Owed)'
                      /\ Joined' \subseteq Joined /\ Orphans' \subseteq Orphans
  <2>1. tears \in Nat /\ faults \in Nat
    BY CountsTyped
  <2> QED BY <1>1, <1>3, <1>4, <2>1, KeepingStep DEF StepCounts
<1>6. CASE disk # <<>>
  <2>1. disk' = disk
    BY <1>6 DEF Open
  <2>2. Dangling' => Dangling
    BY <1>2, <2>1 DEF Dangling, Before
  <2> QED BY <1>1, <1>2, <2>1, <2>2, QuietKeeps DEF LossInv
<1>7. CASE disk = <<>>
  <2>1. disk' = Header
    BY <1>7 DEF Open
  <2>2. Len(disk') = 2 /\ disk'[2] = Newline /\ disk'[1] = Cell(0, "comment")
    BY <2>1 DEF Header
  <2>3. \A i \in 1..Len(disk') : disk'[i].rec = 0
    BY <2>2, CellParts, NewlineParts
  <2>4. ~Dangling'
    BY <1>2, <2>2 DEF Dangling, Before
  <2> QED BY <1>1, <1>2, <1>7, <2>3, <2>4, NewFileKeeps
<1> QED BY <1>6, <1>7

LEMMA OpenTornKeepsLoss == TypeOK /\ TypeOK' /\ LossInv /\ OpenTorn => LossInv'
<1> SUFFICES ASSUME TypeOK, TypeOK', LossInv, OpenTorn PROVE LossInv'
  OBVIOUS
<1>1. /\ step = "down" /\ handle = "none" /\ step' = "down" /\ handle' = "none" /\ disk = <<>>
      /\ tears' = tears + 1 /\ faults' = faults + 1
      /\ UNCHANGED <<since, attempt, ok, trimmed, orphaned>>
  BY DEF OpenTorn, Fails, TypeOK
<1>2. Owed' = Owed /\ ~TextPending /\ ~TextPending'
  BY <1>1 DEF Owed, TextPending
<1>3. PendingIsLast' /\ RewrittenEnds'
  BY <1>1, <1>2 DEF PendingIsLast, RewrittenEnds
<1>4. Exposed = 0 /\ Exposed' = 0
  BY <1>1 DEF Exposed
<1>5. disk' = <<Cell(0, "comment")>>
  BY DEF OpenTorn, Header
<1>6. \A i \in 1..Len(disk') : disk'[i].rec = 0
  BY <1>5, CellParts
<1>7. /\ Rising(disk, trimmed)' /\ WholeIn(disk, Owed)'
      /\ Joined' \subseteq Joined /\ Orphans' \subseteq Orphans
  BY <1>1, <1>2, <1>6, NewFileKeeps
<1>8. StepCounts
  <2>1. tears \in Nat /\ faults \in Nat
    BY CountsTyped
  <2> QED BY <1>1, <1>3, <1>4, <2>1 DEF StepCounts
<1> QED BY <1>7, <1>8, KeepingStep

(* The steps that leave the file alone. *)
LEMMA QuietStepsKeepLoss ==
  ASSUME TypeOK, TypeOK', LossInv,
         WriteNewlineFails \/ Vacuum \/ VacuumFails \/ Reopen \/ ReopenFails \/ Crash \/ UNCHANGED vars
  PROVE  LossInv'
<1>1. /\ tears \in Nat /\ faults \in Nat /\ orphaned \in Nat /\ VacuumEvery \in Nat
      /\ Exposed \in Nat /\ Exposed <= VacuumEvery
  BY CountsTyped, ExposedTyped DEF TypeOK, LossInv
<1>2. /\ PendingIsLast /\ RewrittenEnds
      /\ orphaned = 0 => (handle = "unlinked" => step = "reopen")
  BY DEF LossInv, Reopened
<1>3. step = "down" <=> handle = "none"
  BY DEF TypeOK
<1>a. CASE WriteNewlineFails
  <2>1. /\ step = "newline" /\ step' = "idle" /\ tears' = tears + 1 /\ faults' = faults + 1
        /\ UNCHANGED <<disk, handle, since, attempt, ok, trimmed, orphaned>>
    BY <1>a DEF WriteNewlineFails, Fails
  <2>2. Owed' = Owed
    BY <2>1 DEF Owed
  <2>3. PendingIsLast' /\ RewrittenEnds'
    BY <1>2, <2>1 DEF PendingIsLast, RewrittenEnds, TextPending, Retains
  <2>4. Exposed' = Exposed
    BY <2>1 DEF Exposed
  <2>5. StepCounts
    BY <1>1, <1>2, <2>1, <2>3, <2>4 DEF StepCounts
  <2> QED BY <2>1, <2>2, <2>5, QuietStep
<1>b. CASE Vacuum
  <2>1. /\ step = "vacuum" /\ step' \in {"rename", "reopen"}
        /\ UNCHANGED <<disk, handle, since, attempt, ok, trimmed, tears, faults, orphaned>>
    BY <1>b DEF Vacuum
  <2>2. Owed' = Owed
    BY <2>1 DEF Owed
  <2>3. PendingIsLast' /\ RewrittenEnds'
    BY <1>2, <2>1 DEF PendingIsLast, RewrittenEnds, TextPending, Retains
  <2>4. Exposed' = 0 /\ (Dangling' => Dangling)
    BY <2>1 DEF Exposed, Dangling, Before, TextPending
  <2>5. StepCounts
    BY <1>1, <1>2, <2>1, <2>3, <2>4 DEF StepCounts
  <2> QED BY <2>1, <2>2, <2>5, QuietStep
<1>c. CASE VacuumFails
  <2>1. /\ step \in {"vacuum", "rename"} /\ step' = "idle" /\ faults' = faults + 1
        /\ UNCHANGED <<disk, handle, since, attempt, ok, trimmed, tears, orphaned>>
    BY <1>c DEF VacuumFails, Fails
  <2>2. Owed' \subseteq Owed
    BY <2>1 DEF Owed
  <2>3. PendingIsLast' /\ RewrittenEnds'
    BY <1>2, <2>1 DEF PendingIsLast, RewrittenEnds, TextPending, Retains
  <2>4. Exposed' <= Exposed + VacuumEvery /\ (Dangling' => Dangling)
    <3>1. Exposed' \in Int /\ Exposed' <= VacuumEvery
      BY <1>1, <1>2, <2>1 DEF Exposed, TypeOK, RewrittenEnds
    <3> QED BY <1>1, <2>1, <3>1 DEF Dangling, Before, TextPending
  <2>5. StepCounts
    BY <1>1, <1>2, <2>1, <2>3, <2>4 DEF StepCounts
  <2> QED BY <2>1, <2>2, <2>5, QuietStep
<1>d. CASE Reopen
  <2>1. /\ step = "reopen" /\ step' = "idle" /\ handle' = "path" /\ ok' = ok \cup {attempt}
        /\ UNCHANGED <<disk, since, attempt, trimmed, tears, faults, orphaned>>
    BY <1>d DEF Reopen, Acknowledge
  <2>2. Owed' = Owed
    BY <2>1 DEF Owed
  <2>3. PendingIsLast' /\ RewrittenEnds'
    BY <1>2, <2>1 DEF PendingIsLast, RewrittenEnds, TextPending, Retains
  <2>4. Exposed' = 0 /\ (Dangling' => Dangling)
    BY <2>1 DEF Exposed, Dangling, Before, TextPending
  <2>5. StepCounts
    BY <1>1, <1>2, <2>1, <2>3, <2>4 DEF StepCounts
  <2> QED BY <2>1, <2>2, <2>5, QuietStep
<1>e. CASE ReopenFails
  <2>1. /\ step = "reopen" /\ step' = "idle" /\ faults' = faults + 1 /\ orphaned' = orphaned + 1
        /\ UNCHANGED <<disk, handle, since, attempt, ok, trimmed, tears>>
    BY <1>e DEF ReopenFails, Fails
  <2>2. Owed' \subseteq Owed
    BY <2>1 DEF Owed
  <2>3. PendingIsLast' /\ RewrittenEnds'
    BY <1>2, <2>1 DEF PendingIsLast, RewrittenEnds, TextPending, Retains
  <2>4. Exposed' <= Exposed + VacuumEvery /\ (Dangling' => Dangling)
    <3>1. Exposed' \in Int /\ Exposed' <= VacuumEvery
      BY <1>1, <1>2, <2>1 DEF Exposed, TypeOK, RewrittenEnds
    <3> QED BY <1>1, <2>1, <3>1 DEF Dangling, Before, TextPending
  <2>5. StepCounts
    BY <1>1, <1>2, <2>1, <2>3, <2>4 DEF StepCounts
  <2> QED BY <2>1, <2>2, <2>5, QuietStep
<1>f. CASE Crash
  <2>1. /\ step # "down" /\ step' = "down" /\ handle' = "none" /\ faults' = faults + 1
        /\ tears' = IF step = "newline" THEN tears + 1 ELSE tears
        /\ UNCHANGED <<disk, since, attempt, ok, trimmed, orphaned>>
    BY <1>f DEF Crash, Fails
  <2>2. Owed' \subseteq Owed
    BY <2>1 DEF Owed
  <2>3. PendingIsLast' /\ RewrittenEnds'
    BY <1>2, <2>1 DEF PendingIsLast, RewrittenEnds, TextPending, Retains
  <2>4. Exposed' = 0 /\ (step # "newline" /\ Dangling' => Dangling)
    BY <2>1 DEF Exposed, Dangling, Before, TextPending
  <2>5. StepCounts
    BY <1>1, <1>2, <2>1, <2>3, <2>4 DEF StepCounts
  <2> QED BY <2>1, <2>2, <2>5, QuietStep
<1>g. CASE UNCHANGED vars
  <2>1. UNCHANGED <<disk, handle, step, since, attempt, ok, trimmed, tears, orphaned, faults>>
    BY <1>g DEF vars
  <2>2. Owed' = Owed
    BY <2>1 DEF Owed
  <2>3. PendingIsLast' /\ RewrittenEnds'
    BY <1>2, <2>1 DEF PendingIsLast, RewrittenEnds, TextPending, Retains, Before
  <2>4. Exposed' = Exposed /\ (Dangling' => Dangling)
    BY <2>1 DEF Exposed, Dangling, Before, TextPending
  <2>5. StepCounts
    BY <1>1, <1>2, <2>1, <2>3, <2>4 DEF StepCounts
  <2> QED BY <2>1, <2>2, <2>5, QuietStep
<1> QED BY <1>a, <1>b, <1>c, <1>d, <1>e, <1>f, <1>g

(* The text of a record, or the beginning of it, is appended.                *)
LEMMA TextKeeps ==
  ASSUME TypeOK, LossInv, NEW c \in Seq(Cells), Len(c) > 0,
         \A i \in 1..Len(c) : c[i].rec = attempt + 1, disk' = disk \o c,
         Owed' = Owed, trimmed' = trimmed
  PROVE  /\ Rising(disk, trimmed)' /\ WholeIn(disk, Owed)'
         /\ Joined' \subseteq Joined /\ Orphans' \subseteq Orphans
<1>1. /\ disk \in Seq(Cells) /\ attempt \in Nat /\ trimmed \in Nat /\ trimmed < attempt + 1
      /\ \A i \in 1..Len(disk) : disk[i].rec <= attempt + 1
  <2>1. /\ disk \in Seq(Cells) /\ attempt \in Nat
        /\ \A i \in 1..Len(disk) : disk[i].rec <= attempt /\ disk[i].rec \in Nat
    BY DiskRecords
  <2>2. trimmed \in Nat /\ trimmed < attempt + 1
    BY <2>1 DEF TypeOK
  <2> QED BY <2>1, <2>2
<1>2. Rising(disk', trimmed')
  <2>1. \A i \in 1..Len(c) : c[i].rec \in {0, attempt + 1}
    OBVIOUS
  <2>2. attempt + 1 \in Nat /\ attempt + 1 > trimmed /\ Rising(disk, trimmed)
    BY <1>1 DEF LossInv
  <2>3. Rising(disk \o c, trimmed)
    BY <1>1, <2>1, <2>2, AppendRises
  <2> QED BY <2>3
<1>3. ASSUME NEW r \in Owed PROVE Apart(disk, c, r)
  <2>1. r # attempt + 1 /\ r # 0
    BY <1>1, OwedTyped
  <2>2. Len(c) \in Nat
    BY LenProperties
  <2>3. c[1].rec = attempt + 1
    BY <2>2
  <2>4. c[1] # Newline
    BY <1>1, <2>3, NewlineParts
  <2> QED BY <2>1, <2>4 DEF Apart
<1>4. /\ WholeIn(disk', Owed) /\ JoinedIn(disk', Owed) \subseteq JoinedIn(disk, Owed)
      /\ OrphansOf(disk', Owed, trimmed) \subseteq OrphansOf(disk, Owed, trimmed)
  <2>1. WholeIn(disk, Owed) /\ Owed \subseteq Nat \ {0}
    BY OwedTyped DEF LossInv
  <2> QED BY <1>1, <1>3, <2>1, AppendKeeps
<1> QED BY <1>2, <1>4 DEF Joined, Orphans

LEMMA TextCells ==
  ASSUME NEW r \in Nat, NEW n \in 1..3, NEW c, (c = Text(r) /\ n = 3) \/ c = SubSeq(Text(r), 1, n)
  PROVE  c \in Seq(Cells) /\ Len(c) = n /\ \A i \in 1..n : c[i].rec = r
<1>1. Text(r) \in Seq(Cells) /\ Len(Text(r)) = 3
  BY TextIsRead DEF Text
<1>2. \A i \in 1..3 : Text(r)[i].rec = r
  BY CellParts DEF Text
<1> DEFINE t == Text(r)
<1> HIDE DEF t
<1>3. CASE c = t /\ n = 3
  BY <1>1, <1>2, <1>3 DEF t
<1>4. CASE c = SubSeq(t, 1, n)
  <2>1. \A i \in 1..n : t[i] \in Cells /\ t[i].rec = r
    <3>1. \A i \in 1..n : i \in 1..3
      OBVIOUS
    <3> QED BY <1>1, <1>2, <3>1, ElementOfSeq DEF t
  <2>2. /\ c \in Seq(Cells) /\ Len(c) = (IF 1 <= n THEN n - 1 + 1 ELSE 0)
        /\ \A i \in 1..(n - 1 + 1) : c[i] = t[1 + i - 1]
    <3>1. 1 \in Int /\ n \in Int
      OBVIOUS
    <3> QED BY <1>4, <2>1, <3>1, SubSeqProperties
  <2>3. ASSUME NEW i \in 1..n PROVE c[i].rec = r
    <3>1. i \in 1..(n - 1 + 1) /\ 1 + i - 1 = i
      OBVIOUS
    <3> QED BY <2>1, <2>2, <3>1
  <2>4. Len(c) = n
    BY <2>2
  <2> QED BY <2>2, <2>3, <2>4
<1> QED BY <1>3, <1>4 DEF t

LEMMA WriteTextKeepsLoss == TypeOK /\ TypeOK' /\ LossInv /\ WriteText => LossInv'
<1> SUFFICES ASSUME TypeOK, TypeOK', LossInv, WriteText PROVE LossInv'
  OBVIOUS
<1>1. /\ step = "idle" /\ step' = "newline" /\ attempt' = attempt + 1
      /\ UNCHANGED <<handle, since, ok, trimmed, tears, faults, orphaned>>
  BY DEF WriteText
<1>2. Owed' = Owed /\ ~TextPending /\ Exposed' = Exposed
  BY <1>1 DEF Owed, TextPending, Exposed
<1>3. /\ disk \in Seq(Cells) /\ RecordsIn(disk) \subseteq 1..attempt /\ Len(disk) \in Nat
      /\ \A i \in 1..Len(disk) : disk[i].rec <= attempt /\ disk[i].rec \in Nat
      /\ attempt \in Nat
  BY DiskRecords
<1>4. tears \in Nat /\ faults \in Nat /\ Exposed \in Int
  BY CountsTyped
<1>5. attempt' \notin ok'
  BY <1>1, <1>3 DEF TypeOK
<1>6. orphaned' = 0 => orphaned = 0 /\ (handle' = "unlinked" => step' = "reopen")
  BY <1>1 DEF LossInv, Reopened
<1>7. CASE handle = "path"
  <2> DEFINE a == attempt + 1
             c == Text(a)
  <2>1. disk' = disk \o c /\ a \in Nat /\ attempt' = a
    BY <1>1, <1>3, <1>7 DEF WriteText, Write
  <2>2. a > attempt
    BY <1>3
  <2> HIDE DEF a
  <2>3. c \in Seq(Cells) /\ Len(c) = 3 /\ \A i \in 1..3 : c[i].rec = a
    <3>1. 3 \in 1..3
      OBVIOUS
    <3> QED BY <2>1, <3>1, TextCells
  <2>4. /\ Rising(disk, trimmed)' /\ WholeIn(disk, Owed)'
        /\ Joined' \subseteq Joined /\ Orphans' \subseteq Orphans
    <3> HIDE DEF c
    <3>1. \A i \in 1..Len(c) : c[i].rec = attempt + 1
      BY <2>3 DEF a
    <3>2. Len(c) > 0 /\ c \in Seq(Cells) /\ disk' = disk \o c
      BY <2>1, <2>3
    <3> QED BY <1>1, <1>2, <3>1, <3>2, TextKeeps
  <2>5. /\ Len(disk') = Len(disk) + 3
        /\ \A i \in 1..Len(disk) : disk'[i] = disk[i]
        /\ disk'[Len(disk) + 1] = Cell(a, "ts")
        /\ disk'[Len(disk) + 2] = Cell(a, "meta")
        /\ disk'[Len(disk) + 3] = Cell(a, "hex")
    <3>1. disk' = WithText(disk, a)
      BY <1>3, <2>1, WithTextIsConcat
    <3>2. /\ Len(WithText(disk, a)) = Len(disk) + 3
          /\ \A i \in 1..Len(disk) : WithText(disk, a)[i] = disk[i]
          /\ WithText(disk, a)[Len(disk) + 1] = Cell(a, "ts")
          /\ WithText(disk, a)[Len(disk) + 2] = Cell(a, "meta")
          /\ WithText(disk, a)[Len(disk) + 3] = Cell(a, "hex")
      BY <1>3, <2>1, WithTextIsConcat
    <3> QED BY <3>1, <3>2
  <2>6. TextPending' /\ Before' = Len(disk) /\ Before = Len(disk)
    <3>1. TextPending'
      BY <1>1, <1>7 DEF TextPending
    <3>2. Before' = Len(disk') - 3
      BY <3>1 DEF Before
    <3>3. Before' = Len(disk)
      BY <1>3, <2>5, <3>2
    <3> QED BY <1>2, <3>1, <3>3 DEF Before
  <2>7. \A i \in 1..Len(disk') : disk'[i].rec = attempt' => i > Len(disk)
    <3> SUFFICES ASSUME NEW i \in 1..Len(disk'), disk'[i].rec = attempt', i <= Len(disk) PROVE FALSE
      BY <1>3
    <3>1. i \in 1..Len(disk)
      BY <1>3
    <3>2. disk[i].rec = a
      BY <2>1, <2>5, <3>1
    <3> QED BY <1>3, <2>1, <2>2, <3>1, <3>2
  <2>8. PendingIsLast'
    BY <1>1, <1>3, <1>5, <1>7, <2>1, <2>5, <2>6, <2>7 DEF PendingIsLast
  <2>9. RewrittenEnds'
    BY <1>1, <1>7 DEF RewrittenEnds
  <2>10. Dangling' => Dangling
    <3>1. Len(disk) > 0 => disk'[Len(disk)] = disk[Len(disk)]
      BY <1>3, <2>5
    <3> QED BY <2>6, <3>1 DEF Dangling
  <2>11. StepCounts
    BY <1>1, <1>2, <1>4, <1>6, <2>8, <2>9, <2>10 DEF StepCounts
  <2> QED BY <2>4, <2>11, KeepingStep
<1>8. CASE handle # "path"
  <2>1. disk' = disk
    BY <1>8 DEF WriteText, Write
  <2>2. ~TextPending'
    BY <1>1, <1>8 DEF TextPending
  <2>3. PendingIsLast'
    <3>1. attempt' \notin RecordsIn(disk')
      BY <1>1, <1>3, <2>1
    <3> QED BY <1>5, <2>2, <3>1 DEF PendingIsLast
  <2>4. RewrittenEnds'
    BY <1>1, <2>1 DEF LossInv, RewrittenEnds, Retains
  <2>5. Dangling' => Dangling
    BY <1>2, <2>1, <2>2 DEF Dangling, Before
  <2>6. StepCounts
    BY <1>1, <1>2, <1>4, <1>6, <2>3, <2>4, <2>5 DEF StepCounts
  <2> QED BY <1>1, <1>2, <2>1, <2>6, QuietStep
<1> QED BY <1>7, <1>8

LEMMA WriteTextTornKeepsLoss == TypeOK /\ TypeOK' /\ LossInv /\ WriteTextTorn => LossInv'
<1> SUFFICES ASSUME TypeOK, TypeOK', LossInv, WriteTextTorn PROVE LossInv'
  OBVIOUS
<1>1. /\ step = "idle" /\ step' = "idle" /\ attempt' = attempt + 1
      /\ tears' = tears + 1 /\ faults' = faults + 1
      /\ UNCHANGED <<handle, since, ok, trimmed, orphaned>>
  BY DEF WriteTextTorn, Fails
<1>2. Owed' = Owed /\ Exposed' = Exposed
  BY <1>1 DEF Owed, Exposed
<1>3. PendingIsLast'
  BY <1>1 DEF PendingIsLast, TextPending
<1>4. tears \in Nat /\ faults \in Nat /\ Exposed \in Int
  BY CountsTyped
<1>5. orphaned' = 0 => orphaned = 0 /\ (handle' = "unlinked" => step' = "reopen")
  BY <1>1 DEF LossInv, Reopened
<1>6. PICK n \in 1..2 : Write(SubSeq(Text(attempt + 1), 1, n))
  BY DEF WriteTextTorn
<1>7. CASE handle = "path"
  <2> DEFINE c == SubSeq(Text(attempt + 1), 1, n)
  <2>1. disk' = disk \o c
    BY <1>6, <1>7 DEF Write
  <2>2. c \in Seq(Cells) /\ Len(c) = n /\ \A i \in 1..n : c[i].rec = attempt + 1
    <3>1. attempt + 1 \in Nat /\ n \in 1..3
      BY DiskRecords
    <3> HIDE DEF c
    <3>2. c = SubSeq(Text(attempt + 1), 1, n)
      BY DEF c
    <3> QED BY <3>1, <3>2, TextCells
  <2> HIDE DEF c
  <2>3. Len(c) > 0
    BY <2>2
  <2>4. /\ Rising(disk, trimmed)' /\ WholeIn(disk, Owed)'
        /\ Joined' \subseteq Joined /\ Orphans' \subseteq Orphans
    BY <1>1, <1>2, <2>1, <2>2, <2>3, TextKeeps
  <2>5. RewrittenEnds'
    BY <1>1, <1>7 DEF RewrittenEnds
  <2>6. StepCounts
    BY <1>1, <1>2, <1>3, <1>4, <1>5, <2>5 DEF StepCounts
  <2> QED BY <2>4, <2>6, KeepingStep
<1>8. CASE handle # "path"
  <2>1. disk' = disk
    BY <1>6, <1>8 DEF Write
  <2>2. RewrittenEnds'
    BY <1>1, <2>1 DEF LossInv, RewrittenEnds, Retains
  <2>3. StepCounts
    BY <1>1, <1>2, <1>3, <1>4, <1>5, <2>2 DEF StepCounts
  <2> QED BY <1>1, <1>2, <2>1, <2>3, QuietStep
<1> QED BY <1>7, <1>8

(* The newline of a line: the record is owed from here on.                   *)
LEMMA WriteNewlineKeepsLoss == TypeOK /\ TypeOK' /\ LossInv /\ WriteNewline => LossInv'
<1> SUFFICES ASSUME TypeOK, TypeOK', LossInv, WriteNewline PROVE LossInv'
  OBVIOUS
<1>1. /\ step = "newline" /\ step' \in {"vacuum", "idle"}
      /\ UNCHANGED <<handle, attempt, trimmed, tears, faults, orphaned>>
  BY DEF WriteNewline
<1>2. Owed = ok /\ Owed' = ok \cup {attempt}
  BY <1>1 DEF Owed, WriteNewline, Acknowledge
<1>3. PendingIsLast'
  BY <1>1 DEF PendingIsLast, TextPending
<1>4. attempt \notin ok /\ attempt \in Nat /\ attempt # 0
  BY <1>1, DiskRecords DEF LossInv, PendingIsLast, TypeOK
<1>5. disk \in Seq(Cells) /\ Len(disk) \in Nat
  BY DiskRecords
<1>6. tears \in Nat /\ faults \in Nat /\ faults - tears \in Int /\ Exposed \in Int /\ VacuumEvery \in Nat
  BY CountsTyped
<1>7. Joined \subseteq 1..attempt /\ Orphans \subseteq 1..attempt
  BY SetsTyped
<1>8. VacuumEvery * (faults - tears) \in Int
  <2> DEFINE n == faults - tears
  <2>1. n \in Int
    BY <1>6
  <2> HIDE DEF n
  <2>2. VacuumEvery * n \in Int
    BY <2>1, OneMoreInterval
  <2> QED BY <2>2 DEF n
<1>a. CASE handle = "path"
  <2>1. disk' = disk \o <<Newline>>
    BY <1>a DEF WriteNewline, Write
  <2>2. TextPending /\ PendingIsLast
    BY <1>1, <1>a DEF TextPending, LossInv
  <2>3. PICK b \in Nat : /\ b = Before /\ Len(disk) = b + 3
                         /\ disk[b + 1] = Cell(attempt, "ts") /\ disk[b + 2] = Cell(attempt, "meta")
                         /\ disk[b + 3] = Cell(attempt, "hex")
                         /\ \A i \in 1..Len(disk) : disk[i].rec = attempt => i > b
    <3>1. Before \in Nat /\ Len(disk) = Before + 3
      BY <1>5, <2>2 DEF PendingIsLast, Before
    <3> QED BY <2>2, <3>1 DEF PendingIsLast
  <2>4. /\ <<Newline>> \in Seq(Cells) /\ Len(<<Newline>>) = 1 /\ <<Newline>>[1] = Newline
        /\ \A i \in 1..Len(<<Newline>>) : <<Newline>>[i].rec = 0
    <3>1. Newline \in Cells
      BY <1>4, CellsOfText
    <3> QED BY <3>1, NewlineParts
  <2> DEFINE nl == <<Newline>>
  <2>5. /\ disk' \in Seq(Cells) /\ Len(disk') = Len(disk) + 1 /\ disk'[Len(disk) + 1] = Newline
    BY <1>5, <2>1, NewlineAppended
  <2>6. /\ LineAt(disk', b + 1, attempt) /\ attempt \in RecordsIn(disk')
        /\ \A p : JoinedAt(disk', p, attempt) => b > 0 /\ disk[b] # Newline
    BY <1>4, <1>5, <2>1, <2>3, NewlineEnds
  <2>7. Rising(disk', trimmed)
    <3>1. nl \in Seq(Cells) /\ \A i \in 1..Len(nl) : nl[i].rec \in {0, attempt + 1}
      BY <2>4
    <3> HIDE DEF nl
    <3> DEFINE n == attempt + 1
    <3>2. /\ n \in Nat /\ trimmed \in Nat /\ n > trimmed /\ Rising(disk, trimmed)
          /\ \A i \in 1..Len(disk) : disk[i].rec <= n
      <4>1. \A i \in 1..Len(disk) : disk[i].rec <= attempt /\ disk[i].rec \in Nat
        BY DiskRecords
      <4>2. \A i \in 1..Len(disk) : disk[i].rec <= n
        BY <1>4, <4>1
      <4>3. trimmed \in 0..attempt /\ Rising(disk, trimmed)
        BY DEF TypeOK, LossInv
      <4> QED BY <1>4, <4>2, <4>3
    <3>3. \A i \in 1..Len(nl) : nl[i].rec \in {0, n}
      BY <3>1
    <3> HIDE DEF n
    <3>4. disk' = disk \o nl
      BY <2>1 DEF nl
    <3> QED BY <1>5, <3>1, <3>2, <3>3, <3>4, AppendRises
  <2>8. /\ WholeIn(disk', ok) /\ JoinedIn(disk', ok) \subseteq JoinedIn(disk, ok)
        /\ OrphansOf(disk', ok, trimmed) \subseteq OrphansOf(disk, ok, trimmed)
    <3>1. ASSUME NEW r \in ok PROVE Apart(disk, nl, r)
      <4>1. r # 0 /\ r # attempt
        BY <1>2, <1>4, OwedTyped
      <4>2. disk[Len(disk)].rec = attempt
        BY <2>3, CellParts
      <4>3. \A i \in 1..Len(nl) : nl[i].rec # r
        BY <2>4, <4>1
      <4> QED BY <4>1, <4>2, <4>3 DEF Apart
    <3>2. nl \in Seq(Cells) /\ disk' = disk \o nl
      BY <2>1, <2>4
    <3> HIDE DEF nl
    <3>3. WholeIn(disk, ok) /\ ok \subseteq Nat \ {0}
      BY <1>2, OwedTyped DEF LossInv
    <3> QED BY <1>5, <3>1, <3>2, <3>3, AppendKeeps
  <2>9. WholeIn(disk', ok \cup {attempt})
    <3>1. b + 1 \in 1..Len(disk')
      BY <1>5, <2>3, <2>5
    <3> QED BY <2>6, <2>8, <3>1 DEF WholeIn
  <2>10. Joined' \subseteq Joined \cup (IF Dangling THEN {attempt} ELSE {})
    <3>1. Dangling <=> b > 0 /\ disk[b] # Newline
      BY <2>3 DEF Dangling
    <3>2. JoinedIn(disk', ok \cup {attempt}) \subseteq JoinedIn(disk, ok) \cup (IF Dangling THEN {attempt} ELSE {})
      <4> SUFFICES ASSUME NEW r \in JoinedIn(disk', ok \cup {attempt}), r # attempt \/ ~Dangling
                   PROVE  r \in JoinedIn(disk, ok)
        BY DEF JoinedIn
      <4>1. r \in ok \cup {attempt}
        BY DEF JoinedIn
      <4>2. PICK p \in 1..Len(disk') : JoinedAt(disk', p, r)
        BY DEF JoinedIn
      <4>3. r # attempt
        BY <2>6, <3>1, <4>2
      <4>4. r \in JoinedIn(disk', ok)
        BY <4>1, <4>2, <4>3 DEF JoinedIn
      <4> QED BY <2>8, <4>4
    <3> QED BY <1>2, <3>2 DEF Joined
  <2>11. Orphans' \subseteq Orphans
    <3>1. OrphansOf(disk', ok \cup {attempt}, trimmed) \subseteq OrphansOf(disk', ok, trimmed)
      BY <2>6 DEF OrphansOf
    <3> QED BY <1>1, <1>2, <2>8, <3>1 DEF Orphans
  <2>12. ~Dangling'
    <3>1. Before' = Len(disk')
      BY <1>1 DEF Before, TextPending
    <3> QED BY <2>5, <3>1 DEF Dangling
  <2>13. TearsCounted'
    <3>1. CASE Dangling
      <4>1. Cardinality(Joined) \in Nat /\ Cardinality(Joined)' \in Nat
            /\ Cardinality(Joined)' <= Cardinality(Joined) + 1
        BY <1>4, <1>7, <2>10, <3>1, OneMoreOf
      <4>2. Cardinality(Joined) + 1 <= tears
        BY <3>1 DEF LossInv, TearsCounted
      <4> QED BY <1>1, <1>6, <2>12, <4>1, <4>2 DEF TearsCounted
    <3>2. CASE ~Dangling
      <4>1. Joined' \subseteq Joined
        BY <2>10, <3>2
      <4> QED BY <1>1, <2>12, <4>1, TearsStayCounted DEF LossInv
    <3> QED BY <3>1, <3>2
  <2>14. OrphansCounted'
    <3>1. Exposed = 0 /\ Exposed' = 0
      BY <1>1, <1>a DEF Exposed
    <3> QED BY <1>1, <1>6, <2>11, <3>1, OrphansStayCounted DEF LossInv
  <2>15. RewrittenEnds'
    <3>1. Len(disk') > 0 /\ disk'[Len(disk')] = Newline
      BY <1>5, <2>5
    <3> QED BY <1>1, <1>a, <3>1 DEF RewrittenEnds
  <2>16. Reopened'
    BY <1>1, <1>a, <2>11 DEF LossInv, Reopened
  <2> QED BY <1>1, <1>2, <1>3, <2>7, <2>9, <2>13, <2>14, <2>15, <2>16 DEF LossInv
<1>b. CASE handle # "path"
  <2>1. disk' = disk /\ handle = "unlinked"
    BY <1>1, <1>b DEF WriteNewline, Write, TypeOK
  <2>2. attempt \notin RecordsIn(disk)
    BY <1>1, <1>b DEF LossInv, PendingIsLast
  <2>3. Rising(disk', trimmed)
    BY <2>1 DEF LossInv
  <2>4. WholeIn(disk', ok \cup {attempt})
    BY <1>2, <2>1, <2>2 DEF LossInv, WholeIn
  <2>5. Joined' \subseteq Joined
    <3>1. ASSUME NEW r \in JoinedIn(disk, ok \cup {attempt}) PROVE r \in JoinedIn(disk, ok)
      <4>1. r \in ok \cup {attempt}
        BY DEF JoinedIn
      <4>2. PICK p \in 1..Len(disk) : JoinedAt(disk, p, r)
        BY DEF JoinedIn
      <4>3. LineAt(disk, p, r)
        BY <4>2 DEF JoinedAt
      <4>4. r # attempt
        BY <1>4, <1>5, <2>2, <4>3, LineIsRecord
      <4> QED BY <4>1, <4>2, <4>4 DEF JoinedIn
    <3> QED BY <1>2, <2>1, <3>1 DEF Joined
  <2>6. Orphans' \subseteq Orphans \cup {attempt}
    <3>1. OrphansOf(disk, ok \cup {attempt}, trimmed) \subseteq OrphansOf(disk, ok, trimmed) \cup {attempt}
      BY DEF OrphansOf
    <3> QED BY <1>1, <1>2, <2>1, <3>1 DEF Orphans
  <2>7. Dangling' => Dangling
    BY <1>1, <2>1 DEF Dangling, Before, TextPending
  <2>8. TearsCounted'
    BY <1>1, <2>5, <2>7, TearsStayCounted DEF LossInv
  <2>9. Exposed' + 1 <= Exposed /\ Exposed' \in Int
    <3>1. Retains /\ since < VacuumEvery /\ since \in Nat
      BY <2>1 DEF LossInv, RewrittenEnds, TypeOK
    <3>2. Exposed = VacuumEvery - since
      BY <1>1, <2>1 DEF Exposed
    <3>3. CASE Due
      <4>1. step' = "vacuum"
        BY <3>3 DEF WriteNewline
      <4>2. Exposed' = 0
        BY <4>1 DEF Exposed
      <4> QED BY <1>6, <3>1, <3>2, <4>2
    <3>4. CASE ~Due
      <4>1. step' = "idle" /\ since' = since + 1 /\ handle' = "unlinked"
        BY <1>1, <2>1, <3>4 DEF WriteNewline
      <4>2. Exposed' = VacuumEvery - (since + 1)
        BY <4>1 DEF Exposed
      <4> QED BY <1>6, <3>1, <3>2, <4>2
    <3> QED BY <3>3, <3>4
  <2>10. OrphansCounted'
    <3>1. Cardinality(Orphans) \in Nat /\ Cardinality(Orphans)' \in Nat
          /\ Cardinality(Orphans)' <= Cardinality(Orphans) + 1
      BY <1>4, <1>7, <2>6, OneMoreOf
    <3>2. Cardinality(Orphans) + Exposed <= VacuumEvery * (faults - tears)
      BY DEF LossInv, OrphansCounted
    <3>3. Cardinality(Orphans)' + Exposed' <= VacuumEvery * (faults - tears)
      <4> DEFINE n == VacuumEvery * (faults - tears)
      <4> HIDE DEF n
      <4>1. n \in Int /\ Cardinality(Orphans) + Exposed <= n
        BY <1>8, <3>2 DEF n
      <4>2. Cardinality(Orphans)' + Exposed' <= n
        <5> DEFINE x == Cardinality(Orphans)
                   y == Cardinality(Orphans)'
                   v == Exposed
                   w == Exposed'
        <5>1. /\ x \in Int /\ y \in Int /\ v \in Int /\ w \in Int
              /\ y <= x + 1 /\ w + 1 <= v /\ x + v <= n
          <6>1. x \in Int /\ v \in Int
            BY <1>6, <3>1
          <6>2. y \in Int
            BY <3>1
          <6>3. w \in Int /\ w + 1 <= v
            BY <2>9
          <6>4. y <= x + 1
            BY <3>1
          <6>5. x + v <= n
            BY <4>1
          <6> QED BY <6>1, <6>2, <6>3, <6>4, <6>5
        <5> HIDE DEF x, y, v, w
        <5>2. y + w <= n
          BY <4>1, <5>1
        <5> QED BY <5>2 DEF y, w
      <4> QED BY <4>2 DEF n
    <3> QED BY <1>1, <3>3 DEF OrphansCounted
  <2>11. RewrittenEnds'
    BY <1>1, <2>1 DEF LossInv, RewrittenEnds, Retains
  <2>12. Reopened'
    BY <1>1, <2>1 DEF LossInv, Reopened
  <2> QED BY <1>1, <1>2, <1>3, <2>3, <2>4, <2>8, <2>10, <2>11, <2>12 DEF LossInv
<1> QED BY <1>a, <1>b

LEMMA RenameKeepsLoss == TypeOK /\ TypeOK' /\ LossInv /\ Rename => LossInv'
<1> SUFFICES ASSUME TypeOK, TypeOK', LossInv, Rename PROVE LossInv'
  OBVIOUS
<1>1. /\ step = "rename" /\ step' = "reopen" /\ handle' = "unlinked" /\ disk' = Trim(disk)
      /\ UNCHANGED <<since, attempt, ok, tears, faults, orphaned>>
  BY DEF Rename
<1>2. Owed' = Owed /\ Exposed = 0 /\ Exposed' = 0
  BY <1>1 DEF Owed, Exposed
<1>3. /\ disk \in Seq(Cells) /\ RecordsIn(disk) \subseteq 1..attempt /\ attempt \in Nat
      /\ disk[Len(disk)] = Newline
  BY <1>1, DiskRecords DEF LossInv, RewrittenEnds
<1>4. MaxBytes \in Nat /\ Len(disk) > MaxBytes /\ Retains
  BY <1>1, ConstantsTyped DEF TypeOK, Retains
<1>5. disk' \in Seq(Cells) /\ \E c \in 1..Len(disk) : CutAt(disk, disk', c)
  BY <1>1, <1>3, <1>4, TrimCuts
<1>6. PICK c \in 1..Len(disk) : CutAt(disk, disk', c)
  BY <1>5
<1> DEFINE gone == RecordsIn(disk) \ RecordsIn(disk')
<1>7. trimmed' = IF gone = {} THEN trimmed ELSE Max(gone)
  BY DEF Rename
<1>8. trimmed \in Nat /\ Owed \subseteq Nat \ {0} /\ Rising(disk, trimmed) /\ WholeIn(disk, Owed)
  BY <1>3, OwedTyped DEF TypeOK, LossInv
<1>9. /\ Rising(disk', trimmed') /\ WholeIn(disk', Owed) /\ JoinedIn(disk', Owed) \subseteq JoinedIn(disk, Owed)
      /\ OrphansOf(disk', Owed, trimmed') \subseteq OrphansOf(disk, Owed, trimmed)
      /\ Len(disk') > 0 /\ disk'[Len(disk')] = Newline
  <2>1. gone = RecordsIn(disk) \ RecordsIn(disk')
    OBVIOUS
  <2> HIDE DEF gone
  <2> QED BY <1>3, <1>5, <1>6, <1>7, <1>8, <2>1, CutKeeps
<1>10. StepCounts
  <2>1. PendingIsLast' /\ ~TextPending'
    BY <1>1 DEF PendingIsLast, TextPending
  <2>2. RewrittenEnds'
    BY <1>4, <1>9 DEF RewrittenEnds, Retains
  <2>3. ~Dangling'
    BY <1>9, <2>1 DEF Dangling, Before
  <2>4. tears \in Nat /\ faults \in Nat
    BY CountsTyped
  <2> QED BY <1>1, <1>2, <2>1, <2>2, <2>3, <2>4 DEF StepCounts
<1>11. Joined' \subseteq Joined /\ Orphans' \subseteq Orphans
  BY <1>2, <1>9 DEF Joined, Orphans
<1> QED BY <1>2, <1>9, <1>10, <1>11, KeepingStep

LEMMA NextLossInv == TypeOK /\ LossInv /\ [Next]_vars => LossInv'
<1> SUFFICES ASSUME TypeOK, TypeOK', LossInv, [Next]_vars PROVE LossInv'
  BY NextTypeOK
<1> QED BY OpenKeepsLoss, OpenTornKeepsLoss, WriteTextKeepsLoss, WriteTextTornKeepsLoss,
           WriteNewlineKeepsLoss, RenameKeepsLoss, QuietStepsKeepLoss DEF Next

LEMMA LossInvBounds == TypeOK /\ LossInv => LossBounded
<1> SUFFICES ASSUME TypeOK, LossInv PROVE LossBounded
  OBVIOUS
<1> DEFINE Lost == {r \in ok : r > trimmed /\ ~InFile(r)}
<1>1. /\ Joined \subseteq 1..attempt /\ Orphans \subseteq 1..attempt /\ attempt \in Nat
      /\ Cardinality(Joined) \in Nat /\ Cardinality(Orphans) \in Nat
  BY SetsTyped
<1>2. Lost \subseteq Joined \cup Orphans
  <2> SUFFICES ASSUME NEW r \in ok, r > trimmed, ~InFile(r), r \notin Orphans PROVE r \in Joined
    OBVIOUS
  <2>1. r \in Owed /\ r \in Nat /\ disk \in Seq(Cells)
    BY OwedTyped, DiskRecords DEF Owed
  <2>2. r \in RecordsIn(disk)
    BY <2>1 DEF Orphans, OrphansOf
  <2>3. PICK p \in 1..Len(disk) : LineAt(disk, p, r)
    BY <2>1, <2>2 DEF LossInv, WholeIn
  <2>4. JoinedAt(disk, p, r)
    BY <2>1, <2>3, LineIsRead DEF InFile
  <2> QED BY <2>1, <2>4 DEF Joined, JoinedIn
<1> HIDE DEF Lost
<1>3. Cardinality(Lost) \in Nat /\ Cardinality(Lost) <= Cardinality(Joined) + Cardinality(Orphans)
  <2>1. IsFiniteSet(Joined) /\ IsFiniteSet(Orphans)
    BY <1>1, FewerOf
  <2>2. /\ IsFiniteSet(Joined \cup Orphans)
        /\ Cardinality(Joined \cup Orphans) =
             Cardinality(Joined) + Cardinality(Orphans) - Cardinality(Joined \cap Orphans)
    BY <2>1, FS_Union, Zenon
  <2>3. Cardinality(Joined \cap Orphans) \in Nat
    BY <1>1, FewerOf
  <2>4. IsFiniteSet(Lost) /\ Cardinality(Lost) <= Cardinality(Joined \cup Orphans)
    BY <1>2, <2>2, FS_Subset
  <2>5. Cardinality(Lost) \in Nat
    BY <2>4, FS_CardinalityType
  <2> QED BY <1>1, <2>2, <2>3, <2>4, <2>5
<1>4. Cardinality(Joined) <= tears /\ tears \in Nat
  BY <1>1, CountsTyped DEF LossInv, TearsCounted
<1>5. CASE orphaned = 0
  <2>1. Cardinality(Orphans) = 0
    BY <1>5, FS_EmptySet DEF LossInv, Reopened
  <2>2. Cardinality(Lost) <= tears + 0
    BY <1>1, <1>3, <1>4, <2>1
  <2> QED BY <1>5, <2>2 DEF LossBounded, Lost
<1>6. CASE orphaned # 0
  <2> DEFINE n == VacuumEvery * (faults - tears)
  <2>1. n \in Int
    <3> DEFINE k == faults - tears
    <3>1. k \in Int
      BY CountsTyped
    <3> HIDE DEF k
    <3>2. VacuumEvery * k \in Int
      BY <3>1, OneMoreInterval
    <3> QED BY <3>2 DEF k
  <2>2. Cardinality(Orphans) + Exposed <= n /\ Exposed \in Nat
    BY ExposedTyped DEF LossInv, OrphansCounted
  <2> HIDE DEF n
  <2>3. Cardinality(Lost) <= tears + n
    BY <1>1, <1>3, <1>4, <2>1, <2>2
  <2> QED BY <1>6, <2>3 DEF LossBounded, Lost, n
<1> QED BY <1>5, <1>6

(* A line cut short costs at most one acknowledged record, and a failed       *)
(* reopen those up to the next vacuum that succeeds, whatever the policy, the *)
(* number of records and the faults.                                         *)
THEOREM LossStaysBounded == Spec => []LossBounded
<1>1. Spec => [](TypeOK /\ LossInv)
  BY InitTypeOK, NextTypeOK, InitLossInv, NextLossInv, PTL DEF Spec
<1> QED BY <1>1, LossInvBounds, PTL
=============================================================================
