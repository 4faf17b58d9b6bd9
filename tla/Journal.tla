------------------------------ MODULE Journal -------------------------------
(***************************************************************************)
(* journal.rs: the append-only file of frames, written by the decode drain *)
(* and read back by read_all, with process crashes and I/O errors.         *)
(*                                                                         *)
(* The file is a sequence of cells; the size of the file is its number of  *)
(* cells.  A record's line is three cells of text, the fields where a write *)
(* may be cut short, and a newline.  A cell remembers its record, and its   *)
(* part tells how many hex digits it has: "ts" (13) and "meta" (tabs, flag  *)
(* and kind: 3) an odd number, "hex" an even one.                          *)
(*                                                                         *)
(* The file is not synced, so what a crash of the machine loses is not      *)
(* modelled; a crash of the process loses nothing it has written.          *)
(***************************************************************************)
EXTENDS Integers, Sequences, FiniteSets, SequencesExt

CONSTANTS
  MaxBytes,       \* RetentionPolicy.max_bytes, or NoTrim
  NoTrim,
  AgeLimit,       \* RetentionPolicy.max_age_secs is set (its vacuum is a stub)
  VacuumEvery,    \* FileFrameJournal.vacuum_every
  MaxAppends,     \* bound: records appended
  MaxFaults       \* bound: crashes and I/O errors

ASSUME JournalAssumption ==
  /\ NoTrim \notin Nat /\ MaxBytes \in Nat \cup {NoTrim}
  /\ AgeLimit \in BOOLEAN /\ VacuumEvery \in Nat \ {0}
  /\ MaxAppends \in Nat /\ MaxFaults \in Nat

VARIABLES
  disk,       \* the file at the journal's path
  handle,     \* what the append handle writes to: "path", "unlinked" or "none"
  step,       \* where open or append_record is
  since,      \* appends_since_vacuum
  attempt,    \* number of the latest record
  ok,         \* history: records whose append returned Ok
  trimmed,    \* history: the latest record a vacuum has dropped
  tears,      \* history: lines left without their newline
  orphaned,   \* history: reopens that failed
  faults      \* history: crashes and I/O errors

vars == <<disk, handle, step, since, attempt, ok, trimmed, tears, orphaned, faults>>

Cell(r, p) == [rec |-> r, part |-> p]
Newline    == Cell(0, "nl")
Header     == <<Cell(0, "comment"), Newline>>
Text(r)    == <<Cell(r, "ts"), Cell(r, "meta"), Cell(r, "hex")>>
LineCells  == 4

RecordsIn(d) == {d[i].rec : i \in DOMAIN d} \ {0}
-----------------------------------------------------------------------------
(* Reading back: BufRead::lines, then parse_line on each. *)

Junk == 0   \* a record that nobody appended

(* Four tab-separated fields, or hex alone, are a record.  Of anything else  *)
(* the hex digits are taken together: an even number of them is a record too. *)
ParseLine(l) ==
  LET metas == {i \in DOMAIN l : l[i].part = "meta"}
      times == {i \in DOMAIN l : l[i].part = "ts"}
      shape == Len(l) = 1 \/ (Len(l) > 2 /\ metas = {Len(l) - 1})
      odd   == Cardinality(metas \cup times) % 2 = 1
  IN  IF l = <<>> \/ Head(l).part = "comment" THEN <<>>
      ELSE IF Last(l).part = "hex" /\ shape THEN <<Last(l).rec>>
      ELSE IF odd THEN <<>> ELSE <<Junk>>

Take(acc, cell) ==
  IF cell = Newline THEN [read |-> acc.read \o ParseLine(acc.line), line |-> <<>>]
                    ELSE [acc EXCEPT !.line = Append(@, cell)]

(* The records read, and the line begun, after the first n cells. *)
Reading(d) ==
  LET at[n \in 0..Len(d)] ==
        IF n = 0 THEN [read |-> <<>>, line |-> <<>>] ELSE Take(at[n - 1], d[n])
  IN  at[Len(d)]

(* The last line is read too if it has no newline. *)
ReadAll(d) == Reading(d).read \o ParseLine(Reading(d).line)

(* Mutant: the oldest lines are kept. *)
TrimKeepsHead(d) == SubSeq(d, 1, SelectLastInSeq(SubSeq(d, 1, MaxBytes),
                                                 LAMBDA cell : cell = Newline))

FirstNewline(cells) == SelectInSeq(cells, LAMBDA cell : cell = Newline)

(* trim_file_to_max_bytes: what follows the first newline of the last        *)
(* MaxBytes, under a new header.                                             *)
Trim(d) ==
  LET tail == SubSeq(d, Len(d) - MaxBytes + 1, Len(d))
      nl   == FirstNewline(tail)
  IN  Header \o SubSeq(tail, nl + 1, MaxBytes)
-----------------------------------------------------------------------------
Init ==
  /\ disk = <<>> /\ handle = "none" /\ step = "down" /\ since = 0
  /\ attempt = 0 /\ ok = {} /\ trimmed = 0 /\ tears = 0 /\ orphaned = 0
  /\ faults = 0

Write(cells) == IF handle = "path" THEN disk' = disk \o cells ELSE UNCHANGED disk

Fails == /\ faults < MaxFaults /\ faults' = faults + 1

(* FileFrameJournal::open, at the start of the service. *)
Open ==
  /\ step = "down"
  /\ handle' = "path" /\ since' = 0 /\ step' = "idle"
  /\ disk' = IF disk = <<>> THEN Header ELSE disk
  /\ UNCHANGED <<attempt, ok, trimmed, tears, faults, orphaned>>

(* The header is cut short: no journal until the service is started again.   *)
OpenTorn ==
  /\ step = "down" /\ disk = <<>>
  /\ Fails
  /\ disk' = <<Head(Header)>>
  /\ tears' = tears + 1
  /\ UNCHANGED <<handle, step, since, attempt, ok, trimmed, orphaned>>

(* append_record: writeln! makes two writes, the text and the newline.       *)
WriteText ==
  /\ step = "idle" /\ attempt < MaxAppends
  /\ attempt' = attempt + 1
  /\ Write(Text(attempt + 1))
  /\ step' = "newline"
  /\ UNCHANGED <<handle, since, ok, trimmed, tears, faults, orphaned>>

(* The text is cut short and append returns the error.  A write that fails    *)
(* before its first byte leaves the file as if there had been no record.     *)
WriteTextTorn ==
  /\ step = "idle" /\ attempt < MaxAppends
  /\ Fails
  /\ attempt' = attempt + 1
  /\ \E n \in 1..2 : Write(SubSeq(Text(attempt + 1), 1, n))
  /\ tears' = tears + 1
  /\ UNCHANGED <<handle, step, since, ok, trimmed, orphaned>>

Acknowledge == ok' = ok \cup {attempt}

Retains == MaxBytes # NoTrim \/ AgeLimit

(* Mutant: the counter is looked at before it is incremented. *)
DueLate == since >= VacuumEvery /\ Retains

Due == since + 1 >= VacuumEvery /\ Retains

(* Mutant: the counter is not reset. *)
WriteNewlineKeepsCount ==
  /\ step = "newline"
  /\ Write(<<Newline>>)
  /\ since' = since + 1
  /\ IF Due THEN step' = "vacuum" /\ UNCHANGED ok
            ELSE step' = "idle" /\ Acknowledge
  /\ UNCHANGED <<handle, attempt, trimmed, tears, faults, orphaned>>

WriteNewline ==
  /\ step = "newline"
  /\ Write(<<Newline>>)
  /\ IF Due THEN step' = "vacuum" /\ since' = 0 /\ UNCHANGED ok
            ELSE step' = "idle" /\ since' = since + 1 /\ Acknowledge
  /\ UNCHANGED <<handle, attempt, trimmed, tears, faults, orphaned>>

WriteNewlineFails ==
  /\ step = "newline"
  /\ Fails
  /\ tears' = tears + 1 /\ step' = "idle"
  /\ UNCHANGED <<disk, handle, since, attempt, ok, trimmed, orphaned>>

(* Mutant: the file is rewritten in place, and so emptied before it is read.  *)
VacuumInPlace ==
  /\ step = "vacuum"
  /\ disk' = IF Len(disk) > MaxBytes THEN Header ELSE disk
  /\ step' = "reopen"
  /\ UNCHANGED <<handle, since, attempt, ok, trimmed, tears, faults, orphaned>>

(* RetentionPolicy::vacuum: nothing to do, or write the temporary file.      *)
Vacuum ==
  /\ step = "vacuum"
  /\ step' = IF MaxBytes # NoTrim /\ Len(disk) > MaxBytes THEN "rename" ELSE "reopen"
  /\ UNCHANGED <<disk, handle, since, attempt, ok, trimmed, tears, faults, orphaned>>

(* Mutant: the rewrite makes the old handle useless and is not followed by    *)
(* a reopen.                                                                  *)
RenameForgetsReopen ==
  /\ step = "rename"
  /\ disk' = Trim(disk)
  /\ LET gone == RecordsIn(disk) \ RecordsIn(Trim(disk))
     IN  trimmed' = IF gone = {} THEN trimmed ELSE Max(gone)
  /\ handle' = "unlinked"
  /\ step' = "idle" /\ Acknowledge
  /\ UNCHANGED <<since, attempt, tears, faults, orphaned>>

(* rename(tmp, path): the append handle still has the old file.              *)
Rename ==
  /\ step = "rename"
  /\ disk' = Trim(disk)
  /\ LET gone == RecordsIn(disk) \ RecordsIn(Trim(disk))
     IN  trimmed' = IF gone = {} THEN trimmed ELSE Max(gone)
  /\ handle' = "unlinked"
  /\ step' = "reopen"
  /\ UNCHANGED <<since, attempt, ok, tears, faults, orphaned>>

(* Reading the file, writing the temporary one or the rename fails: append   *)
(* returns the error though the record is in the file.                       *)
VacuumFails ==
  /\ step \in {"vacuum", "rename"}
  /\ Fails
  /\ step' = "idle"
  /\ UNCHANGED <<disk, handle, since, attempt, ok, trimmed, tears, orphaned>>

Reopen ==
  /\ step = "reopen"
  /\ handle' = "path" /\ step' = "idle" /\ Acknowledge
  /\ UNCHANGED <<disk, since, attempt, trimmed, tears, faults, orphaned>>

(* The handle is not replaced: after a rewrite it is that of a file without  *)
(* a name.                                                                   *)
ReopenFails ==
  /\ step = "reopen"
  /\ Fails
  /\ orphaned' = orphaned + 1 /\ step' = "idle"
  /\ UNCHANGED <<disk, handle, since, attempt, ok, trimmed, tears>>

(* The process ends, wherever it is. *)
Crash ==
  /\ step # "down"
  /\ Fails
  /\ step' = "down" /\ handle' = "none"
  /\ tears' = IF step = "newline" THEN tears + 1 ELSE tears
  /\ UNCHANGED <<disk, since, attempt, ok, trimmed, orphaned>>

Next ==
  \/ Open \/ OpenTorn \/ WriteText \/ WriteTextTorn \/ WriteNewline \/ WriteNewlineFails
  \/ Vacuum \/ Rename \/ VacuumFails \/ Reopen \/ ReopenFails \/ Crash

Spec == Init /\ [][Next]_vars
-----------------------------------------------------------------------------
Parts == {"ts", "meta", "hex", "nl", "comment"}

TypeOK ==
  /\ attempt \in 0..MaxAppends
  /\ disk \in Seq([rec : 0..attempt, part : Parts])
  /\ handle \in {"path", "unlinked", "none"}
  /\ step \in {"down", "idle", "newline", "vacuum", "rename", "reopen"}
  /\ step = "down" <=> handle = "none"
  /\ step \in {"newline", "vacuum", "rename", "reopen"} => attempt > 0
  /\ step = "vacuum" => Retains
  /\ step = "rename" => MaxBytes # NoTrim /\ Len(disk) > MaxBytes
  /\ since \in Nat /\ (Retains => since < VacuumEvery)
  /\ step \in {"vacuum", "rename", "reopen"} => since = 0
  /\ ok \subseteq 1..attempt /\ trimmed \in 0..attempt
  /\ tears \in Nat /\ orphaned \in Nat
  /\ tears + orphaned <= faults /\ faults \in 0..MaxFaults

InFile(r) == \E i \in DOMAIN ReadAll(disk) : ReadAll(disk)[i] = r

(* The file that holds the records rs and nothing else. *)
FileOf(rs) ==
  [i \in 1..(Len(Header) + LineCells * Len(rs)) |->
     IF i <= Len(Header) THEN Header[i]
     ELSE LET j == i - Len(Header) - 1
          IN  Append(Text(rs[(j \div LineCells) + 1]), Newline)[(j % LineCells) + 1]]

(* As long as no line was cut short, the file is a header and whole lines, or *)
(* is about to be, and, if no reopen failed either, read_all gives every      *)
(* record that was not trimmed, in the order they were appended, at every     *)
(* moment of an append or a vacuum and whatever crashes or fails there.       *)
WholeLines ==
  IF step = "newline" /\ handle = "path"
  THEN Append(disk, Newline) = FileOf(ReadAll(disk))
  ELSE \/ disk = FileOf(ReadAll(disk))
       \/ step = "down" /\ disk = <<>> /\ attempt = 0

CleanReadBack ==
  tears = 0 =>
    /\ WholeLines
    /\ orphaned = 0 =>
         /\ handle # "unlinked" \/ step = "reopen"
         /\ ReadAll(disk) = [i \in 1..(attempt - trimmed) |-> trimmed + i]

(* A line cut short costs at most one record whose append was acknowledged,   *)
(* the one it runs into, and a failed reopen those up to the next vacuum that *)
(* succeeds.                                                                 *)
(* Everything else is in the file or was trimmed.                            *)
LossBounded ==
  Cardinality({r \in ok : r > trimmed /\ ~InFile(r)})
    <= tears + IF orphaned = 0 THEN 0 ELSE VacuumEvery * (faults - tears)

(* A vacuum drops old records only: what read_all gave before ends with what  *)
(* it gives after, and of the records no more than one that would fit goes.  *)
VacuumKeepsTail ==
  [][step = "rename" /\ tears = 0 /\ disk' # disk =>
       /\ IsSuffix(ReadAll(disk'), ReadAll(disk))
       /\ Len(ReadAll(disk')) >= (MaxBytes \div LineCells) - 1]_vars

(* RetentionPolicy: the file exceeds max_bytes by a header and by what was   *)
(* appended since the last vacuum; every fault may put off one vacuum.       *)
Overdue ==
  CASE step \in {"down", "reopen"}   -> 0
    [] step = "idle"                 -> LineCells * since
    [] step = "newline"              -> LineCells * since + Len(Text(attempt))
    [] step \in {"vacuum", "rename"} -> LineCells * VacuumEvery

FileBounded ==
  MaxBytes # NoTrim =>
    Len(disk) <= MaxBytes + Len(Header) + LineCells * VacuumEvery * faults + Overdue


(* journal.rs:3 "durable write-ahead style log of framed bus messages": an   *)
(* acknowledged record is in the file until it is trimmed.                   *)
AcknowledgedIsKept ==
  tears = 0 => \A r \in ok : r <= trimmed \/ InFile(r)
=============================================================================
