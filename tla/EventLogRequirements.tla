------------------------ MODULE EventLogRequirements ------------------------
(***************************************************************************)
(* What the event log must be for those who reconstruct decisions from it: *)
(* what a read may rely on, and what may be missing from it.               *)
(***************************************************************************)
EXTENDS EventLog, FiniteSets

(* Position i ends an entry of the log: a line that parses, and will not  *)
(* become longer.                                                          *)
EndsEntry(i) ==
  \E at \in {i - 1, i - 2} \cap Nat :
    (at = 0 \/ EndsLine(file[at])) /\ Parses(at, i)

(* The positions that end an entry, and the one that k of them lead up to. *)
Ends == {i \in DOMAIN file : EndsEntry(i)}
Rank(positions, i) == Cardinality({j \in positions : j <= i})
Nth(positions, k) == CHOOSE i \in positions : Rank(positions, i) = k

(* What is in the log: the records of the lines that parse, in the order   *)
(* of the file.                                                            *)
Entries == [k \in 1 .. Cardinality(Ends) |-> file[Nth(Ends, k)].record]

(* The file is an append-only log of records: whoever dies or tears a line *)
(* while others append, what could be read once can be read for ever, in   *)
(* the same place, and no record is there twice.                           *)
Log == INSTANCE AuditLog WITH entries <- Entries
LogKept == Log!Spec

(* The position that ends a record. *)
EndOf(record) == CHOOSE i \in DOMAIN file : file[i].record = record /\ EndsLine(file[i])

(* What a read has found was recorded for the thread asked for, is whole,  *)
(* and comes once and in the order of the file, although lines are torn    *)
(* while it reads.                                                         *)
ReadsAreFaithful ==
  \A r \in Readers :
    LET events == reading[r].events IN
    \A k \in DOMAIN events :
      /\ events[k].thread = reading[r].thread
      /\ \E i \in DOMAIN file : file[i].record = events[k] /\ EndsLine(file[i])
      /\ \A l \in 1 .. k - 1 : EndOf(events[l]) < EndOf(events[k])

(* A read that has ended has found everything of its thread that was in    *)
(* the log when it began: a torn line costs it nothing else.               *)
ReadsAreComplete ==
  \A r \in Readers :
    reading[r].pc = "done" =>
      \A i \in DOMAIN file :
        EndsEntry(i) /\ i <= reading[r].since /\ file[i].record.thread = reading[r].thread =>
          \E k \in DOMAIN reading[r].events : reading[r].events[k] = file[i].record

(* i and j are in one line. *)
SameLine(i, j) ==
  LET lo == IF i < j THEN i ELSE j
      hi == IF i < j THEN j ELSE i
  IN  \A k \in lo .. hi - 1 : ~EndsLine(file[k])

(* e reached the file in two parts, or only its first one did. *)
Split(e) == \E i \in DOMAIN file : file[i] = [record |-> e, part |-> "first"]

(* An event that emit has returned, and that no read will ever find, was   *)
(* lost to a neighbour in its line: one of the two was split by a short    *)
(* write, and the other was appended by another process, or was left       *)
(* unfinished.  Threads of one process tear nothing, and without a short   *)
(* write nothing is lost.                                                  *)
LossIsExplained ==
  \A e \in returned :
    \/ \E i \in DOMAIN file : EndsEntry(i) /\ file[i].record = e
    \/ \E i, j \in DOMAIN file :
         LET f == file[j].record IN
         /\ file[i].record = e /\ f # e /\ SameLine(i, j)
         /\ Split(e) \/ Split(f)
         /\ ProcessOf[f.by] # ProcessOf[e.by] \/ f \notin returned
=============================================================================
