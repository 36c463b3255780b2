------------------------------ MODULE EventLog ------------------------------
(***************************************************************************)
(* The event log (agent/observability.py): a file of one JSON record a     *)
(* line, which the threads of any number of processes append to and which  *)
(* is read back while they do.  The lock that emit takes is one of its     *)
(* process.  A record is written in one append, unless the file system     *)
(* takes only a part of it (a short write): the rest is appended           *)
(* afterwards, and in between other processes may append, and its own      *)
(* process may die or find no room.                                        *)
(*                                                                         *)
(* A record is what the reader and the properties tell apart: which it is, *)
(* who emits it and its thread id.  The file is the sequence of what was   *)
(* appended to it.                                                         *)
(***************************************************************************)
EXTENDS Naturals, Sequences

CONSTANTS Writers,       \* the threads that emit
          ProcessOf,     \* ProcessOf[w]: the process of w
          Threads,       \* thread ids
          Readers,       \* calls of read
          Faults,        \* whether processes die, appends raise, writes are short
          MaxRecords     \* bound: records emitted

ASSUME EventLogAssumption == Faults \in BOOLEAN /\ MaxRecords \in Nat

Processes == {ProcessOf[w] : w \in Writers}
Nobody == "nobody"

ASSUME NobodyAssumption == Nobody \notin Writers

VARIABLES
  file,      \* what was appended, in order
  made,      \* how many records were made: each has a number
  emitting,  \* what each writer is emitting, and how far it is
  lock,      \* who holds the lock of each process
  returned,  \* the records whose emit has returned
  reading    \* where each reader is, and what it has found

vars == <<file, made, emitting, lock, returned, reading>>

Records == [number : 1 .. MaxRecords, by : Writers, thread : Threads]
NoRecord == [number |-> 0]

(* Every part ends a line, but the first one of a record that was split. *)
Segments == [record : Records, part : {"whole", "first", "rest"}]
EndsLine(segment) == segment.part # "first"

Idle == [pc |-> "idle", record |-> NoRecord]

Init ==
  /\ file = <<>>
  /\ made = 0
  /\ emitting = [w \in Writers |-> Idle]
  /\ lock = [p \in Processes |-> Nobody]
  /\ returned = {}
  /\ reading = [r \in Readers |-> [pc |-> "idle", thread |-> "", at |-> 0, since |-> 0,
                                   events |-> <<>>]]

Free(w) == [lock EXCEPT ![ProcessOf[w]] = Nobody]
Remaining(e) == IF e.pc = "rest" THEN "rest" ELSE "whole"
Add(record, part) == Append(file, [record |-> record, part |-> part])

(* What w emits: a record of its own. *)
Made(w) ==
  /\ emitting[w] = Idle
  /\ made < MaxRecords
  /\ made' = made + 1
  /\ \E t \in Threads :
       emitting' = [emitting EXCEPT
         ![w] = [pc |-> "write", record |-> [number |-> made + 1, by |-> w, thread |-> t]]]

(* Mutation: emit takes no lock. *)
MutantEmit(w) ==
  /\ Made(w)
  /\ UNCHANGED <<file, lock, returned, reading>>

(* emit has made its record and has the lock of its process: until then it *)
(* has changed nothing.                                                    *)
Emit(w) ==
  /\ lock[ProcessOf[w]] = Nobody
  /\ Made(w)
  /\ lock' = [lock EXCEPT ![ProcessOf[w]] = w]
  /\ UNCHANGED <<file, returned, reading>>

(* A short write: a part of the record is appended. *)
WriteFirst(w) ==
  /\ Faults
  /\ emitting[w].pc = "write"
  /\ file' = Add(emitting[w].record, "first")
  /\ emitting' = [emitting EXCEPT ![w].pc = "rest"]
  /\ UNCHANGED <<made, lock, returned, reading>>

(* Mutation: the file is opened with mode "w". *)
MutantWriteLast(w) ==
  LET e == emitting[w] IN
  /\ e.pc \in {"write", "rest"}
  /\ file' = <<[record |-> e.record, part |-> Remaining(e)]>>
  /\ emitting' = [emitting EXCEPT ![w] = Idle]
  /\ lock' = Free(w)
  /\ returned' = returned \cup {e.record}
  /\ UNCHANGED <<made, reading>>

(* What is left of the record, and its line end, are appended; the file is *)
(* closed, the lock is released, and emit returns.                         *)
WriteLast(w) ==
  LET e == emitting[w] IN
  /\ e.pc \in {"write", "rest"}
  /\ file' = Add(e.record, Remaining(e))
  /\ emitting' = [emitting EXCEPT ![w] = Idle]
  /\ lock' = Free(w)
  /\ returned' = returned \cup {e.record}
  /\ UNCHANGED <<made, reading>>

(* The directory, the file or an append raises: the lock is released. *)
Raise(w) ==
  /\ Faults
  /\ emitting[w].pc \in {"write", "rest"}
  /\ emitting' = [emitting EXCEPT ![w] = Idle]
  /\ lock' = Free(w)
  /\ UNCHANGED <<file, made, returned, reading>>

(* Process p dies, and is started again. *)
Crash(p) ==
  /\ Faults
  /\ \E w \in Writers : ProcessOf[w] = p /\ emitting[w] # Idle
  /\ emitting' = [w \in Writers |-> IF ProcessOf[w] = p THEN Idle ELSE emitting[w]]
  /\ lock' = [lock EXCEPT ![p] = Nobody]
  /\ UNCHANGED <<file, made, returned, reading>>

-----------------------------------------------------------------------------
(* Lines. *)

(* The line that begins after position at ends at position stop: with a    *)
(* line end, or where the file ends for now.                               *)
Line(at, stop) ==
  /\ at < stop /\ stop \in DOMAIN file
  /\ \A k \in at + 1 .. stop - 1 : ~EndsLine(file[k])
  /\ EndsLine(file[stop]) \/ stop = Len(file)

(* The line is one record, and all of it: json.loads accepts it. *)
Parses(at, stop) ==
  \/ stop = at + 1 /\ file[stop].part = "whole"
  \/ stop = at + 2 /\ file[stop].part = "rest" /\ file[at + 1].record = file[stop].record

(* read is called. *)
StartRead(r) ==
  /\ reading[r].pc = "idle"
  /\ \E t \in Threads :
       reading' = [reading EXCEPT ![r] = [@ EXCEPT !.pc = "read", !.thread = t,
                                                   !.since = Len(file)]]
  /\ UNCHANGED <<file, made, emitting, lock, returned>>

(* Mutation: a line that cannot be parsed ends the reading. *)
MutantReadLine(r) ==
  LET at == reading[r].at IN
  /\ reading[r].pc = "read"
  /\ \E stop \in DOMAIN file :
       /\ Line(at, stop)
       /\ reading' = [reading EXCEPT
            ![r].at = IF Parses(at, stop) THEN stop ELSE Len(file),
            ![r].events = IF Parses(at, stop) /\ file[stop].record.thread = reading[r].thread
                            THEN Append(@, file[stop].record) ELSE @]
  /\ UNCHANGED <<file, made, emitting, lock, returned>>

(* Mutation: events of every thread are returned. *)
MutantReadAll(r) ==
  LET at == reading[r].at IN
  /\ reading[r].pc = "read"
  /\ \E stop \in DOMAIN file :
       /\ Line(at, stop)
       /\ reading' = [reading EXCEPT
            ![r].at = stop,
            ![r].events = IF Parses(at, stop) THEN Append(@, file[stop].record) ELSE @]
  /\ UNCHANGED <<file, made, emitting, lock, returned>>

(* Mutation: a line that cannot be parsed is returned as an empty event. *)
MutantReadEmpty(r) ==
  LET at == reading[r].at IN
  /\ reading[r].pc = "read"
  /\ \E stop \in DOMAIN file :
       /\ Line(at, stop)
       /\ reading' = [reading EXCEPT
            ![r].at = stop,
            ![r].events = Append(@, IF Parses(at, stop) THEN file[stop].record ELSE NoRecord)]
  /\ UNCHANGED <<file, made, emitting, lock, returned>>

(* The next line is read, and kept if it parses and is of the thread. *)
ReadLine(r) ==
  LET at == reading[r].at IN
  /\ reading[r].pc = "read"
  /\ \E stop \in DOMAIN file :
       /\ Line(at, stop)
       /\ reading' = [reading EXCEPT
            ![r].at = stop,
            ![r].events = IF Parses(at, stop) /\ file[stop].record.thread = reading[r].thread
                            THEN Append(@, file[stop].record) ELSE @]
  /\ UNCHANGED <<file, made, emitting, lock, returned>>

(* The end of the file is met: read returns. *)
EndRead(r) ==
  /\ reading[r].pc = "read"
  /\ reading[r].at = Len(file)
  /\ reading' = [reading EXCEPT ![r].pc = "done"]
  /\ UNCHANGED <<file, made, emitting, lock, returned>>

-----------------------------------------------------------------------------
Read(r) == StartRead(r) \/ ReadLine(r) \/ EndRead(r)

Next ==
  \/ \E w \in Writers : Emit(w) \/ WriteFirst(w) \/ WriteLast(w) \/ Raise(w)
  \/ \E p \in Processes : Crash(p)
  \/ \E r \in Readers : Read(r)

Spec == Init /\ [][Next]_vars

TypeOK ==
  /\ file \in Seq(Segments)
  /\ made \in 0 .. MaxRecords
  /\ \A w \in Writers :
       \/ emitting[w] = Idle
       \/ emitting[w] \in [pc : {"write", "rest"}, record : Records]
  /\ lock \in [Processes -> Writers \cup {Nobody}]
  /\ returned \subseteq Records
  /\ reading \in [Readers -> [pc : {"idle", "read", "done"}, thread : Threads \cup {""},
                              at : Nat, since : Nat, events : Seq(Records)]]
=============================================================================
