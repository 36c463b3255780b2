--------------------------- MODULE EventLog_proofs ---------------------------
(***************************************************************************)
(* The event log, for any writers, processes, threads, readers and number  *)
(* of records: locks are released, reads are faithful and complete, and a  *)
(* lost event is explained.                                                *)
(*                                                                         *)
(* What makes these inductive: a record has one end in the file, after its *)
(* first part if it was split (FileSound); nobody of the same process      *)
(* appends while a record is being written (WriterSound); and a reader     *)
(* stands where a line begins, unless it has passed everything that was    *)
(* there when it began (ReaderSound).                                      *)
(***************************************************************************)
EXTENDS EventLogRequirements, FiniteSetTheorems, TLAPS

(* Position i of the file ends the record e. *)
EndsAt(e, i) == file[i].record = e /\ EndsLine(file[i])

FileSound ==
  /\ \A i \in DOMAIN file : file[i].record.number <= made
  /\ \A i, j \in DOMAIN file :
       /\ file[i].record = file[j].record
       /\ EndsLine(file[i]) = EndsLine(file[j]) \/ file[i].part = "whole"
       => i = j
  /\ \A i \in DOMAIN file :
       file[i].part = "rest" =>
         \E j \in DOMAIN file :
           j < i /\ file[j].record = file[i].record /\ file[j].part = "first"
  /\ \A i, k, j \in DOMAIN file :
       /\ file[i].record = file[j].record /\ i < k /\ k < j
       => ProcessOf[file[k].record.by] # ProcessOf[file[i].record.by]
  /\ \A e \in returned : \E i \in DOMAIN file : EndsAt(e, i)

WriterSound(w) ==
  emitting[w] # Idle =>
    /\ emitting[w].record.by = w
    /\ emitting[w].record.number <= made
    /\ lock[ProcessOf[w]] = w
    /\ \A i \in DOMAIN file :
         file[i].record = emitting[w].record =>
           /\ emitting[w].pc = "rest" /\ file[i].part = "first"
           /\ \A k \in DOMAIN file :
                i < k => ProcessOf[file[k].record.by] # ProcessOf[w]
    /\ emitting[w].pc = "rest" =>
         \E i \in DOMAIN file :
           file[i].record = emitting[w].record /\ file[i].part = "first"

(* The events that r has found, and where. *)
Found(r) ==
  LET events == reading[r].events IN
  \A k \in DOMAIN events :
    /\ events[k].thread = reading[r].thread
    /\ \E i \in DOMAIN file : i <= reading[r].at /\ EndsAt(events[k], i)
    /\ \A l \in DOMAIN events : l < k =>
         \A i, j \in DOMAIN file :
           EndsAt(events[l], i) /\ EndsAt(events[k], j) => i < j

(* Nothing is missing of what was there when r began, as far as r is. *)
NoneMissed(r) ==
  \A i \in DOMAIN file :
    /\ EndsEntry(i) /\ i <= reading[r].since /\ i <= reading[r].at
    /\ file[i].record.thread = reading[r].thread
    => \E k \in DOMAIN reading[r].events : reading[r].events[k] = file[i].record

ReaderSound(r) ==
  LET x == reading[r] IN
  /\ x.at <= Len(file) /\ x.since <= Len(file)
  /\ x.pc = "idle" => x.at = 0 /\ x.events = <<>>
  /\ x.pc = "done" => x.at >= x.since
  /\ x.at = 0 \/ EndsLine(file[x.at]) \/ x.at >= x.since
  /\ Found(r)
  /\ NoneMissed(r)

Emissions == {Idle} \cup [pc : {"write", "rest"}, record : Records]

Types ==
  /\ TypeOK
  /\ emitting \in [Writers -> Emissions]

(* A lock is held only by an emit that goes on: whatever raises or dies,   *)
(* no thread of the process is kept from recording.                        *)
LockIsReleased ==
  \A p \in Processes :
    lock[p] # Nobody =>
      ProcessOf[lock[p]] = p /\ emitting[lock[p]].pc \in {"write", "rest"}

Inv ==
  /\ Types
  /\ FileSound
  /\ LockIsReleased
  /\ \A w \in Writers : WriterSound(w)
  /\ \A r \in Readers : ReaderSound(r)

-----------------------------------------------------------------------------
(* What is appended to the file is at its end. *)
LEMMA Appended ==
  ASSUME NEW x, NEW s \in Seq(Segments), x \in Segments
  PROVE  /\ Append(s, x) \in Seq(Segments)
         /\ Len(s) \in Nat /\ Len(Append(s, x)) = Len(s) + 1
         /\ DOMAIN s = 1 .. Len(s) /\ DOMAIN Append(s, x) = 1 .. Len(s) + 1
         /\ Append(s, x)[Len(s) + 1] = x
         /\ \A i \in 1 .. Len(s) : Append(s, x)[i] = s[i]
OBVIOUS

(* The types of what a writer emits. *)
LEMMA EmissionType ==
  ASSUME Types, NEW w \in Writers
  PROVE  /\ ProcessOf[w] \in Processes
         /\ emitting[w].pc \in {"idle", "write", "rest"}
         /\ emitting[w].pc = "idle" <=> emitting[w] = Idle
         /\ emitting[w] # Idle => /\ emitting[w].record \in Records
                                  /\ emitting[w].record.by \in Writers
                                  /\ emitting[w].record.number \in Nat
<1>1. emitting[w] \in Emissions
  BY DEF Types
<1>2. Idle.pc = "idle"
  BY DEF Idle
<1>3. emitting[w] # Idle => emitting[w] \in [pc : {"write", "rest"}, record : Records]
  BY <1>1 DEF Emissions
<1>4. QED BY <1>2, <1>3, EventLogAssumption DEF Records, Processes

(* Before anything is emitted. *)
LEMMA InitInv == Init => Inv
<1>1. SUFFICES ASSUME Init PROVE Inv
  OBVIOUS
<1>2. file = <<>> /\ made = 0 /\ returned = {} /\ \A w \in Writers : emitting[w] = Idle
  BY <1>1 DEF Init
<1>3. emitting \in [Writers -> Emissions]
  BY <1>1 DEF Init, Emissions
<1>4. lock \in [Processes -> Writers \cup {Nobody}]
  BY <1>1 DEF Init
<1>5. reading \in [Readers -> [pc : {"idle", "read", "done"}, thread : Threads \cup {""},
                              at : Nat, since : Nat, events : Seq(Records)]]
  <2>1. 0 \in Nat /\ <<>> \in Seq(Records)
    OBVIOUS
  <2>2. QED BY <1>1, <2>1, Zenon DEF Init
<1>6. Types
  <2>1. file \in Seq(Segments) /\ made \in 0 .. MaxRecords /\ returned \subseteq Records
    BY <1>2, EventLogAssumption
  <2>2. QED BY <1>2, <1>3, <1>4, <1>5, <2>1, Zenon DEF Types, TypeOK
<1>7. FileSound
  BY <1>2 DEF FileSound
<1>8. LockIsReleased
  BY <1>1 DEF Init, LockIsReleased
<1>9. \A w \in Writers : WriterSound(w)
  BY <1>2 DEF WriterSound
<1>10. ASSUME NEW r \in Readers PROVE ReaderSound(r)
  <2>1. /\ reading[r].pc = "idle" /\ reading[r].at = 0 /\ reading[r].since = 0
        /\ reading[r].events = <<>>
    BY <1>1, Zenon DEF Init
  <2>2. Found(r) /\ NoneMissed(r)
    BY <1>2, <2>1 DEF Found, NoneMissed
  <2>3. Len(file) = 0
    BY <1>2
  <2>4. QED BY <2>1, <2>2, <2>3 DEF ReaderSound
<1>11. QED BY <1>6, <1>7, <1>8, <1>9, <1>10 DEF Inv

-----------------------------------------------------------------------------
(* Types. *)

Names == Threads \cup {""}
ReaderStates == [pc : {"idle", "read", "done"}, thread : Names,
                 at : Nat, since : Nat, events : Seq(Records)]

(* The types of readers. *)
LEMMA ReaderType == TypeOK => reading \in [Readers -> ReaderStates]
BY Zenon DEF TypeOK, ReaderStates, Names

(* The types of the other variables. *)
LEMMA Shapes ==
  ASSUME Types
  PROVE  /\ file \in Seq(Segments) /\ Len(file) \in Nat /\ DOMAIN file = 1 .. Len(file)
         /\ made \in 0 .. MaxRecords /\ made \in Nat
         /\ emitting \in [Writers -> Emissions]
         /\ lock \in [Processes -> Writers \cup {Nobody}]
         /\ returned \subseteq Records
         /\ reading \in [Readers -> ReaderStates]
<1>1. /\ file \in Seq(Segments) /\ made \in 0 .. MaxRecords
      /\ lock \in [Processes -> Writers \cup {Nobody}] /\ returned \subseteq Records
  BY Zenon DEF Types, TypeOK
<1>2. QED BY <1>1, ReaderType, EventLogAssumption DEF Types

(* What StartRead makes of a reader. *)
LEMMA StartFields ==
  ASSUME Types, NEW r \in Readers, NEW t \in Threads,
         reading' = [reading EXCEPT ![r] = [@ EXCEPT !.pc = "read", !.thread = t,
                                                     !.since = Len(file)]]
  PROVE  /\ reading'[r] \in ReaderStates
         /\ reading'[r].pc = "read" /\ reading'[r].thread = t /\ reading'[r].since = Len(file)
         /\ reading'[r].at = reading[r].at /\ reading'[r].events = reading[r].events
<1> DEFINE x  == reading[r]
           x1 == [x EXCEPT !.pc = "read"]
           x2 == [x1 EXCEPT !.thread = t]
           x3 == [x2 EXCEPT !.since = Len(file)]
<1>1. x \in ReaderStates /\ Len(file) \in Nat /\ t \in Names
  BY Shapes DEF Names
<1>2. reading'[r] = x3
  BY Shapes
<1> HIDE DEF x
<1>3. x1 \in ReaderStates /\ x1.pc = "read" /\ x1.at = x.at /\ x1.events = x.events
  BY <1>1 DEF ReaderStates
<1> HIDE DEF x1
<1>4. /\ x2 \in ReaderStates /\ x2.pc = "read" /\ x2.thread = t
      /\ x2.at = x.at /\ x2.events = x.events
  BY <1>1, <1>3 DEF ReaderStates
<1> HIDE DEF x2
<1>5. /\ x3 \in ReaderStates /\ x3.pc = "read" /\ x3.thread = t /\ x3.since = Len(file)
      /\ x3.at = x.at /\ x3.events = x.events
  BY <1>1, <1>4 DEF ReaderStates
<1>6. QED BY <1>2, <1>5 DEF x, x1, x2

(* What ReadLine makes of one, when the line ends at position stop. *)
LEMMA ReadFields ==
  ASSUME Types, NEW r \in Readers, NEW stop \in DOMAIN file,
         reading' = [reading EXCEPT
            ![r].at = stop,
            ![r].events = IF Parses(reading[r].at, stop)
                                /\ file[stop].record.thread = reading[r].thread
                            THEN Append(@, file[stop].record) ELSE @]
  PROVE  /\ reading'[r] \in ReaderStates
         /\ reading'[r].pc = reading[r].pc /\ reading'[r].thread = reading[r].thread
         /\ reading'[r].since = reading[r].since /\ reading'[r].at = stop
         /\ reading'[r].events =
              IF Parses(reading[r].at, stop) /\ file[stop].record.thread = reading[r].thread
                THEN Append(reading[r].events, file[stop].record) ELSE reading[r].events
<1> DEFINE x  == reading[r]
           x1 == [x EXCEPT !.at = stop]
           ev == IF Parses(x.at, stop) /\ file[stop].record.thread = x.thread
                   THEN Append(x.events, file[stop].record) ELSE x.events
           x2 == [x1 EXCEPT !.events = ev]
<1>1. x \in ReaderStates /\ stop \in Nat /\ file[stop].record \in Records
  <2>1. x \in ReaderStates
    BY Shapes
  <2>2. stop \in Nat /\ file[stop] \in Segments
    BY Shapes
  <2>3. QED BY <2>1, <2>2 DEF Segments
<1>2. reading'[r] = x2
  BY Shapes
<1>3. ev \in Seq(Records)
  BY <1>1 DEF ReaderStates
<1> HIDE DEF x, ev
<1>4. /\ x1 \in ReaderStates /\ x1.pc = x.pc /\ x1.at = stop /\ x1.thread = x.thread
      /\ x1.since = x.since
  BY <1>1 DEF ReaderStates
<1> HIDE DEF x1
<1>5. /\ x2 \in ReaderStates /\ x2.pc = x.pc /\ x2.at = stop /\ x2.thread = x.thread
      /\ x2.since = x.since /\ x2.events = ev
  BY <1>3, <1>4 DEF ReaderStates
<1>6. QED BY <1>2, <1>5 DEF x, x1, ev

(* The types after a step, from those of the variables. *)
LEMMA TypesNext ==
  ASSUME file' \in Seq(Segments), made' \in 0 .. MaxRecords,
         emitting' \in [Writers -> Emissions],
         lock' \in [Processes -> Writers \cup {Nobody}],
         returned' \subseteq Records,
         reading' \in [Readers -> ReaderStates]
  PROVE  Types'
<1>1. \A w \in Writers : \/ emitting'[w] = Idle
                         \/ emitting'[w] \in [pc : {"write", "rest"}, record : Records]
  BY DEF Emissions
<1>2. QED BY <1>1, Zenon DEF Types, TypeOK, ReaderStates, Names, Idle, NoRecord, Emissions, Records,
                             Segments, Processes

-----------------------------------------------------------------------------
(* Writers. *)

(* The lock of a process keeps its other threads from emitting. *)
LEMMA OthersIdle ==
  ASSUME Inv, NEW w \in Writers, NEW v \in Writers, v # w, ProcessOf[v] = ProcessOf[w],
         lock[ProcessOf[w]] = Nobody \/ emitting[w] # Idle
  PROVE  emitting[v] = Idle
<1>1. /\ emitting[w] # Idle => lock[ProcessOf[w]] = w
      /\ emitting[v] # Idle => lock[ProcessOf[w]] = v
  BY DEF Inv, WriterSound
<1>2. QED BY <1>1, NobodyAssumption

(* The file has one more part, of a record of w. *)
Adds(w, x) ==
  /\ x \in Segments /\ x.record.by = w /\ x.record.number <= made'
  /\ file' = Append(file, x)

(* What another writer is emitting is not disturbed by a step of w. *)
LEMMA OthersSound ==
  ASSUME Inv, NEW w \in Writers, NEW v \in Writers, v # w,
         emitting'[v] = emitting[v], made' \in Nat, made <= made',
         \A p \in Processes : p # ProcessOf[w] => lock'[p] = lock[p],
         ProcessOf[v] = ProcessOf[w] => emitting[v] = Idle,
         file' = file \/ \E x : Adds(w, x)
  PROVE  WriterSound(v)'
<1>1. SUFFICES ASSUME emitting[v] # Idle PROVE WriterSound(v)'
  BY DEF WriterSound, Idle, NoRecord
<1> DEFINE e == emitting[v].record
<1>2. /\ e.by = v /\ e.number <= made /\ lock[ProcessOf[v]] = v
      /\ e.number \in Nat /\ ProcessOf[v] \in Processes /\ ProcessOf[v] # ProcessOf[w]
      /\ made \in Nat
  BY <1>1, EmissionType, Shapes DEF Inv, WriterSound
<1>3. /\ \A i \in DOMAIN file :
           file[i].record = e =>
             /\ emitting[v].pc = "rest" /\ file[i].part = "first"
             /\ \A k \in DOMAIN file : i < k => ProcessOf[file[k].record.by] # ProcessOf[v]
      /\ emitting[v].pc = "rest" =>
           \E i \in DOMAIN file : file[i].record = e /\ file[i].part = "first"
  BY <1>1 DEF Inv, WriterSound
<1>4. CASE file' = file
  BY <1>2, <1>3, <1>4 DEF WriterSound
<1>5. CASE \E x : Adds(w, x)
  <2>1. PICK x : Adds(w, x)
    BY <1>5
  <2>2. /\ Len(file) \in Nat /\ DOMAIN file = 1 .. Len(file)
        /\ DOMAIN file' = 1 .. Len(file) + 1 /\ file'[Len(file) + 1] = x
        /\ \A i \in 1 .. Len(file) : file'[i] = file[i]
    <3>1. file \in Seq(Segments) /\ x \in Segments /\ file' = Append(file, x)
      BY <2>1, Shapes DEF Inv, Adds
    <3>2. QED BY <3>1, Appended
  <2>3. x.record # e /\ ProcessOf[x.record.by] # ProcessOf[v]
    BY <1>2, <2>1 DEF Adds
  <2>4. \A i \in DOMAIN file' :
          file'[i].record = e =>
            /\ emitting[v].pc = "rest" /\ file'[i].part = "first"
            /\ \A k \in DOMAIN file' : i < k => ProcessOf[file'[k].record.by] # ProcessOf[v]
    <3>1. SUFFICES ASSUME NEW i \in DOMAIN file', file'[i].record = e
                   PROVE  /\ emitting[v].pc = "rest" /\ file'[i].part = "first"
                          /\ \A k \in DOMAIN file' :
                               i < k => ProcessOf[file'[k].record.by] # ProcessOf[v]
      OBVIOUS
    <3>2. i \in DOMAIN file /\ file'[i] = file[i]
      BY <2>2, <2>3, <3>1
    <3>3. QED BY <1>3, <2>2, <2>3, <3>1, <3>2
  <2>5. emitting[v].pc = "rest" =>
          \E i \in DOMAIN file' : file'[i].record = e /\ file'[i].part = "first"
    BY <1>3, <2>2
  <2>6. QED BY <1>2, <2>4, <2>5 DEF WriterSound
<1>6. QED BY <1>4, <1>5

(* The file with one more part of what w is emitting. *)
LEMMA AddsSound ==
  ASSUME Inv, NEW w \in Writers, emitting[w] # Idle, made' = made, NEW part,
         \/ part = "first" /\ emitting[w].pc = "write"
         \/ part = Remaining(emitting[w]),
         file' = Add(emitting[w].record, part),
         \/ returned' = returned
         \/ part # "first" /\ returned' = returned \cup {emitting[w].record}
  PROVE  /\ FileSound'
         /\ \E x : Adds(w, x)
<1> DEFINE e == emitting[w].record
           x == [record |-> e, part |-> part]
           n == Len(file) + 1
<1>1. /\ e \in Records /\ e.by = w /\ e.number <= made /\ e.number \in Nat
      /\ emitting[w].pc \in {"write", "rest"}
  BY EmissionType DEF Inv, WriterSound
<1>2. /\ part \in {"whole", "first", "rest"}
      /\ part = "rest" <=> emitting[w].pc = "rest"
  BY <1>1 DEF Remaining
<1>3. /\ \A i \in DOMAIN file :
           file[i].record = e =>
             /\ part = "rest" /\ file[i].part = "first"
             /\ \A k \in DOMAIN file : i < k => ProcessOf[file[k].record.by] # ProcessOf[w]
      /\ part = "rest" =>
           \E i \in DOMAIN file : file[i].record = e /\ file[i].part = "first"
  BY <1>2 DEF Inv, WriterSound
<1>4. x \in Segments /\ file' = Append(file, x) /\ x.record = e /\ x.part = part
  BY <1>1, <1>2 DEF Segments, Add
<1>5. \E y : Adds(w, y)
  BY <1>1, <1>4 DEF Adds
<1> HIDE DEF x, e
<1>6. /\ Len(file) \in Nat /\ DOMAIN file = 1 .. Len(file)
      /\ DOMAIN file' = 1 .. n /\ file'[n] = x /\ n \in DOMAIN file' /\ n \notin DOMAIN file
      /\ \A i \in DOMAIN file : file'[i] = file[i] /\ i \in DOMAIN file' /\ i < n /\ i \in Nat
      /\ \A i \in DOMAIN file' : i = n \/ i \in DOMAIN file
  BY <1>4, Shapes, Appended DEF Inv
<1> HIDE DEF n
<1>7. FileSound
  BY DEF Inv
<1>8. \A i \in DOMAIN file' : file'[i].record.number <= made'
  BY <1>1, <1>4, <1>6, <1>7 DEF FileSound
<1>9. \A i, j \in DOMAIN file' :
        /\ file'[i].record = file'[j].record
        /\ EndsLine(file'[i]) = EndsLine(file'[j]) \/ file'[i].part = "whole"
        => i = j
  <2>1. SUFFICES ASSUME NEW i \in DOMAIN file', NEW j \in DOMAIN file', i # j,
                        file'[i].record = file'[j].record,
                        EndsLine(file'[i]) = EndsLine(file'[j]) \/ file'[i].part = "whole"
                 PROVE  FALSE
    OBVIOUS
  <2>2. CASE i \in DOMAIN file /\ j \in DOMAIN file
    BY <1>6, <1>7, <2>1, <2>2 DEF FileSound
  <2>3. CASE i = n /\ j \in DOMAIN file
    <3>1. file[j].record = e /\ file'[j] = file[j]
      BY <1>4, <1>6, <2>1, <2>3
    <3>2. part = "rest" /\ file[j].part = "first"
      BY <1>3, <2>3, <3>1
    <3>3. QED BY <1>4, <1>6, <2>1, <2>3, <3>1, <3>2 DEF EndsLine
  <2>4. CASE j = n /\ i \in DOMAIN file
    <3>1. file[i].record = e /\ file'[i] = file[i]
      BY <1>4, <1>6, <2>1, <2>4
    <3>2. part = "rest" /\ file[i].part = "first"
      BY <1>3, <2>4, <3>1
    <3>3. QED BY <1>4, <1>6, <2>1, <2>4, <3>1, <3>2 DEF EndsLine
  <2>5. QED BY <1>6, <2>1, <2>2, <2>3, <2>4
<1>10. \A i \in DOMAIN file' :
         file'[i].part = "rest" =>
           \E j \in DOMAIN file' :
             j < i /\ file'[j].record = file'[i].record /\ file'[j].part = "first"
  <2>1. SUFFICES ASSUME NEW i \in DOMAIN file', file'[i].part = "rest"
                 PROVE  \E j \in DOMAIN file' :
                          j < i /\ file'[j].record = file'[i].record /\ file'[j].part = "first"
    OBVIOUS
  <2>2. CASE i \in DOMAIN file
    BY <1>6, <1>7, <2>1, <2>2 DEF FileSound
  <2>3. CASE i = n
    BY <1>3, <1>4, <1>6, <2>1, <2>3
  <2>4. QED BY <1>6, <2>2, <2>3
<1>11. \A i, k, j \in DOMAIN file' :
         /\ file'[i].record = file'[j].record /\ i < k /\ k < j
         => ProcessOf[file'[k].record.by] # ProcessOf[file'[i].record.by]
  <2>1. SUFFICES ASSUME NEW i \in DOMAIN file', NEW k \in DOMAIN file', NEW j \in DOMAIN file',
                        file'[i].record = file'[j].record, i < k, k < j
                 PROVE  ProcessOf[file'[k].record.by] # ProcessOf[file'[i].record.by]
    OBVIOUS
  <2>2. i \in DOMAIN file /\ k \in DOMAIN file
    BY <1>6, <2>1
  <2>3. CASE j \in DOMAIN file
    BY <1>6, <1>7, <2>1, <2>2, <2>3 DEF FileSound
  <2>4. CASE j = n
    BY <1>1, <1>3, <1>4, <1>6, <2>1, <2>2, <2>4
  <2>5. QED BY <1>6, <2>3, <2>4
<1>12. \A d \in returned' : \E i \in DOMAIN file' : EndsAt(d, i)'
  <2>1. \A d \in returned : \E i \in DOMAIN file : file[i].record = d /\ EndsLine(file[i])
    BY <1>7 DEF FileSound, EndsAt
  <2>2. \A d \in returned : \E i \in DOMAIN file' : file'[i].record = d /\ EndsLine(file'[i])
    BY <1>6, <2>1
  <2>3. part # "first" => file'[n].record = e /\ EndsLine(file'[n])
    BY <1>4, <1>6 DEF EndsLine
  <2>4. QED BY <1>6, <2>2, <2>3 DEF EndsAt, e
<1>13. QED BY <1>5, <1>8, <1>9, <1>10, <1>11, <1>12 DEF FileSound

-----------------------------------------------------------------------------
(* Readers, while the file grows. *)

(* Entries stay entries. *)
LEMMA EntryKept ==
  ASSUME Inv, NEW i \in DOMAIN file,
         DOMAIN file \subseteq DOMAIN file',
         \A k \in DOMAIN file : file'[k] = file[k]
  PROVE  EndsEntry(i)' <=> EndsEntry(i)
<1>1. DOMAIN file = 1 .. Len(file) /\ Len(file) \in Nat /\ i \in Nat
  BY Shapes DEF Inv
<1>2. \A at \in {i - 1, i - 2} \cap Nat :
        /\ at = 0 \/ (at \in DOMAIN file /\ file'[at] = file[at])
        /\ i = at + 2 => at + 1 \in DOMAIN file /\ file'[at + 1] = file[at + 1]
  BY <1>1
<1>3. file'[i] = file[i]
  OBVIOUS
<1>4. QED BY <1>1, <1>2, <1>3 DEF EndsEntry, Parses, EndsLine

(* What readers know stays true. *)
LEMMA ReadersKept ==
  ASSUME Inv, FileSound', Types', reading' = reading,
         file' = file \/ \E w, x : Adds(w, x)
  PROVE  \A r \in Readers : ReaderSound(r)'
<1>1. /\ Len(file) \in Nat /\ DOMAIN file = 1 .. Len(file)
      /\ Len(file') \in Nat /\ DOMAIN file' = 1 .. Len(file')
      /\ Len(file) <= Len(file')
      /\ \A i \in DOMAIN file : file'[i] = file[i]
  <2>1. file \in Seq(Segments)
    BY Shapes DEF Inv
  <2>2. CASE file' = file
    BY <2>1, <2>2
  <2>3. ASSUME NEW x, x \in Segments, file' = Append(file, x)
        PROVE  /\ Len(file) \in Nat /\ DOMAIN file = 1 .. Len(file)
               /\ Len(file') \in Nat /\ DOMAIN file' = 1 .. Len(file')
               /\ Len(file) <= Len(file')
               /\ \A i \in DOMAIN file : file'[i] = file[i]
    BY <2>1, <2>3, Appended
  <2>4. QED BY <2>2, <2>3 DEF Adds
<1>2. SUFFICES ASSUME NEW r \in Readers PROVE ReaderSound(r)'
  OBVIOUS
<1> DEFINE x == reading[r]
<1>3. /\ x.at \in Nat /\ x.since \in Nat /\ x.events \in Seq(Records) /\ reading'[r] = x
  BY Shapes DEF Inv, ReaderStates
<1>4. ReaderSound(r)
  BY DEF Inv
<1> HIDE DEF x
<1>5. /\ x.at <= Len(file) /\ x.since <= Len(file)
      /\ x.pc = "idle" => x.at = 0 /\ x.events = <<>>
      /\ x.pc = "done" => x.at >= x.since
      /\ x.at = 0 \/ EndsLine(file[x.at]) \/ x.at >= x.since
  BY <1>4 DEF ReaderSound, x
<1>6. \A i \in DOMAIN file : i \in DOMAIN file' /\ \A e : EndsAt(e, i)' <=> EndsAt(e, i)
  BY <1>1 DEF EndsAt, EndsLine
<1>7. \A e : \A i, j \in DOMAIN file' : EndsAt(e, i)' /\ EndsAt(e, j)' => i = j
  BY DEF FileSound, EndsAt
<1>8. \A k \in DOMAIN x.events :
        /\ x.events[k].thread = x.thread
        /\ \E i \in DOMAIN file : i <= x.at /\ EndsAt(x.events[k], i)
        /\ \A l \in DOMAIN x.events : l < k =>
             \A i, j \in DOMAIN file :
               EndsAt(x.events[l], i) /\ EndsAt(x.events[k], j) => i < j
  BY <1>4 DEF ReaderSound, Found, x
<1>9. \A k \in DOMAIN x.events : \A i \in DOMAIN file' :
        file'[i].record = x.events[k] /\ EndsLine(file'[i])
          => i \in DOMAIN file /\ EndsAt(x.events[k], i)
  <2>1. SUFFICES ASSUME NEW k \in DOMAIN x.events, NEW i \in DOMAIN file',
                        file'[i].record = x.events[k], EndsLine(file'[i])
                 PROVE  i \in DOMAIN file /\ EndsAt(x.events[k], i)
    OBVIOUS
  <2>2. PICK e : e = x.events[k]
    OBVIOUS
  <2>3. PICK j \in DOMAIN file : EndsAt(e, j)
    BY <1>8, <2>2
  <2>4. EndsAt(e, i)' /\ EndsAt(e, j)' /\ j \in DOMAIN file'
    BY <1>6, <2>1, <2>2, <2>3 DEF EndsAt
  <2>5. i = j
    BY <1>7, <2>4
  <2>6. QED BY <2>2, <2>3, <2>5
<1>10. Found(r)'
  <2>1. ASSUME NEW k \in DOMAIN x.events
        PROVE  \E i \in DOMAIN file' :
                 i <= x.at /\ file'[i].record = x.events[k] /\ EndsLine(file'[i])
    <3>1. PICK i \in DOMAIN file : i <= x.at /\ EndsAt(x.events[k], i)
      BY <1>8
    <3>2. i \in DOMAIN file' /\ file'[i] = file[i]
      BY <1>1, <1>6
    <3>3. QED BY <3>1, <3>2 DEF EndsAt
  <2>2. ASSUME NEW k \in DOMAIN x.events, NEW l \in DOMAIN x.events, l < k,
               NEW i \in DOMAIN file', NEW j \in DOMAIN file',
               file'[i].record = x.events[l] /\ EndsLine(file'[i]),
               file'[j].record = x.events[k] /\ EndsLine(file'[j])
        PROVE  i < j
    <3>1. i \in DOMAIN file /\ EndsAt(x.events[l], i)
      BY <1>9, <2>2
    <3>2. j \in DOMAIN file /\ EndsAt(x.events[k], j)
      BY <1>9, <2>2
    <3>3. QED BY <1>8, <2>2, <3>1, <3>2
  <2>3. \A k \in DOMAIN x.events : x.events[k].thread = x.thread
    BY <1>8
  <2>4. QED BY <1>3, <2>1, <2>2, <2>3 DEF Found, EndsAt, x
<1>11. NoneMissed(r)'
  <2>1. \A i \in DOMAIN file :
          /\ EndsEntry(i) /\ i <= x.since /\ i <= x.at
          /\ file[i].record.thread = x.thread
          => \E k \in DOMAIN x.events : x.events[k] = file[i].record
    BY <1>4 DEF ReaderSound, NoneMissed, x
  <2>2. \A i \in DOMAIN file' : i <= x.since => i \in DOMAIN file
    BY <1>1, <1>3, <1>5
  <2>3. \A i \in DOMAIN file : EndsEntry(i)' <=> EndsEntry(i)
    BY <1>1, <1>6, EntryKept
  <2>4. \A i \in DOMAIN file' :
          /\ EndsEntry(i)' /\ i <= x.since /\ i <= x.at
          /\ file'[i].record.thread = x.thread
          => \E k \in DOMAIN x.events : x.events[k] = file'[i].record
    BY <1>1, <2>1, <2>2, <2>3
  <2>5. QED BY <1>3, <2>4 DEF NoneMissed, x
<1>12. x.at = 0 \/ EndsLine(file'[x.at]) \/ x.at >= x.since
  BY <1>1, <1>3, <1>5
<1>13. x.at <= Len(file') /\ x.since <= Len(file')
  BY <1>1, <1>3, <1>5
<1>14. QED BY <1>3, <1>5, <1>10, <1>11, <1>12, <1>13 DEF ReaderSound, EndsLine, x
-----------------------------------------------------------------------------
(* Steps of writers. *)

(* What a step of w has to show: the rest is undisturbed. *)
LEMMA WriterStep ==
  ASSUME Inv, NEW w \in Writers, Types', FileSound', WriterSound(w)', reading' = reading,
         lock[ProcessOf[w]] = Nobody \/ emitting[w] # Idle,
         \A v \in Writers : v # w => emitting'[v] = emitting[v],
         made' \in Nat, made <= made',
         \A p \in Processes : p # ProcessOf[w] => lock'[p] = lock[p],
         \/ lock'[ProcessOf[w]] = Nobody
         \/ lock'[ProcessOf[w]] = w /\ emitting'[w] # Idle,
         file' = file \/ \E x : Adds(w, x)
  PROVE  Inv'
<1>1. ASSUME NEW v \in Writers, v # w PROVE WriterSound(v)'
  <2>1. ProcessOf[v] = ProcessOf[w] => emitting[v] = Idle
    BY <1>1, OthersIdle
  <2>2. QED BY <1>1, <2>1, OthersSound
<1>2. \A r \in Readers : ReaderSound(r)'
  BY ReadersKept
<1>3. LockIsReleased'
  <2>1. SUFFICES ASSUME NEW p \in Processes, lock'[p] # Nobody
                 PROVE  /\ ProcessOf[lock'[p]] = p
                        /\ emitting'[lock'[p]].pc \in {"write", "rest"}
    BY DEF LockIsReleased, Processes
  <2>2. CASE p = ProcessOf[w]
    <3>1. lock'[p] = w /\ emitting'[w] # Idle
      BY <2>1, <2>2
    <3>2. emitting'[w] \in Emissions
      BY DEF Types
    <3>3. QED BY <2>2, <3>1, <3>2 DEF Emissions
  <2>3. CASE p # ProcessOf[w]
    <3>1. lock'[p] = lock[p] /\ lock[p] \in Writers
      BY <2>1, <2>3, Shapes DEF Inv
    <3>2. ProcessOf[lock[p]] = p /\ emitting[lock[p]].pc \in {"write", "rest"}
      BY <2>1, <3>1 DEF Inv, LockIsReleased
    <3>3. emitting'[lock[p]] = emitting[lock[p]]
      BY <2>3, <3>1, <3>2
    <3>4. QED BY <3>1, <3>2, <3>3
  <2>4. QED BY <2>2, <2>3
<1>4. QED BY <1>1, <1>2, <1>3 DEF Inv

(* The file as it is stays sound while records are made. *)
LEMMA FileKept ==
  ASSUME Inv, file' = file, returned' = returned, made' \in Nat, made <= made'
  PROVE  FileSound'
<1>1. FileSound /\ made \in Nat
  BY Shapes DEF Inv
<1>2. \A i \in DOMAIN file : file[i].record.number \in Nat
  <2>1. ASSUME NEW i \in DOMAIN file PROVE file[i].record.number \in Nat
    <3>1. file[i] \in Segments
      BY Shapes DEF Inv
    <3>2. file[i].record \in Records
      BY <3>1 DEF Segments
    <3>3. QED BY <3>2, EventLogAssumption DEF Records
  <2>2. QED BY <2>1
<1>3. \A i \in DOMAIN file' : file'[i].record.number <= made'
  BY <1>1, <1>2 DEF FileSound
<1>4. QED BY <1>1, <1>3 DEF FileSound, EndsAt, EndsLine

(* Emit: nothing of the new record is in the file. *)
LEMMA EmitInv == ASSUME Inv, NEW w \in Writers, Emit(w) PROVE Inv'
<1>1. PICK t \in Threads :
        emitting' = [emitting EXCEPT
          ![w] = [pc |-> "write", record |-> [number |-> made + 1, by |-> w, thread |-> t]]]
  BY DEF Emit, Made
<1> DEFINE e == [number |-> made + 1, by |-> w, thread |-> t]
<1>2. /\ made < MaxRecords /\ made' = made + 1 /\ lock[ProcessOf[w]] = Nobody
      /\ lock' = [lock EXCEPT ![ProcessOf[w]] = w]
      /\ file' = file /\ returned' = returned /\ reading' = reading
  BY DEF Emit, Made
<1>3. /\ made \in Nat /\ MaxRecords \in Nat /\ made' \in 0 .. MaxRecords /\ made <= made'
      /\ made' \in Nat /\ ProcessOf[w] \in Processes
  BY <1>2, Shapes, EventLogAssumption DEF Inv, Processes
<1>4. e \in Records
  BY <1>2, <1>3 DEF Records
<1>5. /\ emitting' \in [Writers -> Emissions]
      /\ emitting'[w] = [pc |-> "write", record |-> e]
      /\ \A v \in Writers : v # w => emitting'[v] = emitting[v]
  BY <1>1, <1>4, Shapes DEF Inv, Emissions
<1>6. Types'
  <2>1. /\ file \in Seq(Segments) /\ lock' \in [Processes -> Writers \cup {Nobody}]
        /\ returned \subseteq Records /\ reading \in [Readers -> ReaderStates]
    BY <1>2, Shapes DEF Inv
  <2>2. QED BY <1>2, <1>3, <1>5, <2>1, TypesNext
<1>7. FileSound'
  BY <1>2, <1>3, FileKept
<1>8. lock'[ProcessOf[w]] = w /\ \A p \in Processes : p # ProcessOf[w] => lock'[p] = lock[p]
  BY <1>2, <1>3, Shapes DEF Inv
<1>9. \A i \in DOMAIN file' : file'[i].record # e
  <2>1. \A i \in DOMAIN file : file[i].record.number <= made
    BY DEF Inv, FileSound
  <2>2. e.number = made + 1 /\ made + 1 > made
    BY <1>3
  <2>3. QED BY <1>2, <1>3, <2>1, <2>2
<1>10. WriterSound(w)'
  <2>1. emitting'[w].record = e /\ emitting'[w].pc = "write" /\ e.by = w /\ e.number = made'
    BY <1>2, <1>5
  <2> HIDE DEF e
  <2>2. QED BY <1>3, <1>8, <1>9, <2>1 DEF WriterSound
<1>11. emitting'[w] # Idle
  BY <1>5 DEF Idle
<1>12. QED BY <1>2, <1>3, <1>5, <1>6, <1>7, <1>8, <1>10, <1>11, WriterStep

(* What of the state WriteFirst and WriteLast change. *)
LEMMA AddedTypes ==
  ASSUME Inv, NEW w \in Writers, emitting[w].pc \in {"write", "rest"},
         NEW part \in {"whole", "first", "rest"}, file' = Add(emitting[w].record, part)
  PROVE  /\ file' \in Seq(Segments) /\ emitting[w] # Idle /\ emitting[w].record \in Records
         /\ ProcessOf[w] \in Processes
<1>1. /\ emitting[w] # Idle /\ emitting[w].record \in Records /\ ProcessOf[w] \in Processes
  BY EmissionType DEF Inv, Idle
<1>2. [record |-> emitting[w].record, part |-> part] \in Segments
  BY <1>1 DEF Segments
<1>3. QED BY <1>1, <1>2, Shapes DEF Inv, Add

(* WriteFirst: the first part of the record, and the only one so far. *)
LEMMA WriteFirstInv == ASSUME Inv, NEW w \in Writers, WriteFirst(w) PROVE Inv'
<1> DEFINE e == emitting[w].record
<1>1. /\ emitting[w].pc = "write" /\ file' = Add(e, "first")
      /\ emitting' = [emitting EXCEPT ![w].pc = "rest"]
      /\ made' = made /\ lock' = lock /\ returned' = returned /\ reading' = reading
  BY DEF WriteFirst
<1>2. /\ file' \in Seq(Segments) /\ emitting[w] # Idle /\ e \in Records
      /\ ProcessOf[w] \in Processes
  BY <1>1, AddedTypes
<1>3. /\ FileSound' /\ \E x : Adds(w, x)
  BY <1>1, <1>2, AddsSound
<1>4. /\ emitting' \in [Writers -> Emissions] /\ emitting'[w].pc = "rest"
      /\ emitting'[w].record = e /\ \A v \in Writers : v # w => emitting'[v] = emitting[v]
  <2>1. emitting \in [Writers -> Emissions]
    BY Shapes DEF Inv
  <2>2. emitting[w] \in [pc : {"write", "rest"}, record : Records]
    BY <1>2, <2>1 DEF Emissions
  <2>3. /\ [emitting[w] EXCEPT !.pc = "rest"] \in Emissions
        /\ [emitting[w] EXCEPT !.pc = "rest"].pc = "rest"
        /\ [emitting[w] EXCEPT !.pc = "rest"].record = e
    BY <2>2 DEF Emissions
  <2>4. emitting'[w] = [emitting[w] EXCEPT !.pc = "rest"]
    BY <1>1, <2>1
  <2>5. QED BY <1>1, <2>1, <2>3, <2>4
<1>5. Types'
  BY <1>1, <1>2, <1>4, Shapes, TypesNext DEF Inv
<1>6. /\ e.by = w /\ e.number <= made /\ lock[ProcessOf[w]] = w
      /\ \A i \in DOMAIN file : file[i].record # e
  BY <1>1, <1>2 DEF Inv, WriterSound
<1>7. /\ Len(file) \in Nat /\ DOMAIN file = 1 .. Len(file)
      /\ DOMAIN file' = 1 .. Len(file) + 1
      /\ file'[Len(file) + 1] = [record |-> e, part |-> "first"]
      /\ \A i \in 1 .. Len(file) : file'[i] = file[i]
  <2>1. [record |-> e, part |-> "first"] \in Segments /\ file \in Seq(Segments)
    BY <1>2, Shapes DEF Inv, Segments
  <2>2. QED BY <1>1, <2>1, Appended DEF Add
<1>8. WriterSound(w)'
  <2> HIDE DEF e
  <2>1. \A i \in DOMAIN file' : file'[i].record = e => i = Len(file) + 1
    BY <1>6, <1>7
  <2>2. \E i \in DOMAIN file' : file'[i].record = e /\ file'[i].part = "first"
    BY <1>7
  <2>3. \A i \in DOMAIN file' : file'[i].record = e =>
          file'[i].part = "first" /\ \A k \in DOMAIN file' : ~(i < k)
    BY <1>7, <2>1
  <2>4. QED BY <1>1, <1>4, <1>6, <2>2, <2>3 DEF WriterSound
<1>9. emitting'[w] # Idle
  BY <1>4 DEF Idle
<1>10. made <= made' /\ made' \in Nat
  BY <1>1, Shapes DEF Inv
<1>11. QED BY <1>1, <1>2, <1>3, <1>4, <1>5, <1>6, <1>8, <1>9, <1>10, WriterStep

(* Whoever has nothing to emit is sound. *)
LEMMA IdleSound == ASSUME NEW w \in Writers, emitting'[w] = Idle PROVE WriterSound(w)'
BY DEF WriterSound, Idle, NoRecord

(* WriteLast: the record is whole, and its end is the only one. *)
LEMMA WriteLastInv == ASSUME Inv, NEW w \in Writers, WriteLast(w) PROVE Inv'
<1> DEFINE e == emitting[w].record
<1>1. /\ emitting[w].pc \in {"write", "rest"} /\ file' = Add(e, Remaining(emitting[w]))
      /\ emitting' = [emitting EXCEPT ![w] = Idle]
      /\ made' = made /\ lock' = [lock EXCEPT ![ProcessOf[w]] = Nobody]
      /\ returned' = returned \cup {e} /\ reading' = reading
  BY DEF WriteLast, Free
<1>2. Remaining(emitting[w]) \in {"whole", "first", "rest"} /\ Remaining(emitting[w]) # "first"
  BY DEF Remaining
<1>3. /\ file' \in Seq(Segments) /\ emitting[w] # Idle /\ e \in Records
      /\ ProcessOf[w] \in Processes
  BY <1>1, <1>2, AddedTypes
<1>4. /\ FileSound' /\ \E x : Adds(w, x)
  BY <1>1, <1>2, <1>3, AddsSound
<1>5. /\ emitting' \in [Writers -> Emissions] /\ emitting'[w] = Idle
      /\ \A v \in Writers : v # w => emitting'[v] = emitting[v]
  BY <1>1, Shapes DEF Inv, Emissions
<1>6. /\ lock' \in [Processes -> Writers \cup {Nobody}] /\ lock'[ProcessOf[w]] = Nobody
      /\ \A p \in Processes : p # ProcessOf[w] => lock'[p] = lock[p]
  BY <1>1, <1>3, Shapes DEF Inv
<1>7. Types'
  <2>1. returned' \subseteq Records /\ made \in 0 .. MaxRecords
        /\ reading \in [Readers -> ReaderStates]
    BY <1>1, <1>3, Shapes DEF Inv
  <2>2. QED BY <1>1, <1>3, <1>5, <1>6, <2>1, TypesNext
<1>8. WriterSound(w)' /\ made <= made' /\ made' \in Nat
  BY <1>1, <1>5, IdleSound, Shapes DEF Inv
<1>9. QED BY <1>1, <1>3, <1>4, <1>5, <1>6, <1>7, <1>8, WriterStep

(* Raise: the file keeps what was appended. *)
LEMMA RaiseInv == ASSUME Inv, NEW w \in Writers, Raise(w) PROVE Inv'
<1>1. /\ emitting[w].pc \in {"write", "rest"} /\ file' = file
      /\ emitting' = [emitting EXCEPT ![w] = Idle]
      /\ made' = made /\ lock' = [lock EXCEPT ![ProcessOf[w]] = Nobody]
      /\ returned' = returned /\ reading' = reading
  BY DEF Raise, Free
<1>2. emitting[w] # Idle /\ ProcessOf[w] \in Processes
  BY <1>1, EmissionType DEF Inv, Idle
<1>3. /\ emitting' \in [Writers -> Emissions] /\ emitting'[w] = Idle
      /\ \A v \in Writers : v # w => emitting'[v] = emitting[v]
  BY <1>1, Shapes DEF Inv, Emissions
<1>4. /\ lock' \in [Processes -> Writers \cup {Nobody}] /\ lock'[ProcessOf[w]] = Nobody
      /\ \A p \in Processes : p # ProcessOf[w] => lock'[p] = lock[p]
  BY <1>1, <1>2, Shapes DEF Inv
<1>5. Types'
  BY <1>1, <1>3, <1>4, Shapes, TypesNext DEF Inv
<1>6. WriterSound(w)' /\ made <= made' /\ made' \in Nat
  BY <1>1, <1>3, IdleSound, Shapes DEF Inv
<1>7. FileSound'
  BY <1>1, <1>6, FileKept
<1>8. QED BY <1>1, <1>2, <1>3, <1>4, <1>5, <1>6, <1>7, WriterStep

(* Crash: whatever the threads of p were emitting is left as it is. *)
LEMMA CrashInv == ASSUME Inv, NEW p \in Processes, Crash(p) PROVE Inv'
<1>1. /\ emitting' = [w \in Writers |-> IF ProcessOf[w] = p THEN Idle ELSE emitting[w]]
      /\ lock' = [lock EXCEPT ![p] = Nobody]
      /\ file' = file /\ made' = made /\ returned' = returned /\ reading' = reading
  BY DEF Crash
<1>2. made \in Nat /\ made <= made
  BY Shapes DEF Inv
<1>3. FileSound'
  BY <1>1, <1>2, FileKept
<1>4. /\ emitting' \in [Writers -> Emissions]
      /\ lock' \in [Processes -> Writers \cup {Nobody}] /\ lock'[p] = Nobody
      /\ \A q \in Processes : q # p => lock'[q] = lock[q]
  BY <1>1, Shapes DEF Inv, Emissions
<1>5. Types'
  BY <1>1, <1>4, Shapes, TypesNext DEF Inv
<1>6. ASSUME NEW w \in Writers PROVE WriterSound(w)'
  <2>1. CASE ProcessOf[w] = p
    BY <1>1, <2>1, IdleSound
  <2>2. CASE ProcessOf[w] # p
    <3>1. emitting'[w] = emitting[w] /\ lock'[ProcessOf[w]] = lock[ProcessOf[w]]
      BY <1>1, <1>4, <2>2 DEF Processes
    <3>2. WriterSound(w)
      BY DEF Inv
    <3>3. QED BY <1>1, <3>1, <3>2 DEF WriterSound, Idle, NoRecord
  <2>3. QED BY <2>1, <2>2
<1>7. LockIsReleased'
  <2>1. SUFFICES ASSUME NEW q \in Processes, lock'[q] # Nobody
                 PROVE  /\ ProcessOf[lock'[q]] = q
                        /\ emitting'[lock'[q]].pc \in {"write", "rest"}
    BY DEF LockIsReleased, Processes
  <2>2. q # p /\ lock'[q] = lock[q] /\ lock[q] \in Writers
    BY <1>4, <2>1, Shapes DEF Inv
  <2>3. ProcessOf[lock[q]] = q /\ emitting[lock[q]].pc \in {"write", "rest"}
    BY <2>1, <2>2 DEF Inv, LockIsReleased
  <2>4. QED BY <1>1, <2>2, <2>3
<1>8. \A r \in Readers : ReaderSound(r)'
  BY <1>1, <1>3, <1>5, ReadersKept
<1>9. QED BY <1>3, <1>5, <1>6, <1>7, <1>8 DEF Inv
-----------------------------------------------------------------------------
(* Steps of readers. *)

(* What a step of r has to show: the rest is undisturbed. *)
LEMMA ReaderStep ==
  ASSUME Inv, NEW r \in Readers, reading' \in [Readers -> ReaderStates],
         \A s \in Readers : s # r => reading'[s] = reading[s],
         UNCHANGED <<file, made, emitting, lock, returned>>,
         ReaderSound(r)'
  PROVE  Inv'
<1>1. Types'
  BY Shapes, TypesNext DEF Inv
<1>2. made' \in Nat /\ made <= made'
  BY Shapes DEF Inv
<1>3. FileSound'
  BY <1>2, FileKept
<1>4. LockIsReleased'
  BY DEF Inv, LockIsReleased, Processes
<1>5. ASSUME NEW w \in Writers PROVE WriterSound(w)'
  <2>1. WriterSound(w)
    BY DEF Inv
  <2>2. QED BY <2>1 DEF WriterSound, Idle, NoRecord
<1>6. ASSUME NEW s \in Readers PROVE ReaderSound(s)'
  <2>1. CASE s = r
    BY <2>1
  <2>2. CASE s # r
    <3>1. ReaderSound(s) /\ reading'[s] = reading[s]
      BY <2>2 DEF Inv
    <3>2. Found(s)'
      BY <3>1 DEF ReaderSound, Found, EndsAt, EndsLine
    <3>3. NoneMissed(s)'
      BY <3>1 DEF ReaderSound, NoneMissed, EndsEntry, Parses, EndsLine
    <3>4. QED BY <3>1, <3>2, <3>3 DEF ReaderSound, EndsLine
  <2>3. QED BY <2>1, <2>2
<1>7. QED BY <1>1, <1>3, <1>4, <1>5, <1>6 DEF Inv

(* StartRead: nothing is read, and nothing found. *)
LEMMA StartReadInv == ASSUME Inv, NEW r \in Readers, StartRead(r) PROVE Inv'
<1>1. PICK t \in Threads :
        reading' = [reading EXCEPT ![r] = [@ EXCEPT !.pc = "read", !.thread = t,
                                                    !.since = Len(file)]]
  BY DEF StartRead
<1>2. reading[r].pc = "idle" /\ UNCHANGED <<file, made, emitting, lock, returned>>
  BY DEF StartRead
<1>3. /\ reading'[r] \in ReaderStates
      /\ reading'[r].pc = "read" /\ reading'[r].thread = t /\ reading'[r].since = Len(file)
      /\ reading'[r].at = reading[r].at /\ reading'[r].events = reading[r].events
  BY <1>1, StartFields DEF Inv
<1>4. reading[r].at = 0 /\ reading[r].events = <<>>
  BY <1>2 DEF Inv, ReaderSound
<1>5. /\ reading' \in [Readers -> ReaderStates]
      /\ \A s \in Readers : s # r => reading'[s] = reading[s]
  BY <1>1, <1>3, Shapes DEF Inv
<1>6. Found(r)'
  BY <1>3, <1>4 DEF Found
<1>7. Len(file) \in Nat /\ DOMAIN file = 1 .. Len(file)
  BY Shapes DEF Inv
<1>8. NoneMissed(r)'
  BY <1>2, <1>3, <1>4, <1>7 DEF NoneMissed
<1>9. ReaderSound(r)'
  BY <1>2, <1>3, <1>4, <1>6, <1>7, <1>8 DEF ReaderSound
<1>10. QED BY <1>2, <1>5, <1>9, ReaderStep

(* EndRead: r has passed everything that was there when it began. *)
LEMMA EndReadInv == ASSUME Inv, NEW r \in Readers, EndRead(r) PROVE Inv'
<1>1. /\ reading[r].pc = "read" /\ reading[r].at = Len(file)
      /\ reading' = [reading EXCEPT ![r].pc = "done"]
      /\ UNCHANGED <<file, made, emitting, lock, returned>>
  BY DEF EndRead
<1>2. reading \in [Readers -> ReaderStates] /\ Len(file) \in Nat
  BY Shapes DEF Inv
<1>3. /\ reading'[r] \in ReaderStates
      /\ reading'[r].pc = "done" /\ reading'[r].thread = reading[r].thread
      /\ reading'[r].since = reading[r].since
      /\ reading'[r].at = reading[r].at /\ reading'[r].events = reading[r].events
  <2>1. reading[r] \in ReaderStates /\ reading'[r] = [reading[r] EXCEPT !.pc = "done"]
    BY <1>1, <1>2
  <2>2. QED BY <2>1 DEF ReaderStates
<1>4. /\ reading' \in [Readers -> ReaderStates]
      /\ \A s \in Readers : s # r => reading'[s] = reading[s]
  BY <1>1, <1>2, <1>3
<1>5. ReaderSound(r)
  BY DEF Inv
<1>6. Found(r)'
  BY <1>1, <1>3, <1>5 DEF ReaderSound, Found, EndsAt, EndsLine
<1>7. NoneMissed(r)'
  BY <1>1, <1>3, <1>5 DEF ReaderSound, NoneMissed, EndsEntry, Parses, EndsLine
<1>8. reading[r].at <= Len(file) /\ reading[r].since <= Len(file)
  BY <1>5 DEF ReaderSound
<1>9. ReaderSound(r)'
  BY <1>1, <1>2, <1>3, <1>6, <1>7, <1>8 DEF ReaderSound, EndsLine
<1>10. QED BY <1>1, <1>4, <1>9, ReaderStep

(* An entry that the line r reads runs over is that line. *)
LEMMA EntryIsLine ==
  ASSUME Inv, NEW r \in Readers, NEW stop \in DOMAIN file, Line(reading[r].at, stop),
         NEW i \in DOMAIN file, EndsEntry(i), i <= reading[r].since,
         reading[r].at < i, i <= stop
  PROVE  i = stop /\ Parses(reading[r].at, stop)
<1> DEFINE at == reading[r].at
<1>1. /\ Len(file) \in Nat /\ DOMAIN file = 1 .. Len(file) /\ i \in Nat /\ stop \in Nat
      /\ at \in Nat /\ reading[r].since \in Nat
  BY Shapes DEF Inv, ReaderStates
<1>2. at = 0 \/ EndsLine(file[at])
  BY <1>1 DEF Inv, ReaderSound
<1>3. \A k \in at + 1 .. stop - 1 : ~EndsLine(file[k])
  BY DEF Line
<1>4. PICK b \in {i - 1, i - 2} \cap Nat : (b = 0 \/ EndsLine(file[b])) /\ Parses(b, i)
  BY DEF EndsEntry
<1> HIDE DEF at
<1>5. EndsLine(file[i])
  BY <1>4 DEF Parses, EndsLine
<1>6. i = stop
  BY <1>1, <1>3, <1>5 DEF at
<1>7. ~(b > at)
  BY <1>1, <1>3, <1>4, <1>6
<1>8. ~(b < at)
  <2>1. SUFFICES ASSUME b < at PROVE FALSE
    OBVIOUS
  <2>2. b = i - 2 /\ at = i - 1 /\ at \in DOMAIN file /\ at # 0
    BY <1>1, <1>4, <2>1 DEF at
  <2>3. file[at].record = file[i].record
    BY <1>1, <1>4, <2>2 DEF Parses
  <2>4. EndsLine(file[at]) = EndsLine(file[i])
    BY <1>2, <1>5, <2>2
  <2>5. at = i
    BY <2>2, <2>3, <2>4 DEF Inv, FileSound
  <2>6. QED BY <1>1, <2>2, <2>5
<1>9. b = at
  BY <1>1, <1>4, <1>7, <1>8
<1>10. QED BY <1>4, <1>6, <1>9 DEF at

(* ReadLine: what is found is later than all that was found before. *)
LEMMA ReadLineInv == ASSUME Inv, NEW r \in Readers, ReadLine(r) PROVE Inv'
<1>1. reading[r].pc = "read" /\ UNCHANGED <<file, made, emitting, lock, returned>>
  BY DEF ReadLine
<1>2. PICK stop \in DOMAIN file :
        /\ Line(reading[r].at, stop)
        /\ reading' = [reading EXCEPT
             ![r].at = stop,
             ![r].events = IF Parses(reading[r].at, stop)
                                 /\ file[stop].record.thread = reading[r].thread
                             THEN Append(@, file[stop].record) ELSE @]
  BY DEF ReadLine
<1> DEFINE at == reading[r].at
           old == reading[r].events
           e == file[stop].record
           kept == Parses(at, stop) /\ e.thread = reading[r].thread
<1>3. /\ reading'[r] \in ReaderStates
      /\ reading'[r].pc = reading[r].pc /\ reading'[r].thread = reading[r].thread
      /\ reading'[r].since = reading[r].since /\ reading'[r].at = stop
      /\ reading'[r].events = IF kept THEN Append(old, e) ELSE old
  BY <1>2, ReadFields DEF Inv
<1>4. /\ reading' \in [Readers -> ReaderStates]
      /\ \A s \in Readers : s # r => reading'[s] = reading[s]
  BY <1>2, <1>3, Shapes DEF Inv
<1>5. /\ Len(file) \in Nat /\ DOMAIN file = 1 .. Len(file) /\ stop \in 1 .. Len(file)
      /\ at \in Nat /\ reading[r].since \in Nat /\ old \in Seq(Records)
  BY Shapes DEF Inv, ReaderStates
<1>6. e \in Records
  <2>1. file[stop] \in Segments
    BY Shapes DEF Inv
  <2>2. QED BY <2>1 DEF Segments
<1>7. /\ reading[r].since <= Len(file) /\ Found(r) /\ NoneMissed(r)
  BY DEF Inv, ReaderSound
<1>8. at < stop /\ (EndsLine(file[stop]) \/ stop = Len(file))
  BY <1>2 DEF Line
<1> DEFINE new == reading'[r].events
<1>9. /\ DOMAIN old = 1 .. Len(old) /\ Len(old) \in Nat
      /\ \A k \in DOMAIN old : k \in DOMAIN new /\ new[k] = old[k] /\ k <= Len(old)
      /\ kept => Len(old) + 1 \in DOMAIN new /\ new[Len(old) + 1] = e
      /\ \A k \in DOMAIN new : k \in DOMAIN old \/ (k = Len(old) + 1 /\ kept)
  <2> HIDE DEF kept, old, e
  <2>1. CASE kept
    <3>1. new = Append(old, e)
      BY <1>3, <2>1
    <3> HIDE DEF new
    <3>2. QED BY <1>5, <1>6, <2>1, <3>1
  <2>2. CASE ~kept
    <3>1. new = old
      BY <1>3, <2>2
    <3>2. DOMAIN old = 1 .. Len(old) /\ Len(old) \in Nat
      BY <1>5
    <3> HIDE DEF new
    <3>3. /\ \A k \in DOMAIN old : k \in DOMAIN new /\ new[k] = old[k] /\ k <= Len(old)
          /\ \A k \in DOMAIN new : k \in DOMAIN old
      BY <3>1, <3>2
    <3>4. QED BY <2>2, <3>2, <3>3, Zenon
  <2>3. QED BY <2>1, <2>2
<1>10. kept => EndsLine(file[stop])
  BY DEF Parses, EndsLine
<1>11. \A d : \A i, j \in DOMAIN file : EndsAt(d, i) /\ EndsAt(d, j) => i = j
  BY DEF Inv, FileSound, EndsAt
<1>12. \A k \in DOMAIN old :
         /\ old[k].thread = reading[r].thread
         /\ \E i \in DOMAIN file : i <= at /\ EndsAt(old[k], i)
         /\ \A l \in DOMAIN old : l < k =>
              \A i, j \in DOMAIN file :
                EndsAt(old[l], i) /\ EndsAt(old[k], j) => i < j
  BY <1>7 DEF Found
<1>13. \A i \in DOMAIN file :
         /\ EndsEntry(i) /\ i <= reading[r].since /\ i <= at
         /\ file[i].record.thread = reading[r].thread
         => \E k \in DOMAIN old : old[k] = file[i].record
  BY <1>7 DEF NoneMissed
<1> HIDE DEF kept, old, new, at
<1>14. ASSUME NEW k \in DOMAIN new
       PROVE  /\ new[k].thread = reading[r].thread
              /\ \E i \in DOMAIN file : i <= stop /\ EndsAt(new[k], i)
              /\ \A l \in DOMAIN new : l < k =>
                   \A i, j \in DOMAIN file :
                     EndsAt(new[l], i) /\ EndsAt(new[k], j) => i < j
  <2>1. CASE k \in DOMAIN old
    <3>1. new[k] = old[k]
      BY <1>9, <2>1
    <3>2. \A l \in DOMAIN new : l < k => l \in DOMAIN old /\ new[l] = old[l]
      BY <1>9, <2>1
    <3>3. \E i \in DOMAIN file : i <= stop /\ EndsAt(old[k], i)
      <4>1. PICK i \in DOMAIN file : i <= at /\ EndsAt(old[k], i)
        BY <1>12, <2>1
      <4>2. QED BY <1>5, <1>8, <4>1
    <3>4. QED BY <1>12, <2>1, <3>1, <3>2, <3>3
  <2>2. CASE k = Len(old) + 1 /\ kept
    <3>1. new[k] = e /\ EndsAt(e, stop) /\ e.thread = reading[r].thread
      BY <1>9, <1>10, <2>2 DEF EndsAt, kept
    <3>2. ASSUME NEW l \in DOMAIN new, l < k, NEW i \in DOMAIN file, NEW j \in DOMAIN file,
                 EndsAt(new[l], i), EndsAt(new[k], j)
          PROVE  i < j
      <4>1. l \in DOMAIN old /\ new[l] = old[l]
        BY <1>9, <2>2, <3>2
      <4>2. PICK m \in DOMAIN file : m <= at /\ EndsAt(old[l], m)
        BY <1>12, <4>1
      <4>3. i = m
        BY <1>11, <3>2, <4>1, <4>2
      <4>4. j = stop
        BY <1>11, <3>1, <3>2
      <4>5. QED BY <1>5, <1>8, <4>2, <4>3, <4>4
    <3>3. stop <= stop
      BY <1>5
    <3>4. QED BY <3>1, <3>2, <3>3
  <2>3. QED BY <1>9, <2>1, <2>2
<1>15. Found(r)'
  <2>1. file' = file /\ reading'[r].thread = reading[r].thread /\ reading'[r].at = stop
        /\ reading'[r].events = new
    BY <1>1, <1>3 DEF new
  <2>2. QED BY <1>14, <2>1 DEF Found, EndsAt, EndsLine
<1>16. ASSUME NEW i \in DOMAIN file, EndsEntry(i), i <= reading[r].since, i <= stop,
              file[i].record.thread = reading[r].thread
       PROVE  \E k \in DOMAIN new : new[k] = file[i].record
  <2>1. CASE i <= at
    BY <1>9, <1>13, <1>16, <2>1
  <2>2. CASE at < i
    <3>1. i = stop /\ Parses(at, stop)
      BY <1>2, <1>16, <2>2, EntryIsLine DEF at
    <3>2. kept
      BY <1>16, <3>1 DEF kept
    <3>3. QED BY <1>9, <3>1, <3>2
  <2>3. QED BY <1>5, <2>1, <2>2
<1>17. NoneMissed(r)'
  <2>1. /\ file' = file /\ reading'[r].thread = reading[r].thread /\ reading'[r].at = stop
        /\ reading'[r].since = reading[r].since /\ reading'[r].events = new
    BY <1>1, <1>3 DEF new
  <2>2. QED BY <1>16, <2>1 DEF NoneMissed, EndsEntry, Parses, EndsLine
<1>18. ReaderSound(r)'
  BY <1>1, <1>3, <1>5, <1>7, <1>8, <1>15, <1>17 DEF ReaderSound, EndsLine
<1>19. QED BY <1>1, <1>4, <1>18, ReaderStep

-----------------------------------------------------------------------------
(* The specification. *)

(* Every step keeps the invariant. *)
LEMMA NextInv == Inv /\ [Next]_vars => Inv'
<1>1. SUFFICES ASSUME Inv, [Next]_vars PROVE Inv'
  OBVIOUS
<1>2. ASSUME NEW w \in Writers, Emit(w) \/ WriteFirst(w) \/ WriteLast(w) \/ Raise(w)
      PROVE  Inv'
  BY <1>1, <1>2, EmitInv, WriteFirstInv, WriteLastInv, RaiseInv
<1>3. ASSUME NEW p \in Processes, Crash(p) PROVE Inv'
  BY <1>1, <1>3, CrashInv
<1>4. ASSUME NEW r \in Readers, Read(r) PROVE Inv'
  BY <1>1, <1>4, StartReadInv, ReadLineInv, EndReadInv DEF Read
<1>5. CASE UNCHANGED vars
  <2>1. UNCHANGED <<file, made, emitting, lock, returned>> /\ reading' = reading
    BY <1>5 DEF vars
  <2>2. CASE Readers = {}
    <3>1. Types'
      BY <1>1, <2>1, Shapes, TypesNext DEF Inv
    <3>2. FileSound'
      BY <1>1, <2>1, Shapes, FileKept DEF Inv
    <3>3. \A w \in Writers : WriterSound(w)'
      BY <1>1, <2>1 DEF Inv, WriterSound, Idle, NoRecord
    <3>4. LockIsReleased'
      BY <1>1, <2>1 DEF Inv, LockIsReleased, Processes
    <3>5. QED BY <2>2, <3>1, <3>2, <3>3, <3>4 DEF Inv
  <2>3. ASSUME NEW r \in Readers PROVE Inv'
    <3>1. ReaderSound(r)
      BY <1>1 DEF Inv
    <3>2. Found(r)'
      BY <2>1, <3>1 DEF ReaderSound, Found, EndsAt, EndsLine
    <3>3. NoneMissed(r)'
      BY <2>1, <3>1 DEF ReaderSound, NoneMissed, EndsEntry, Parses, EndsLine
    <3>4. ReaderSound(r)'
      BY <2>1, <3>1, <3>2, <3>3 DEF ReaderSound, EndsLine
    <3>5. QED BY <1>1, <2>1, <3>4, ReaderStep, Shapes DEF Inv
  <2>4. QED BY <2>2, <2>3
<1>6. QED BY <1>1, <1>2, <1>3, <1>4, <1>5 DEF Next

(* The invariant holds. *)
THEOREM LogInvariant == Spec => []Inv
BY InitInv, NextInv, PTL DEF Spec

(* The variables of the event log have their types. *)
THEOREM LogType == Spec => []TypeOK
<1>1. Inv => TypeOK
  BY Zenon DEF Inv, Types
<1>2. QED BY <1>1, LogInvariant, PTL

(* Whatever raises or dies in emit, the lock of the process is held only   *)
(* by an emit that goes on.                                                *)
THEOREM LocksAreReleased == Spec => []LockIsReleased
<1>1. Inv => LockIsReleased
  BY DEF Inv
<1>2. QED BY <1>1, LogInvariant, PTL

(* A read that has ended has found everything of its thread that was in    *)
(* the log when it began.                                                  *)
THEOREM CompleteReads == Spec => []ReadsAreComplete
<1>1. ASSUME Inv, NEW r \in Readers, reading[r].pc = "done", NEW i \in DOMAIN file,
             EndsEntry(i), i <= reading[r].since, file[i].record.thread = reading[r].thread
      PROVE  \E k \in DOMAIN reading[r].events : reading[r].events[k] = file[i].record
  <2>1. /\ reading[r].at \in Nat /\ reading[r].since \in Nat /\ i \in Nat
    BY <1>1, Shapes DEF Inv, ReaderStates
  <2>2. NoneMissed(r) /\ reading[r].at >= reading[r].since
    BY <1>1 DEF Inv, ReaderSound
  <2>3. i <= reading[r].at
    BY <1>1, <2>1, <2>2
  <2>4. QED BY <1>1, <2>2, <2>3 DEF NoneMissed
<1>2. Inv => ReadsAreComplete
  BY <1>1 DEF ReadsAreComplete
<1>3. QED BY <1>2, LogInvariant, PTL

(* What a read has found is of its thread, whole, and in the order of the  *)
(* file, each record once.                                                 *)
THEOREM FaithfulReads == Spec => []ReadsAreFaithful
<1>1. ASSUME Inv, NEW r \in Readers, NEW k \in DOMAIN reading[r].events
      PROVE  /\ reading[r].events[k].thread = reading[r].thread
             /\ \E i \in DOMAIN file :
                  file[i].record = reading[r].events[k] /\ EndsLine(file[i])
             /\ \A l \in 1 .. k - 1 : EndOf(reading[r].events[l]) < EndOf(reading[r].events[k])
  <2> DEFINE events == reading[r].events
  <2>1. \A m \in DOMAIN events :
          /\ events[m].thread = reading[r].thread
          /\ \E i \in DOMAIN file : i <= reading[r].at /\ EndsAt(events[m], i)
          /\ \A l \in DOMAIN events : l < m =>
               \A i, j \in DOMAIN file :
                 EndsAt(events[l], i) /\ EndsAt(events[m], j) => i < j
    BY <1>1 DEF Inv, ReaderSound, Found
  <2>2. events \in Seq(Records)
    BY <1>1, Shapes DEF Inv, ReaderStates
  <2>3. k \in DOMAIN events
    BY <1>1
  <2> HIDE DEF events
  <2>4. \A m \in DOMAIN events :
          EndOf(events[m]) \in DOMAIN file /\ EndsAt(events[m], EndOf(events[m]))
    BY <2>1 DEF EndOf, EndsAt
  <2>5. ASSUME NEW l \in 1 .. k - 1 PROVE EndOf(events[l]) < EndOf(events[k])
    <3>1. l \in DOMAIN events /\ l < k
      BY <2>2, <2>3
    <3>2. QED BY <2>1, <2>3, <2>4, <3>1
  <2>6. QED BY <2>1, <2>3, <2>5 DEF EndsAt, events
<1>2. Inv => ReadsAreFaithful
  BY <1>1 DEF ReadsAreFaithful
<1>3. QED BY <1>2, LogInvariant, PTL
(* The first part of a record is before its end. *)
LEMMA FirstIsBefore ==
  ASSUME Inv, NEW j \in DOMAIN file, file[j].part = "first",
         NEW m \in DOMAIN file, EndsAt(file[j].record, m)
  PROVE  j < m
<1>1. file[m].part \in {"whole", "rest"} /\ file[m].record = file[j].record
  <2>1. file[m] \in Segments
    BY Shapes DEF Inv
  <2>2. QED BY <2>1 DEF Segments, EndsAt, EndsLine
<1>2. CASE file[m].part = "whole"
  <2>1. m = j
    BY <1>1, <1>2 DEF Inv, FileSound
  <2>2. QED BY <1>2, <2>1
<1>3. CASE file[m].part = "rest"
  <2>1. PICK k \in DOMAIN file :
          k < m /\ file[k].record = file[m].record /\ file[k].part = "first"
    BY <1>3 DEF Inv, FileSound
  <2>2. EndsLine(file[k]) = EndsLine(file[j])
    BY <2>1 DEF EndsLine
  <2>3. k = j
    BY <1>1, <2>1, <2>2 DEF Inv, FileSound
  <2>4. QED BY <2>1, <2>3
<1>4. QED BY <1>1, <1>2, <1>3

(* The neighbour that e was lost to. *)
Neighbour(e, i, j) ==
  LET f == file[j].record IN
  /\ file[i].record = e /\ f # e /\ SameLine(i, j)
  /\ Split(e) \/ Split(f)
  /\ ProcessOf[f.by] # ProcessOf[e.by] \/ f \notin returned

(* A record that is whole, and not an entry, follows a first part. *)
LEMMA WholeLost ==
  ASSUME Inv, NEW i \in DOMAIN file, file[i].part = "whole", ~EndsEntry(i)
  PROVE  \E j \in DOMAIN file : Neighbour(file[i].record, i, j)
<1> DEFINE j == i - 1
           f == file[j].record
           e == file[i].record
<1>1. Len(file) \in Nat /\ DOMAIN file = 1 .. Len(file) /\ i \in Nat /\ j \in Nat /\ i = j + 1
  BY Shapes DEF Inv
<1>2. Parses(j, i)
  BY <1>1 DEF Parses
<1>3. j # 0 /\ ~EndsLine(file[j])
  BY <1>1, <1>2 DEF EndsEntry
<1>4. j \in DOMAIN file /\ file[j].part = "first"
  BY <1>1, <1>3 DEF EndsLine
<1>5. f # e
  BY <1>1, <1>4 DEF Inv, FileSound
<1>6. SameLine(i, j)
  BY <1>1, <1>3 DEF SameLine
<1>7. Split(f)
  <2>1. file[j] \in Segments
    BY <1>4, Shapes DEF Inv
  <2>2. file[j] = [record |-> f, part |-> "first"]
    BY <1>4, <2>1 DEF Segments
  <2>3. QED BY <1>4, <2>2 DEF Split
<1>8. ASSUME ProcessOf[f.by] = ProcessOf[e.by], f \in returned PROVE FALSE
  <2>1. PICK m \in DOMAIN file : EndsAt(f, m)
    BY <1>8 DEF Inv, FileSound
  <2>2. j < m
    BY <1>4, <2>1, FirstIsBefore
  <2>3. m # i /\ file[m].record = f
    BY <1>5, <2>1 DEF EndsAt
  <2>4. j < i /\ i < m
    BY <1>1, <2>2, <2>3
  <2>5. QED BY <1>4, <1>8, <2>3, <2>4 DEF Inv, FileSound
<1>9. QED BY <1>4, <1>5, <1>6, <1>7, <1>8 DEF Neighbour

(* A record that was split, and is not an entry, has a neighbour before or *)
(* between its parts.                                                      *)
LEMMA SplitLost ==
  ASSUME Inv, NEW i \in DOMAIN file, file[i].part = "rest", ~EndsEntry(i)
  PROVE  \E h, j \in DOMAIN file : Neighbour(file[i].record, h, j)
<1> DEFINE e == file[i].record
<1>1. Len(file) \in Nat /\ DOMAIN file = 1 .. Len(file) /\ i \in Nat
  BY Shapes DEF Inv
<1>2. PICK h \in DOMAIN file : h < i /\ file[h].record = e /\ file[h].part = "first"
  BY DEF Inv, FileSound
<1>3. h \in Nat /\ ~EndsLine(file[h])
  BY <1>1, <1>2 DEF EndsLine
<1>4. Split(e)
  <2>1. file[h] \in Segments
    BY Shapes DEF Inv
  <2>2. file[h] = [record |-> e, part |-> "first"]
    BY <1>2, <2>1 DEF Segments
  <2>3. QED BY <2>2 DEF Split
<1>5. CASE i = h + 1
  <2> DEFINE j == h - 1
             f == file[j].record
  <2>1. j \in Nat /\ j = i - 2 /\ h = j + 1 /\ i = j + 2
    BY <1>1, <1>3, <1>5
  <2>2. Parses(j, i)
    BY <1>2, <2>1 DEF Parses
  <2>3. j # 0 /\ ~EndsLine(file[j])
    BY <2>1, <2>2 DEF EndsEntry
  <2>4. j \in DOMAIN file /\ file[j].part = "first"
    BY <1>1, <2>1, <2>3 DEF EndsLine
  <2>5. f # e
    <3>1. EndsLine(file[j]) = EndsLine(file[h])
      BY <1>2, <2>4 DEF EndsLine
    <3>2. j # h
      BY <2>1
    <3>3. QED BY <1>2, <2>4, <3>1, <3>2 DEF Inv, FileSound
  <2>6. SameLine(i, j)
    <3>1. \A k \in j .. i - 1 : k = j \/ k = h
      BY <1>1, <2>1
    <3>2. ~(i < j)
      BY <1>1, <2>1
    <3>3. QED BY <1>3, <2>3, <3>1, <3>2 DEF SameLine
  <2>7. ASSUME ProcessOf[f.by] = ProcessOf[e.by], f \in returned PROVE FALSE
    <3>1. PICK m \in DOMAIN file : EndsAt(f, m)
      BY <2>7 DEF Inv, FileSound
    <3>2. j < m
      BY <2>4, <3>1, FirstIsBefore
    <3>3. m # h /\ file[m].record = f
      BY <1>2, <2>5, <3>1 DEF EndsAt
    <3>4. j < h /\ h < m
      BY <1>1, <2>1, <3>2, <3>3
    <3>5. QED BY <1>2, <2>4, <2>7, <3>3, <3>4 DEF Inv, FileSound
  <2>8. QED BY <1>4, <2>4, <2>5, <2>6, <2>7 DEF Neighbour
<1>6. CASE i # h + 1
  <2> DEFINE j == h + 1
             f == file[j].record
  <2>1. j \in DOMAIN file /\ h < j /\ j < i
    BY <1>1, <1>2, <1>3, <1>6
  <2>2. ProcessOf[f.by] # ProcessOf[e.by]
    BY <1>2, <2>1 DEF Inv, FileSound
  <2>3. SameLine(h, j)
    BY <1>1, <1>3, <2>1 DEF SameLine
  <2>4. QED BY <1>2, <1>4, <2>1, <2>2, <2>3 DEF Neighbour
<1>7. QED BY <1>5, <1>6

(* An event that emit has returned, and that no read will ever find, was   *)
(* lost to a neighbour in its line, of another process or unfinished.      *)
THEOREM LossesAreExplained == Spec => []LossIsExplained
<1>1. ASSUME Inv, NEW e \in returned
      PROVE  \/ \E i \in DOMAIN file : EndsEntry(i) /\ file[i].record = e
             \/ \E i, j \in DOMAIN file : Neighbour(e, i, j)
  <2>1. PICK i \in DOMAIN file : EndsAt(e, i)
    BY <1>1 DEF Inv, FileSound
  <2>2. file[i].part \in {"whole", "rest"} /\ file[i].record = e
    <3>1. file[i] \in Segments
      BY <1>1, Shapes DEF Inv
    <3>2. QED BY <2>1, <3>1 DEF Segments, EndsAt, EndsLine
  <2>3. QED BY <1>1, <2>2, WholeLost, SplitLost
<1>2. Inv => LossIsExplained
  BY <1>1 DEF LossIsExplained, Neighbour
<1>3. QED BY <1>2, LogInvariant, PTL

-----------------------------------------------------------------------------
(* The refinement: the entries, counted from the beginning of the file.    *)

(* Every position of a finite set has a rank of its own, and every rank a  *)
(* position.                                                               *)
LEMMA RanksAreTaken ==
  ASSUME NEW S \in SUBSET Nat, IsFiniteSet(S)
  PROVE  /\ Cardinality(S) \in Nat
         /\ \A i \in S : Rank(S, i) \in 1 .. Cardinality(S)
         /\ \A i, j \in S : Rank(S, i) = Rank(S, j) => i = j
         /\ \A k \in 1 .. Cardinality(S) : \E i \in S : Rank(S, i) = k
<1> DEFINE n == Cardinality(S)
           upTo(i) == {j \in S : j <= i}
           rank == [i \in S |-> Rank(S, i)]
<1>1. n \in Nat /\ Cardinality(1 .. n) = n /\ IsFiniteSet(1 .. n)
  BY FS_CardinalityType, FS_Interval
<1>2. ASSUME NEW i \in S PROVE Rank(S, i) \in 1 .. n
  <2>1. upTo(i) \in SUBSET S /\ IsFiniteSet(upTo(i)) /\ Cardinality(upTo(i)) <= n
    BY FS_Subset
  <2>2. Cardinality(upTo(i)) \in Nat
    BY <2>1, FS_CardinalityType
  <2>3. upTo(i) # {}
    OBVIOUS
  <2>4. Cardinality(upTo(i)) # 0
    BY <2>1, <2>3, FS_EmptySet
  <2> QED BY <1>1, <2>1, <2>2, <2>4 DEF Rank
<1>3. ASSUME NEW i \in S, NEW j \in S, i < j PROVE Rank(S, i) # Rank(S, j)
  <2>1. upTo(i) \in SUBSET upTo(j) /\ j \in upTo(j) /\ j \notin upTo(i)
    <3>1. S \subseteq Nat /\ i \in Nat /\ j \in Nat
      OBVIOUS
    <3>2. \A x \in S : x <= i => x <= j
      BY <1>3, <3>1
    <3>3. j <= j /\ ~(j <= i)
      BY <1>3, <3>1
    <3> QED BY <3>2, <3>3
  <2>2. IsFiniteSet(upTo(j))
    BY FS_Subset
  <2> QED BY <2>1, <2>2, FS_Subset DEF Rank
<1>4. ASSUME NEW i \in S, NEW j \in S, Rank(S, i) = Rank(S, j) PROVE i = j
  <2>1. i \in Nat /\ j \in Nat
    OBVIOUS
  <2> QED BY <1>3, <1>4, <2>1
<1>5. rank \in Injection(S, 1 .. n)
  BY <1>2, <1>4 DEF Injection, IsInjective
<1>6. rank \in Surjection(S, 1 .. n)
  BY <1>1, <1>5, FS_Injection
<1>7. \A k \in 1 .. n : \E i \in S : Rank(S, i) = k
  BY <1>6 DEF Surjection
<1> QED BY <1>1, <1>2, <1>4, <1>7

(* One more position, after all the others, is the last, and the others    *)
(* stay where they were.                                                   *)
LEMMA RanksStay ==
  ASSUME NEW n \in Nat, NEW S \in SUBSET (1 .. n)
  PROVE  LET T == S \cup {n + 1} IN
         /\ Cardinality(T) = Cardinality(S) + 1
         /\ \A k \in 1 .. Cardinality(S) : Nth(T, k) = Nth(S, k) /\ Nth(S, k) \in S
         /\ Nth(T, Cardinality(S) + 1) = n + 1
<1> DEFINE T == S \cup {n + 1}
<1>1. /\ S \subseteq Nat /\ n + 1 \notin S /\ T \subseteq Nat
      /\ \A i \in S : i <= n
      /\ n + 1 \in T /\ S \subseteq T /\ \A i \in T : i <= n + 1
  OBVIOUS
<1>2. IsFiniteSet(S)
  <2>1. IsFiniteSet(1 .. n)
    BY FS_Interval
  <2> QED BY <2>1, FS_Subset
<1>3. /\ IsFiniteSet(T) /\ Cardinality(T) = Cardinality(S) + 1
      /\ Cardinality(S) \in Nat
  BY <1>1, <1>2, FS_AddElement, FS_CardinalityType
<1>4. \A i \in S : Rank(T, i) = Rank(S, i)
  <2>1. \A i \in S : {j \in T : j <= i} = {j \in S : j <= i}
    BY <1>1
  <2> QED BY <2>1 DEF Rank
<1>5. Rank(T, n + 1) = Cardinality(S) + 1
  <2>1. {j \in T : j <= n + 1} = T
    BY <1>1
  <2> QED BY <1>3, <2>1 DEF Rank
<1> HIDE DEF T
<1>6. /\ \A i, j \in T : Rank(T, i) = Rank(T, j) => i = j
      /\ \A k \in 1 .. Cardinality(T) : Nth(T, k) \in T /\ Rank(T, Nth(T, k)) = k
  <2>1. T \in SUBSET Nat
    BY <1>1
  <2> QED BY <1>3, <2>1, RanksAreTaken DEF Nth
<1>7. \A k \in 1 .. Cardinality(S) : Nth(S, k) \in S /\ Rank(S, Nth(S, k)) = k
  <2>1. S \in SUBSET Nat
    BY <1>1
  <2> QED BY <1>2, <2>1, RanksAreTaken DEF Nth
<1>8. ASSUME NEW k \in 1 .. Cardinality(S) PROVE Nth(T, k) = Nth(S, k) /\ Nth(S, k) \in S
  <2>1. k \in 1 .. Cardinality(T)
    BY <1>3
  <2>2. Nth(S, k) \in T /\ Rank(T, Nth(S, k)) = k
    BY <1>1, <1>4, <1>7
  <2> QED BY <1>6, <1>7, <2>1, <2>2
<1>9. Nth(T, Cardinality(S) + 1) = n + 1
  <2>1. Cardinality(S) + 1 \in 1 .. Cardinality(T)
    BY <1>3
  <2> QED BY <1>1, <1>5, <1>6, <2>1
<1> QED BY <1>3, <1>8, <1>9 DEF T

(* Only a writer changes the file, by appending to it. *)
LEMMA FileGrows ==
  ASSUME Inv, [Next]_vars
  PROVE  file' = file \/ \E x \in Segments : file' = Append(file, x)
<1>1. ASSUME NEW w \in Writers, NEW part \in {"whole", "first", "rest"},
             emitting[w].pc \in {"write", "rest"}, file' = Add(emitting[w].record, part)
      PROVE  \E x \in Segments : file' = Append(file, x)
  <2>1. emitting[w].record \in Records
    BY <1>1, AddedTypes
  <2>2. [record |-> emitting[w].record, part |-> part] \in Segments
    BY <2>1 DEF Segments
  <2> QED BY <1>1, <2>2 DEF Add
<1>2. ASSUME NEW w \in Writers, Emit(w) \/ WriteFirst(w) \/ WriteLast(w) \/ Raise(w)
      PROVE  file' = file \/ \E x \in Segments : file' = Append(file, x)
  BY <1>1, <1>2 DEF Emit, WriteFirst, WriteLast, Raise, Remaining
<1>3. ASSUME NEW p \in Processes, Crash(p) PROVE file' = file
  BY <1>3 DEF Crash
<1>4. ASSUME NEW r \in Readers, Read(r) PROVE file' = file
  BY <1>4 DEF Read, StartRead, ReadLine, EndRead
<1>5. CASE UNCHANGED vars
  BY <1>5 DEF vars
<1> QED BY <1>2, <1>3, <1>4, <1>5 DEF Next

(* A position that ends an entry ends it for ever, and holds a record that *)
(* is not appended again.                                                  *)
LEMMA EndsStay ==
  ASSUME Inv, Inv', NEW x \in Segments, file' = Append(file, x)
  PROVE  /\ Ends' = Ends \/ Ends' = Ends \cup {Len(file) + 1}
         /\ \A i \in Ends : file'[i] = file[i]
         /\ Len(file) + 1 \in Ends' =>
              \A i \in Ends : file[i].record # file'[Len(file) + 1].record
<1>1. /\ Len(file) \in Nat /\ DOMAIN file = 1 .. Len(file)
      /\ DOMAIN file' = 1 .. Len(file) + 1
      /\ \A i \in 1 .. Len(file) : file'[i] = file[i]
  <2>1. file \in Seq(Segments)
    BY Shapes DEF Inv
  <2> QED BY <2>1, Appended
<1>2. \A i \in DOMAIN file : EndsEntry(i)' <=> EndsEntry(i)
  BY <1>1, EntryKept
<1>3. Ends' = Ends \/ Ends' = Ends \cup {Len(file) + 1}
  BY <1>1, <1>2 DEF Ends
<1>4. ASSUME NEW i \in Ends, Len(file) + 1 \in Ends'
      PROVE  file[i].record # file'[Len(file) + 1].record
  <2>1. i \in DOMAIN file' /\ Len(file) + 1 \in DOMAIN file' /\ i # Len(file) + 1
    BY <1>1 DEF Ends
  <2>2. EndsLine(file'[i]) /\ EndsLine(file'[Len(file) + 1])
    <3>1. \A k \in Ends' : EndsLine(file'[k])
      BY DEF Ends, EndsEntry, Parses, EndsLine
    <3>2. i \in Ends'
      BY <1>3
    <3> QED BY <1>4, <3>1, <3>2
  <2>3. \A k, j \in DOMAIN file' :
          file'[k].record = file'[j].record /\ EndsLine(file'[k]) = EndsLine(file'[j]) => k = j
    BY DEF Inv, FileSound
  <2>4. EndsLine(file'[i]) = EndsLine(file'[Len(file) + 1])
    BY <2>2 DEF EndsLine
  <2>5. file'[i].record # file'[Len(file) + 1].record
    BY <2>1, <2>3, <2>4
  <2> QED BY <1>1, <2>5 DEF Ends
<1> QED BY <1>1, <1>3, <1>4 DEF Ends

(* The entries are a sequence of records. *)
EntriesSound ==
  /\ Ends \in SUBSET (1 .. Len(file)) /\ Len(file) \in Nat
  /\ Cardinality(Ends) \in Nat
  /\ Entries \in Seq(Records) /\ Len(Entries) = Cardinality(Ends)

(* It is so of every reachable file. *)
LEMMA EntriesType == Inv => EntriesSound
<1> SUFFICES ASSUME Inv PROVE EntriesSound
  OBVIOUS
<1>1. Ends \in SUBSET (1 .. Len(file)) /\ Len(file) \in Nat /\ file \in Seq(Segments)
  BY Shapes DEF Inv, Ends
<1>2. IsFiniteSet(Ends) /\ Ends \in SUBSET Nat
  <2>1. IsFiniteSet(1 .. Len(file))
    BY <1>1, FS_Interval
  <2>2. IsFiniteSet(Ends)
    BY <1>1, <2>1, FS_Subset
  <2>3. 1 .. Len(file) \subseteq Nat
    BY <1>1
  <2> QED BY <1>1, <2>2, <2>3
<1>3. /\ Cardinality(Ends) \in Nat
      /\ \A k \in 1 .. Cardinality(Ends) : Nth(Ends, k) \in Ends
  BY <1>2, RanksAreTaken DEF Nth
<1>4. \A k \in 1 .. Cardinality(Ends) : file[Nth(Ends, k)].record \in Records
  <2>1. \A i \in 1 .. Len(file) : file[i] \in Segments
    BY <1>1
  <2>2. \A i \in Ends : file[i].record \in Records
    BY <1>1, <2>1 DEF Segments
  <2> QED BY <1>3, <2>2
<1>5. Entries \in [1 .. Cardinality(Ends) -> Records]
  BY <1>4 DEF Entries
<1>6. Entries \in Seq(Records) /\ Len(Entries) = Cardinality(Ends)
  BY <1>3, <1>5
<1> QED BY <1>1, <1>3, <1>6 DEF EntriesSound

(* A step adds at most one entry, at the end and unlike the others. *)
LEMMA StepRefines ==
  ASSUME Inv, Inv', [Next]_vars
  PROVE  Log!Next \/ Entries' = Entries
<1>1. CASE file' = file
  BY <1>1 DEF Entries, Ends, Nth, Rank, EndsEntry, Parses
<1>2. ASSUME NEW x \in Segments, file' = Append(file, x)
      PROVE  Log!Next \/ Entries' = Entries
  <2> DEFINE n == Cardinality(Ends)
             last == Len(file) + 1
  <2>1. /\ Ends' = Ends \/ Ends' = Ends \cup {last}
        /\ \A i \in Ends : file'[i] = file[i]
        /\ last \in Ends' => \A i \in Ends : file[i].record # file'[last].record
    BY <1>2, EndsStay
  <2>2. /\ Ends \in SUBSET (1 .. Len(file)) /\ Len(file) \in Nat /\ n \in Nat
        /\ Entries \in Seq(Records) /\ Len(Entries) = n
        /\ Entries' \in Seq(Records) /\ Len(Entries') = Cardinality(Ends')
    <3>1. EntriesSound /\ EntriesSound'
      BY EntriesType, PTL
    <3> QED BY <3>1 DEF EntriesSound
  <2>3. /\ Cardinality(Ends \cup {last}) = n + 1
        /\ \A k \in 1 .. n : Nth(Ends \cup {last}, k) = Nth(Ends, k) /\ Nth(Ends, k) \in Ends
        /\ Nth(Ends \cup {last}, n + 1) = last
    BY <2>2, RanksStay
  <2>4. CASE Ends' = Ends
    <3>1. \A k \in 1 .. n : file'[Nth(Ends, k)].record = file[Nth(Ends, k)].record
      BY <2>1, <2>3
    <3>2. Entries' = [k \in 1 .. n |-> file'[Nth(Ends, k)].record]
      BY <2>4 DEF Entries
    <3>3. Entries = [k \in 1 .. n |-> file[Nth(Ends, k)].record]
      BY DEF Entries
    <3> QED BY <3>1, <3>2, <3>3
  <2>5. CASE Ends' = Ends \cup {last}
    <3>1. Entries' = [k \in 1 .. n + 1 |-> file'[Nth(Ends \cup {last}, k)].record]
      BY <2>3, <2>5 DEF Entries
    <3>2. \A k \in 1 .. n : Entries'[k] = Entries[k] /\ Entries[k] # file'[last].record
      <4>1. \A k \in 1 .. n : Entries[k] = file[Nth(Ends, k)].record
        BY DEF Entries
      <4>2. \A k \in 1 .. n : Entries'[k] = file'[Nth(Ends \cup {last}, k)].record
        BY <2>2, <3>1
      <4>3. \A i \in Ends : file'[i] = file[i] /\ file[i].record # file'[last].record
        BY <2>1, <2>5
      <4>4. \A k \in 1 .. n : Nth(Ends \cup {last}, k) = Nth(Ends, k) /\ Nth(Ends, k) \in Ends
        BY <2>3
      <4> HIDE DEF n, last
      <4> QED BY <4>1, <4>2, <4>3, <4>4
    <3>3. Entries'[n + 1] = file'[last].record
      BY <2>2, <2>3, <3>1
    <3>4. Len(Entries') = n + 1
      BY <2>2, <2>3, <2>5
    <3>5. DOMAIN Entries = 1 .. n
      BY DEF Entries
    <3> HIDE DEF n
    <3>6. SubSeq(Entries', 1, n) = Entries
      BY <2>2, <3>2, <3>4
    <3> QED BY <2>2, <3>2, <3>3, <3>4, <3>5, <3>6 DEF Log!Next
  <2> QED BY <2>1, <2>4, <2>5
<1> QED BY <1>1, <1>2, FileGrows

(* The log file implements an append-only log: whoever dies or tears a     *)
(* line while others append, what could be read once can be read for ever, *)
(* in the same place, and nothing is there twice.                          *)
THEOREM LogImplemented == Spec => LogKept
<1>1. Init => Log!Init
  <2>1. SUFFICES ASSUME Init PROVE Entries = <<>>
    BY DEF Log!Init
  <2>2. Ends = {}
    <3>1. file = <<>>
      BY <2>1 DEF Init
    <3>2. DOMAIN file = 1 .. Len(file)
      BY <2>1, InitInv, Shapes DEF Inv
    <3> QED BY <3>1, <3>2 DEF Ends
  <2>3. Cardinality(Ends) = 0
    BY <2>2, FS_EmptySet
  <2> QED BY <2>3 DEF Entries
<1>2. Inv /\ Inv' /\ [Next]_vars => [Log!Next]_Entries
  BY StepRefines
<1> QED BY <1>1, <1>2, LogInvariant, PTL DEF Spec, LogKept, Log!Spec
=============================================================================
