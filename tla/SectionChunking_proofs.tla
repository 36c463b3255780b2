----------------------- MODULE SectionChunking_proofs -----------------------
(***************************************************************************)
(* For every body, maximum and overlap: the pieces lose nothing and fit;   *)
(* and, if the overlap is at most half of the maximum, a cut shortens its  *)
(* part, and the pieces are in the order of the text.                      *)
(*                                                                         *)
(* NothingLost is not inductive by itself.  One must know that current     *)
(* reaches to the last paragraph read, and that a part begins and ends     *)
(* with ink, so that what is stripped around a cut is blank.               *)
(***************************************************************************)
EXTENDS SectionChunking, TLAPS

(* first .. last holds text, and has no blanks around it. *)
Inked(interval) ==
  /\ interval[1] <= interval[2]
  /\ body[interval[1]] = "ink" /\ body[interval[2]] = "ink"

Inv ==
  /\ TypeOK
  /\ phase = "pack" => final = <<>>
  /\ read = 0 => from = 1 /\ parts = <<>>
  /\ read # 0 => Inked(<<from, read>>)
  /\ \A k \in DOMAIN parts : Inked(parts[k])
  /\ PiecesFit
  /\ NothingLost

(* A body, its ink at both ends and around its breaks. *)
LEMMA BodyType ==
  ASSUME TypeOK
  PROVE  /\ N \in Nat /\ N > 0
         /\ body \in [1 .. N -> Kinds]
         /\ body[1] = "ink" /\ body[N] = "ink"
         /\ \A i \in 1 .. N : Break(body, i) => i + 1 \in 1 .. N /\ body[i - 1] = "ink"
<1>1. body \in Seq(Kinds) /\ NormalForm(body) /\ N = Len(body)
  BY DEF TypeOK, N
<1>2. /\ N \in Nat /\ DOMAIN body = 1 .. N /\ body \in [1 .. N -> Kinds]
      /\ N > 0 /\ body[1] = "ink" /\ body[N] = "ink"
  BY <1>1 DEF NormalForm
<1>3. ASSUME NEW i \in 1 .. N, Break(body, i) PROVE i + 1 \in 1 .. N /\ body[i - 1] = "ink"
  BY <1>1, <1>2, <1>3 DEF NormalForm, Break
<1>4. QED BY <1>2, <1>3

(* What is placed stays placed, when parts and pieces are only added. *)
LEMMA AddsKeepPlaced ==
  ASSUME NEW i,
         \A k \in DOMAIN parts : k \in DOMAIN parts' /\ parts'[k] = parts[k],
         \A k \in DOMAIN final : k \in DOMAIN final' /\ final'[k] = final[k],
         Placed(i)
  PROVE  Placed(i)'
BY DEF Placed

(* A sequence with one more element at its end. *)
LEMMA LastAdded ==
  ASSUME NEW S, NEW s \in Seq(S), NEW x \in S
  PROVE  /\ Append(s, x) \in Seq(S)
         /\ DOMAIN Append(s, x) = DOMAIN s \cup {Len(s) + 1}
         /\ Append(s, x)[Len(s) + 1] = x
         /\ \A k \in DOMAIN s : Append(s, x)[k] = s[k]
OBVIOUS

(* A sequence without its first element. *)
LEMMA FirstTaken ==
  ASSUME NEW S, NEW s \in Seq(S), s # <<>>
  PROVE  /\ Tail(s) \in Seq(S) /\ Len(Tail(s)) = Len(s) - 1
         /\ \A k \in DOMAIN Tail(s) : k + 1 \in DOMAIN s /\ Tail(s)[k] = s[k + 1]
         /\ \A k \in DOMAIN s : k # 1 => k - 1 \in DOMAIN Tail(s) /\ Tail(s)[k - 1] = s[k]
<1>1. /\ Tail(s) \in Seq(S) /\ Len(Tail(s)) = Len(s) - 1 /\ Len(s) \in Nat
      /\ DOMAIN s = 1 .. Len(s) /\ DOMAIN Tail(s) = 1 .. Len(s) - 1
  OBVIOUS
<1>2. ASSUME NEW k \in DOMAIN Tail(s)
      PROVE  k + 1 \in DOMAIN s /\ Tail(s)[k] = s[k + 1]
  BY <1>1
<1>3. ASSUME NEW k \in DOMAIN s, k # 1
      PROVE  k - 1 \in DOMAIN Tail(s) /\ Tail(s)[k - 1] = s[k]
  <2>1. k - 1 \in DOMAIN Tail(s) /\ (k - 1) + 1 = k
    BY <1>1, <1>3
  <2>2. QED BY <1>2, <2>1
<1>4. QED BY <1>1, <1>2, <1>3

(* A paragraph that is read ends with ink. *)
LEMMA ParagraphEnds ==
  ASSUME TypeOK, NEW first \in 1 .. N, NEW last \in 1 .. N, Paragraph(first, last)
  PROVE  body[last] = "ink" /\ first <= last
<1>1. last = N \/ Break(body, last + 1)
  BY DEF Paragraph
<1>2. CASE last = N
  BY <1>2, BodyType DEF Paragraph
<1>3. CASE last # N
  <2>1. last + 1 \in 1 .. N /\ Break(body, last + 1)
    BY <1>1, <1>3, BodyType
  <2>2. body[(last + 1) - 1] = "ink"
    BY <2>1, BodyType
  <2>3. QED BY <2>2, BodyType DEF Paragraph
<1>4. QED BY <1>2, <1>3

-----------------------------------------------------------------------------
(* The invariant holds before the function begins. *)
LEMMA InitInv == Init => Inv
<1>1. SUFFICES ASSUME Init PROVE Inv
  OBVIOUS
<1>2. body \in Seq(Kinds) /\ NormalForm(body)
  BY <1>1, ChunkingAssumption DEF Init
<1>3. TypeOK
  <2>1. N \in Nat /\ N > 0
    BY <1>2 DEF NormalForm, N
  <2>2. QED BY <1>1, <1>2, <2>1 DEF Init, TypeOK
<1>4. PiecesFit /\ NothingLost
  BY <1>1 DEF Init, PiecesFit, NothingLost
<1>5. QED BY <1>1, <1>3, <1>4 DEF Init, Inv

(* A body that fits is its own piece. *)
LEMMA WholeInv ==
  ASSUME Inv, Whole
  PROVE  Inv'
<1> DEFINE x == <<1, N>>
<1>1. /\ TypeOK /\ N \in Nat /\ N > 0 /\ N <= MaxChars /\ body[1] = "ink" /\ body[N] = "ink"
      /\ final' = <<x>> /\ UNCHANGED <<body, read, from, parts>> /\ phase' = "done"
  BY BodyType, ChunkingAssumption DEF Inv, Whole, Long
<1>2. x \in Intervals /\ x[1] = 1 /\ x[2] = N
  BY <1>1 DEF Intervals
<1> HIDE DEF x
<1>3. /\ DOMAIN final' = {1} /\ final'[1] = x /\ final' \in Seq(Intervals)
      /\ N' = N /\ Intervals' = Intervals
  BY <1>1, <1>2 DEF N, Intervals
<1>4. TypeOK'
  BY <1>1, <1>3 DEF TypeOK
<1>5. PiecesFit'
  BY <1>1, <1>2, <1>3 DEF PiecesFit
<1>6. NothingLost'
  BY <1>1, <1>2, <1>3 DEF NothingLost, Placed
<1>7. QED BY <1>1, <1>4, <1>5, <1>6 DEF Inv, Inked

(* A paragraph joins the part being packed. *)
LEMMA PackInv ==
  ASSUME Inv, NEW first \in 1 .. N, NEW last \in 1 .. N, Pack(first, last)
  PROVE  Inv'
<1>1. /\ TypeOK /\ N \in Nat /\ phase = "pack" /\ Paragraph(first, last)
      /\ read' = last /\ UNCHANGED <<body, phase, from, parts, final>>
  BY BodyType DEF Inv, Pack
<1>2. N' = N /\ Intervals' = Intervals
  BY <1>1 DEF N, Intervals
<1>3. TypeOK'
  BY <1>1, <1>2 DEF TypeOK
<1>4. body[last] = "ink" /\ first <= last
  BY <1>1, ParagraphEnds
<1>5. Inked(<<from, last>>)
  <2>1. CASE read = 0
    BY <1>1, <1>4, <2>1, BodyType DEF Inv, Inked
  <2>2. CASE read # 0
    BY <1>1, <1>4, <2>2 DEF Inv, Inked, Paragraph, TypeOK
  <2>3. QED BY <2>1, <2>2
<1>6. PiecesFit' /\ NothingLost'
  BY <1>1, <1>2 DEF Inv, PiecesFit, NothingLost, Placed
<1>7. QED BY <1>1, <1>3, <1>5, <1>6 DEF Inv, Inked

(* What is stripped from start on is blank, and ends where there is ink. *)
LEMMA StrippedIsBlank ==
  ASSUME NEW n \in Nat, NEW start \in Int, NEW s \in 1 .. n, NEW i \in 1 .. n,
         Stripped(start, s), body[i] = "ink", start <= i
  PROVE  s <= i
BY DEF Stripped

(* The part is set aside; what its tail repeats is placed already. *)
LEMMA FlushInv ==
  ASSUME Inv, NEW first \in 1 .. N, NEW last \in 1 .. N, Flush(first, last)
  PROVE  Inv'
<1> DEFINE x == <<from, read>>
           start == IF read + 1 - Overlap > from THEN read + 1 - Overlap ELSE from
<1>1. /\ TypeOK /\ N \in Nat /\ phase = "pack" /\ Paragraph(first, last) /\ read # 0
      /\ parts' = Append(parts, x) /\ read' = last /\ UNCHANGED <<body, phase, final>>
      /\ Stripped(start, from') /\ from' \in 1 .. N
      /\ from \in 1 .. N /\ read \in 1 .. N /\ Overlap \in Nat
  BY BodyType, ChunkingAssumption DEF Inv, Flush, TypeOK
<1>2. N' = N /\ Intervals' = Intervals
  BY <1>1 DEF N, Intervals
<1>3. x \in Intervals /\ x[1] = from /\ x[2] = read /\ Inked(x)
  BY <1>1 DEF Inv, Intervals
<1>4. start \in Int /\ from <= start /\ start <= read + 1
  BY <1>1, <1>3 DEF Inked
<1>5. /\ start <= from' /\ body[from'] = "ink"
      /\ \A j \in start .. from' - 1 : body[j] # "ink"
  BY <1>1 DEF Stripped
<1>6. body[last] = "ink" /\ first = read + 3 /\ first <= last
  BY <1>1, ParagraphEnds DEF Paragraph
<1> HIDE DEF x, start
<1>7. from' <= last
  BY <1>1, <1>4, <1>6, StrippedIsBlank
<1>8. /\ parts' \in Seq(Intervals) /\ DOMAIN parts' = DOMAIN parts \cup {Len(parts) + 1}
      /\ parts'[Len(parts) + 1] = x /\ \A k \in DOMAIN parts : parts'[k] = parts[k]
  BY <1>1, <1>3, LastAdded DEF TypeOK
<1>9. TypeOK'
  BY <1>1, <1>2, <1>8 DEF TypeOK
<1>10. Inked(<<from, read>>)'
  BY <1>1, <1>5, <1>6, <1>7 DEF Inked
<1>11. (\A k \in DOMAIN parts : Inked(parts[k]))'
  BY <1>1, <1>3, <1>8 DEF Inv, Inked
<1>12. PiecesFit'
  BY <1>1, <1>2 DEF Inv, PiecesFit
<1>13. NothingLost'
  <2>1. SUFFICES ASSUME NEW i \in 1 .. N, body[i] = "ink", i < from' PROVE Placed(i)'
    BY <1>1, <1>2 DEF NothingLost
  <2>2. CASE i < from
    <3>1. Placed(i)
      BY <2>1, <2>2 DEF Inv, NothingLost
    <3>2. QED BY <1>1, <1>8, <3>1, AddsKeepPlaced
  <2>3. CASE from <= i
    <3>1. i < start
      BY <1>1, <1>4, <2>1, StrippedIsBlank
    <3>2. x[1] <= i /\ i <= x[2]
      BY <1>1, <1>3, <1>4, <2>3, <3>1
    <3>3. QED BY <1>8, <3>2 DEF Placed
  <2>4. QED BY <1>1, <2>1, <2>2, <2>3
<1>14. QED BY <1>1, <1>9, <1>10, <1>11, <1>12, <1>13 DEF Inv

(* The last part is set aside. *)
LEMMA LastPartInv ==
  ASSUME Inv, LastPart
  PROVE  Inv'
<1> DEFINE x == <<from, read>>
<1>1. /\ TypeOK /\ N \in Nat /\ N > 0 /\ read = N /\ phase = "pack" /\ phase' = "cut"
      /\ parts' = Append(parts, x) /\ UNCHANGED <<body, read, from, final>>
      /\ from \in 1 .. N
  BY BodyType DEF Inv, LastPart, TypeOK
<1>2. N' = N /\ Intervals' = Intervals
  BY <1>1 DEF N, Intervals
<1>3. x \in Intervals /\ x[1] = from /\ x[2] = N /\ Inked(x)
  BY <1>1 DEF Inv, Intervals
<1> HIDE DEF x
<1>4. /\ parts' \in Seq(Intervals) /\ DOMAIN parts' = DOMAIN parts \cup {Len(parts) + 1}
      /\ parts'[Len(parts) + 1] = x /\ \A k \in DOMAIN parts : parts'[k] = parts[k]
      /\ parts' # <<>>
  BY <1>1, <1>3, LastAdded DEF TypeOK
<1>5. TypeOK'
  BY <1>1, <1>2, <1>4 DEF TypeOK
<1>6. (\A k \in DOMAIN parts : Inked(parts[k]))'
  BY <1>1, <1>3, <1>4 DEF Inv, Inked
<1>7. PiecesFit'
  BY <1>1, <1>2 DEF Inv, PiecesFit
<1>8. NothingLost'
  <2>1. SUFFICES ASSUME NEW i \in 1 .. N, body[i] = "ink" PROVE Placed(i)'
    BY <1>1, <1>2 DEF NothingLost
  <2>2. CASE i < from
    <3>1. Placed(i)
      BY <2>1, <2>2 DEF Inv, NothingLost
    <3>2. QED BY <1>1, <1>4, <3>1, AddsKeepPlaced
  <2>3. CASE from <= i
    BY <1>3, <1>4, <2>3 DEF Placed
  <2>4. QED BY <1>1, <2>1, <2>2, <2>3
<1>9. QED BY <1>1, <1>5, <1>6, <1>7, <1>8 DEF Inv, Inked
(* What a cut does with the first part. *)
LEMMA CutStep ==
  ASSUME Inv, Cut
  PROVE  \E h \in 1 .. N, s \in 1 .. N :
           LET lo == parts[1][1]
               hi == parts[1][2]
           IN  /\ final' = Append(final, <<lo, h>>)
               /\ parts' = [parts EXCEPT ![1] = <<s, hi>>]
               /\ body[h] = "ink" /\ lo <= h /\ h - lo + 1 <= MaxChars
               /\ body[s] = "ink" /\ s <= hi
               /\ 2 * Overlap <= MaxChars => lo < s
               /\ \A i \in 1 .. N : body[i] = "ink" /\ lo <= i /\ i < s => i <= h
<1> DEFINE lo == parts[1][1]
           hi == parts[1][2]
<1>1. /\ TypeOK /\ N \in Nat /\ parts \in Seq(Intervals) /\ parts # <<>>
      /\ MaxChars \in Nat \ {0} /\ Overlap \in Nat
  BY BodyType, ChunkingAssumption DEF Inv, TypeOK, Cut
<1>2. 1 \in DOMAIN parts /\ parts[1] \in Intervals /\ Inked(parts[1])
  BY <1>1 DEF Inv
<1>3. lo \in 1 .. N /\ hi \in 1 .. N /\ body[lo] = "ink" /\ body[hi] = "ink"
  BY <1>2 DEF Intervals, Inked
<1>4. PICK cut \in 1 .. MaxChars, h \in 1 .. N, s \in 1 .. N :
        /\ IsCut(lo, cut)
        /\ Trimmed(lo + cut - 1, h)
        /\ final' = Append(final, <<lo, h>>)
        /\ Stripped(IF cut > Overlap THEN lo + cut - Overlap ELSE lo, s)
        /\ parts' = [parts EXCEPT ![1] = <<s, hi>>]
  BY DEF Cut
<1>5. hi - lo + 1 > MaxChars
  BY DEF Cut
<1> DEFINE start == IF cut > Overlap THEN lo + cut - Overlap ELSE lo
<1>6. start \in Int /\ lo <= start /\ start <= lo + cut
  BY <1>1, <1>3
<1>7. 2 * Overlap <= MaxChars => lo < start
  <2>1. SUFFICES ASSUME 2 * Overlap <= MaxChars PROVE cut > Overlap
    BY <1>1, <1>3
  <2>2. cut > MaxChars \div 2
    BY <1>1, <1>4 DEF IsCut, CutPoint
  <2>3. QED BY <1>1, <2>1, <2>2
<1> HIDE DEF lo, hi, start
<1>8. body[s] = "ink" /\ start <= s /\ Stripped(start, s)
  BY <1>4 DEF Stripped, start
<1>9. s <= hi
  <2>1. start <= hi
    BY <1>1, <1>3, <1>5, <1>6
  <2>2. QED BY <1>1, <1>3, <1>6, <1>8, <2>1, StrippedIsBlank
<1>10. body[h] = "ink" /\ h <= lo + cut - 1 /\ \A j \in h + 1 .. lo + cut - 1 : body[j] # "ink"
  BY <1>4 DEF Trimmed
<1>11. lo <= h
  <2>1. SUFFICES ASSUME h < lo PROVE FALSE
    BY <1>1, <1>3
  <2>2. lo \in h + 1 .. lo + cut - 1
    BY <1>1, <1>3, <2>1
  <2>3. QED BY <1>3, <1>10, <2>2
<1>12. ASSUME NEW i \in 1 .. N, body[i] = "ink", lo <= i, i < s
       PROVE  i <= h
  <2>1. i < start
    BY <1>1, <1>6, <1>8, <1>12, StrippedIsBlank
  <2>2. i <= lo + cut - 1
    BY <1>1, <1>3, <1>6, <2>1
  <2>3. i \notin h + 1 .. lo + cut - 1
    BY <1>10, <1>12
  <2>4. QED BY <1>1, <1>3, <2>2, <2>3
<1>13. h - lo + 1 <= MaxChars
  BY <1>1, <1>3, <1>10
<1>14. 2 * Overlap <= MaxChars => lo < s
  BY <1>1, <1>3, <1>6, <1>7, <1>8
<1>15. /\ final' = Append(final, <<lo, h>>) /\ parts' = [parts EXCEPT ![1] = <<s, hi>>]
  BY <1>4
<1>16. QED BY <1>8, <1>9, <1>10, <1>11, <1>12, <1>13, <1>14, <1>15 DEF lo, hi

(* A cut leaves nothing out but blanks. *)
LEMMA CutInv ==
  ASSUME Inv, Cut
  PROVE  Inv'
<1> DEFINE lo == parts[1][1]
           hi == parts[1][2]
<1>1. /\ TypeOK /\ N \in Nat /\ parts \in Seq(Intervals) /\ parts # <<>> /\ MaxChars \in Nat
      /\ final \in Seq(Intervals) /\ phase = "cut" /\ UNCHANGED <<body, phase, read, from>>
  BY BodyType, ChunkingAssumption DEF Inv, TypeOK, Cut
<1>2. 1 \in DOMAIN parts /\ parts[1] \in Intervals /\ Inked(parts[1])
  BY <1>1 DEF Inv
<1>3. lo \in 1 .. N /\ hi \in 1 .. N /\ body[lo] = "ink" /\ body[hi] = "ink"
  BY <1>2 DEF Intervals, Inked
<1>4. PICK h \in 1 .. N, s \in 1 .. N :
           /\ final' = Append(final, <<lo, h>>)
           /\ parts' = [parts EXCEPT ![1] = <<s, hi>>]
           /\ body[h] = "ink" /\ lo <= h /\ h - lo + 1 <= MaxChars
           /\ body[s] = "ink" /\ s <= hi
           /\ \A i \in 1 .. N : body[i] = "ink" /\ lo <= i /\ i < s => i <= h
  BY CutStep
<1>5. N' = N /\ Intervals' = Intervals
  BY <1>1 DEF N, Intervals
<1> DEFINE x == <<lo, h>>
           y == <<s, hi>>
<1>6. x \in Intervals /\ y \in Intervals /\ x[1] = lo /\ x[2] = h /\ y[1] = s /\ y[2] = hi
  BY <1>3 DEF Intervals
<1> HIDE DEF lo, hi, x, y
<1>7. /\ final' \in Seq(Intervals) /\ DOMAIN final' = DOMAIN final \cup {Len(final) + 1}
      /\ final'[Len(final) + 1] = x /\ \A k \in DOMAIN final : final'[k] = final[k]
  BY <1>1, <1>4, <1>6, LastAdded DEF x
<1>8. /\ parts' \in Seq(Intervals) /\ DOMAIN parts' = DOMAIN parts /\ parts' # <<>>
      /\ parts'[1] = y /\ \A k \in DOMAIN parts : k # 1 => parts'[k] = parts[k]
  BY <1>1, <1>2, <1>4, <1>6 DEF y
<1>9. TypeOK'
  BY <1>1, <1>5, <1>7, <1>8 DEF TypeOK
<1>10. (\A k \in DOMAIN parts : Inked(parts[k]))'
  BY <1>1, <1>3, <1>4, <1>6, <1>8 DEF Inv, Inked
<1>11. PiecesFit'
  BY <1>1, <1>3, <1>4, <1>6, <1>7 DEF Inv, PiecesFit
<1>12. NothingLost'
  <2>1. SUFFICES ASSUME NEW i \in 1 .. N, body[i] = "ink" PROVE Placed(i)'
    BY <1>1, <1>5 DEF NothingLost
  <2>2. Placed(i)
    BY <1>1, <2>1 DEF Inv, NothingLost
  <2>3. CASE \E k \in DOMAIN final : final[k][1] <= i /\ i <= final[k][2]
    BY <1>7, <2>3 DEF Placed
  <2>4. CASE \E k \in DOMAIN parts : k # 1 /\ parts[k][1] <= i /\ i <= parts[k][2]
    BY <1>8, <2>4 DEF Placed
  <2>5. CASE lo <= i /\ i <= hi
    <3>1. CASE i < s
      <4>1. x[1] <= i /\ i <= x[2]
        BY <1>4, <1>6, <2>1, <2>5, <3>1
      <4>2. QED BY <1>7, <4>1 DEF Placed
    <3>2. CASE s <= i
      <4>1. y[1] <= i /\ i <= y[2]
        BY <1>6, <2>5, <3>2
      <4>2. QED BY <1>2, <1>8, <4>1 DEF Placed
    <3>3. QED BY <1>1, <3>1, <3>2
  <2>6. QED BY <2>2, <2>3, <2>4, <2>5 DEF Placed, lo, hi
<1>13. QED BY <1>1, <1>9, <1>10, <1>11, <1>12, <1>2, <1>8 DEF Inv, Inked

(* A part that fits becomes a piece. *)
LEMMA KeepInv ==
  ASSUME Inv, Keep
  PROVE  Inv'
<1> DEFINE x == parts[1]
<1>1. /\ TypeOK /\ N \in Nat /\ parts \in Seq(Intervals) /\ parts # <<>>
      /\ final \in Seq(Intervals) /\ phase = "cut" /\ UNCHANGED <<body, read, from>>
      /\ phase' \in {"cut", "done"} /\ (phase' = "cut" => Len(parts) # 1)
      /\ parts' = Tail(parts) /\ final' = Append(final, x)
      /\ x[2] - x[1] + 1 <= MaxChars
  BY BodyType DEF Inv, TypeOK, Keep
<1>2. 1 \in DOMAIN parts /\ x \in Intervals /\ Inked(x)
  BY <1>1 DEF Inv
<1>3. N' = N /\ Intervals' = Intervals
  BY <1>1 DEF N, Intervals
<1> HIDE DEF x
<1>4. /\ final' \in Seq(Intervals) /\ DOMAIN final' = DOMAIN final \cup {Len(final) + 1}
      /\ final'[Len(final) + 1] = x /\ \A k \in DOMAIN final : final'[k] = final[k]
  BY <1>1, <1>2, LastAdded
<1>5. /\ parts' \in Seq(Intervals) /\ Len(parts') = Len(parts) - 1
      /\ \A k \in DOMAIN parts' : k + 1 \in DOMAIN parts /\ parts'[k] = parts[k + 1]
      /\ \A k \in DOMAIN parts : k # 1 => k - 1 \in DOMAIN parts' /\ parts'[k - 1] = parts[k]
      /\ phase' = "cut" => parts' # <<>>
  <2>1. parts' = Tail(parts) /\ Len(parts) \in Nat /\ (phase' = "cut" => Len(parts) # 1)
    BY <1>1
  <2>2. phase' = "cut" => Len(Tail(parts)) # 0
    BY <1>1, <2>1, FirstTaken
  <2>3. phase' = "cut" => Tail(parts) # <<>>
    BY <2>2
  <2>4. /\ Tail(parts) \in Seq(Intervals) /\ Len(Tail(parts)) = Len(parts) - 1
        /\ \A k \in DOMAIN Tail(parts) : k + 1 \in DOMAIN parts /\ Tail(parts)[k] = parts[k + 1]
        /\ \A k \in DOMAIN parts :
             k # 1 => k - 1 \in DOMAIN Tail(parts) /\ Tail(parts)[k - 1] = parts[k]
    BY <1>1, FirstTaken
  <2>5. QED BY <2>1, <2>3, <2>4
<1>6. TypeOK'
  BY <1>1, <1>3, <1>4, <1>5 DEF TypeOK
<1>7. (\A k \in DOMAIN parts : Inked(parts[k]))'
  BY <1>1, <1>5 DEF Inv, Inked
<1>8. PiecesFit'
  BY <1>1, <1>2, <1>4 DEF Inv, PiecesFit, Inked
<1>9. NothingLost'
  <2>1. SUFFICES ASSUME NEW i \in 1 .. N, body[i] = "ink" PROVE Placed(i)'
    BY <1>1, <1>3 DEF NothingLost
  <2>2. Placed(i)
    BY <1>1, <2>1 DEF Inv, NothingLost
  <2>3. CASE \E k \in DOMAIN final : final[k][1] <= i /\ i <= final[k][2]
    BY <1>4, <2>3 DEF Placed
  <2>4. CASE x[1] <= i /\ i <= x[2]
    BY <1>4, <2>4 DEF Placed
  <2>5. ASSUME NEW k \in DOMAIN parts, k # 1, parts[k][1] <= i, i <= parts[k][2]
        PROVE  Placed(i)'
    BY <1>5, <2>5 DEF Placed
  <2>6. QED BY <2>2, <2>3, <2>4, <2>5 DEF Placed, x
<1>10. read # 0 => Inked(<<from, read>>)'
  BY <1>1 DEF Inv, Inked
<1>11. (read = 0 => from = 1 /\ parts = <<>>)'
  BY <1>1 DEF Inv
<1>12. QED BY <1>1, <1>6, <1>7, <1>8, <1>9, <1>10, <1>11 DEF Inv

(* Every step preserves the invariant. *)
LEMMA NextInv == Inv /\ [Next]_vars => Inv'
<1>1. SUFFICES ASSUME Inv, [Next]_vars PROVE Inv'
  OBVIOUS
<1>2. CASE UNCHANGED vars
  BY <1>1, <1>2 DEF vars, Inv, TypeOK, Intervals, N, Inked, PiecesFit, NothingLost, Placed
<1>3. CASE Next
  BY <1>1, <1>3, WholeInv, PackInv, FlushInv, LastPartInv, CutInv, KeepInv DEF Next
<1>4. QED BY <1>1, <1>2, <1>3

-----------------------------------------------------------------------------
(* The inductive invariant holds throughout. *)
THEOREM ChunkingInvariant == Spec => []Inv
<1>1. QED BY InitInv, NextInv, PTL DEF Spec

(* The variables keep their types, and a part is left while one is cut. *)
THEOREM ChunkingType == Spec => []TypeOK
<1>1. Inv => TypeOK
  BY DEF Inv
<1>2. QED BY <1>1, ChunkingInvariant, PTL

(* No character of a section is left out of its pieces, whatever the       *)
(* maximum and the overlap.                                                *)
THEOREM TextIsCovered == Spec => []NothingLost
<1>1. Inv => NothingLost
  BY DEF Inv
<1>2. QED BY <1>1, ChunkingInvariant, PTL

(* No piece is longer than the maximum. *)
THEOREM PiecesAreBounded == Spec => []PiecesFit
<1>1. Inv => PiecesFit
  BY DEF Inv
<1>2. QED BY <1>1, ChunkingInvariant, PTL

(* Every cut shortens its part, for every body, when the overlap is at     *)
(* most half of the maximum: the measure by which the second loop ends.    *)
THEOREM CutsMakeProgress == Spec => CutsShorten
<1>1. ASSUME Inv, [Next]_vars, 2 * Overlap <= MaxChars, phase = "cut", Len(parts') = Len(parts),
             ~UNCHANGED vars
      PROVE  parts'[1][1] > parts[1][1]
  <2>1. Cut \/ Keep
    BY <1>1 DEF Next, Whole, Pack, Flush, LastPart
  <2>2. /\ parts \in Seq(Intervals) /\ parts # <<>> /\ N \in Nat
        /\ parts[1] \in Intervals
    BY <1>1, BodyType DEF Inv, TypeOK
  <2>3. CASE Keep
    <3>1. Len(Tail(parts)) = Len(parts) - 1 /\ Len(parts) \in Nat
      BY <2>2
    <3>2. QED BY <1>1, <2>3, <3>1 DEF Keep
  <2>4. CASE Cut
    <3>1. PICK s \in 1 .. N : /\ parts' = [parts EXCEPT ![1] = <<s, parts[1][2]>>]
                              /\ parts[1][1] < s
      BY <1>1, <2>4, CutStep
    <3>2. parts'[1] = <<s, parts[1][2]>>
      BY <2>2, <3>1
    <3>3. parts'[1][1] = s
      BY <3>2
    <3>4. parts[1][1] \in 1 .. N
      BY <2>2 DEF Intervals
    <3>5. QED BY <2>2, <3>1, <3>3, <3>4
  <2>5. QED BY <2>1, <2>3, <2>4
<1>2. Inv /\ [Next]_vars =>
        [2 * Overlap <= MaxChars /\ phase = "cut" /\ Len(parts') = Len(parts) =>
           parts'[1][1] > parts[1][1]]_vars
  <2>1. ASSUME Inv, [Next]_vars
        PROVE  \/ UNCHANGED vars
               \/ 2 * Overlap <= MaxChars /\ phase = "cut" /\ Len(parts') = Len(parts) =>
                    parts'[1][1] > parts[1][1]
    BY <1>1, <2>1
  <2>2. QED BY <2>1
<1>3. QED BY <1>2, ChunkingInvariant, PTL DEF Spec, CutsShorten
-----------------------------------------------------------------------------
(* The order of the pieces, where the overlap is at most half of the       *)
(* maximum and leaves room for a paragraph break and a character.          *)

OverlapIsSmall == 2 * Overlap <= MaxChars /\ Overlap + 2 < MaxChars

(* z goes on behind x, after a paragraph break. *)
Follows(x, z) == x[2] + 3 <= z[2] /\ Break(body, x[2] + 1)

(* The part x comes before the part z, and repeats at most the overlap. *)
Leads(x, z) == x[1] <= z[1] /\ Follows(x, z) /\ x[2] < z[1] + Overlap

(* The piece x comes before what will be cut from z. *)
Precedes(x, z) ==
  /\ x[1] <= z[1] /\ x[2] <= z[2] /\ x[2] < z[1] + Overlap
  /\ x[1] < z[1] \/ Follows(x, z)

(* The piece x comes before the piece z. *)
Before(x, z) == x # z /\ x[1] <= z[1] /\ x[2] <= z[2]

OrderInv ==
  /\ Inv
  /\ ~Long => parts = <<>>
  /\ phase = "pack" /\ read # 0 /\ read # N => Break(body, read + 1)
  /\ phase = "pack" => \A k \in DOMAIN parts : Leads(parts[k], <<from, read>>)
  /\ \A k, l \in DOMAIN parts : k < l => Leads(parts[k], parts[l])
  /\ \A k \in DOMAIN final : \A l \in DOMAIN parts : Precedes(final[k], parts[l])
  /\ InReadingOrder

(* InReadingOrder in these terms. *)
LEMMA OrderIsBefore ==
  InReadingOrder <=> \A k, l \in DOMAIN final : k < l => Before(final[k], final[l])
BY DEF InReadingOrder, Before

(* Before the function begins there is nothing to order. *)
LEMMA InitOrder == Init => OrderInv
<1>1. SUFFICES ASSUME Init PROVE OrderInv
  OBVIOUS
<1>2. parts = <<>> /\ final = <<>> /\ read = 0
  BY <1>1 DEF Init
<1>3. QED BY <1>1, <1>2, InitInv DEF OrderInv, InReadingOrder

(* A body that fits is the only piece. *)
LEMMA WholeOrder == ASSUME OrderInv, Whole PROVE OrderInv'
<1>1. parts' = <<>> /\ phase' = "done"
  BY DEF OrderInv, Whole
<1>2. final' = <<<<1, N>>>>
  BY DEF Whole
<1> DEFINE x == <<1, N>>
<1>3. DOMAIN <<x>> = {1}
  <2> HIDE DEF x
  <2> QED OBVIOUS
<1>4. \A k, l \in DOMAIN final' : ~(k < l)
  BY <1>2, <1>3
<1>5. Inv'
  BY WholeInv DEF OrderInv
<1>6. QED BY <1>1, <1>4, <1>5 DEF OrderInv, InReadingOrder

(* Where a paragraph ends that is not the last, there is a break. *)
LEMMA PackOrder ==
  ASSUME OrderInv, NEW first \in 1 .. N, NEW last \in 1 .. N, Pack(first, last)
  PROVE  OrderInv'
<1>1. /\ TypeOK /\ N \in Nat /\ phase = "pack" /\ Long /\ Paragraph(first, last)
      /\ read' = last /\ UNCHANGED <<body, phase, from, parts, final>>
      /\ read \in Nat /\ parts \in Seq(Intervals)
  BY BodyType DEF OrderInv, Inv, Pack, TypeOK
<1>2. N' = N /\ Inv'
  BY <1>1, PackInv DEF N, OrderInv
<1>3. Long'
  BY <1>1, <1>2 DEF Long
<1>4. last # N => Break(body, last + 1)
  BY <1>1 DEF Paragraph
<1>5. ASSUME NEW k \in DOMAIN parts PROVE Leads(parts[k], <<from, last>>)
  <2>1. Leads(parts[k], <<from, read>>) /\ read # 0
    BY <1>1, <1>5 DEF OrderInv, Inv
  <2>2. read <= last
    BY <1>1, <2>1 DEF Paragraph
  <2>3. parts[k][2] \in Nat
    BY <1>1 DEF Intervals
  <2>4. QED BY <1>1, <2>1, <2>2, <2>3 DEF Leads, Follows
<1>6. QED BY <1>1, <1>2, <1>3, <1>4, <1>5 DEF OrderInv, InReadingOrder, Leads, Precedes, Follows, Break

(* A part that is added leads on from those before it. *)
LEMMA PartAdded ==
  ASSUME OrderInv, phase = "pack", NEW x, x = <<from, read>>, x \in Intervals,
         parts' = Append(parts, x), UNCHANGED <<body, final>>
  PROVE  /\ DOMAIN parts' = DOMAIN parts \cup {Len(parts) + 1}
         /\ parts'[Len(parts) + 1] = x
         /\ \A k \in DOMAIN parts : parts'[k] = parts[k]
         /\ (\A k, l \in DOMAIN parts : k < l => Leads(parts[k], parts[l]))'
         /\ (\A k \in DOMAIN final : \A l \in DOMAIN parts : Precedes(final[k], parts[l]))'
         /\ InReadingOrder'
<1>1. parts \in Seq(Intervals) /\ final = <<>>
  BY DEF OrderInv, Inv, TypeOK
<1>2. /\ DOMAIN parts' = DOMAIN parts \cup {Len(parts) + 1}
      /\ parts'[Len(parts) + 1] = x /\ \A k \in DOMAIN parts : parts'[k] = parts[k]
  BY <1>1, LastAdded
<1>3. /\ \A k, l \in DOMAIN parts : k < l => Leads(parts[k], parts[l])
      /\ \A k \in DOMAIN parts : Leads(parts[k], x)
  BY DEF OrderInv
<1>4. Len(parts) \in Nat /\ DOMAIN parts = 1 .. Len(parts)
  BY <1>1
<1>5. \A k, l \in DOMAIN parts' : k < l => Leads(parts'[k], parts'[l])
  <2>1. SUFFICES ASSUME NEW k \in DOMAIN parts', NEW l \in DOMAIN parts', k < l
                 PROVE  Leads(parts'[k], parts'[l])
    OBVIOUS
  <2>2. k \in DOMAIN parts
    BY <1>2, <1>4, <2>1
  <2>3. CASE l \in DOMAIN parts
    BY <1>2, <1>3, <2>1, <2>2, <2>3
  <2>4. CASE l = Len(parts) + 1
    BY <1>2, <1>3, <2>2, <2>4
  <2>5. QED BY <1>2, <2>3, <2>4
<1>6. (\A k, l \in DOMAIN parts : k < l => Leads(parts[k], parts[l]))'
  BY <1>5 DEF Leads, Follows, Break
<1>7. final' = <<>> /\ DOMAIN final' = {}
  BY <1>1
<1>8. (\A k \in DOMAIN final : \A l \in DOMAIN parts : Precedes(final[k], parts[l]))'
  BY <1>7
<1>9. InReadingOrder'
  BY <1>7 DEF InReadingOrder
<1>10. QED BY <1>2, <1>6, <1>8, <1>9

(* A tail of at most the overlap begins within the part. *)
LEMMA TailBegins ==
  ASSUME NEW a \in Int, NEW b \in Int, NEW c \in Int, NEW overlap \in Int, NEW i \in Int,
         a <= i, b + 1 - overlap <= i, i <= c
  PROVE  a <= c /\ b < c + overlap
OBVIOUS

(* What does not fit leads on from the part set aside, and repeats its     *)
(* tail.                                                                   *)
LEMMA FlushOrder ==
  ASSUME OrderInv, NEW first \in 1 .. N, NEW last \in 1 .. N, Flush(first, last)
  PROVE  OrderInv'
<1> DEFINE x == <<from, read>>
           start == IF read + 1 - Overlap > from THEN read + 1 - Overlap ELSE from
<1>1. /\ TypeOK /\ N \in Nat /\ phase = "pack" /\ Long /\ Paragraph(first, last) /\ read # 0
      /\ parts' = Append(parts, x) /\ read' = last /\ UNCHANGED <<body, phase, final>>
      /\ Stripped(start, from') /\ from' \in 1 .. N /\ parts \in Seq(Intervals)
      /\ from \in 1 .. N /\ read \in 1 .. N /\ Overlap \in Nat
  BY BodyType, ChunkingAssumption DEF OrderInv, Inv, Flush, TypeOK
<1>2. N' = N /\ Inv'
  BY <1>1, FlushInv DEF N, OrderInv
<1>3. Long'
  BY <1>1, <1>2 DEF Long
<1>4. last # N => Break(body, last + 1)
  BY <1>1 DEF Paragraph
<1>5. x \in Intervals /\ x[1] = from /\ x[2] = read
  BY <1>1 DEF Intervals
<1>6. first = read + 3 /\ first <= last /\ read # N
  BY <1>1 DEF Paragraph
<1>7. Break(body, read + 1)
  BY <1>1, <1>6 DEF OrderInv
<1>8. from <= from' /\ read < from' + Overlap
  <2>1. start \in Int /\ from <= start /\ read + 1 - Overlap <= start
    BY <1>1
  <2>2. start <= from'
    BY <1>1 DEF Stripped
  <2>3. /\ from \in Int /\ from' \in Int /\ read \in Int /\ Overlap \in Int /\ last \in Int
    BY <1>1
  <2> HIDE DEF start
  <2>4. QED BY <2>1, <2>2, <2>3, TailBegins
<1>9. /\ DOMAIN parts' = DOMAIN parts \cup {Len(parts) + 1}
      /\ parts'[Len(parts) + 1] = x
      /\ \A k \in DOMAIN parts : parts'[k] = parts[k]
      /\ (\A k, l \in DOMAIN parts : k < l => Leads(parts[k], parts[l]))'
      /\ (\A k \in DOMAIN final : \A l \in DOMAIN parts : Precedes(final[k], parts[l]))'
      /\ InReadingOrder'
  BY <1>1, <1>5, PartAdded
<1> HIDE DEF x, start
<1>10. ASSUME NEW k \in DOMAIN parts' PROVE Leads(parts'[k], <<from', last>>)
  <2>1. CASE k \in DOMAIN parts
    <3>1. Leads(parts[k], <<from, read>>) /\ parts'[k] = parts[k]
      BY <1>1, <1>9, <2>1 DEF OrderInv
    <3>2. parts[k][1] \in Nat /\ parts[k][2] \in Nat
      BY <1>1, <2>1 DEF Intervals
    <3>3. /\ parts[k][1] <= from /\ parts[k][2] + 3 <= read /\ Break(body, parts[k][2] + 1)
      BY <3>1 DEF Leads, Follows
    <3>4. /\ parts[k][1] <= from' /\ parts[k][2] + 3 <= last /\ parts[k][2] < from' + Overlap
      <4>1. /\ from \in Int /\ from' \in Int /\ read \in Int /\ Overlap \in Int /\ last \in Int
            /\ first \in Int
        BY <1>1
      <4>2. parts[k][1] <= from'
        BY <1>8, <3>2, <3>3, <4>1
      <4>3. parts[k][2] + 3 <= last
        BY <1>6, <3>2, <3>3, <4>1
      <4>4. parts[k][2] < from' + Overlap
        BY <1>8, <3>2, <3>3, <4>1
      <4>5. QED BY <4>2, <4>3, <4>4
    <3>5. QED BY <3>1, <3>3, <3>4 DEF Leads, Follows
  <2>2. CASE k = Len(parts) + 1
    BY <1>1, <1>5, <1>6, <1>7, <1>8, <1>9, <2>2 DEF Leads, Follows
  <2>3. QED BY <1>9, <2>1, <2>2
<1>11. QED BY <1>1, <1>2, <1>3, <1>4, <1>9, <1>10 DEF OrderInv, Leads, Follows, Break

(* The last part leads on from the others. *)
LEMMA LastPartOrder == ASSUME OrderInv, LastPart PROVE OrderInv'
<1> DEFINE x == <<from, read>>
<1>1. /\ TypeOK /\ N \in Nat /\ N > 0 /\ read = N /\ phase = "pack" /\ phase' = "cut" /\ Long
      /\ parts' = Append(parts, x) /\ UNCHANGED <<body, read, from, final>>
      /\ from \in 1 .. N
  BY BodyType DEF OrderInv, Inv, LastPart, TypeOK
<1>2. N' = N /\ Inv'
  BY <1>1, LastPartInv DEF N, OrderInv
<1>3. Long'
  BY <1>1, <1>2 DEF Long
<1>4. x \in Intervals
  BY <1>1 DEF Intervals
<1>5. /\ (\A k, l \in DOMAIN parts : k < l => Leads(parts[k], parts[l]))'
      /\ (\A k \in DOMAIN final : \A l \in DOMAIN parts : Precedes(final[k], parts[l]))'
      /\ InReadingOrder'
  BY <1>1, <1>4, PartAdded
<1>6. QED BY <1>1, <1>2, <1>3, <1>5 DEF OrderInv

(* What a cut makes of the part lo .. hi: the piece lo .. h, and the rest  *)
(* s .. hi.                                                                *)
CutOf(lo, hi, cut, h, s) ==
  /\ Overlap < cut /\ cut <= MaxChars /\ lo + MaxChars <= hi
  /\ cut = MaxChars \/ body[lo + cut] = "space"
  /\ body[h] = "ink" /\ lo <= h /\ h < lo + cut
  /\ \A j \in h + 1 .. lo + cut - 1 : body[j] # "ink"
  /\ body[s] = "ink" /\ lo + cut - Overlap <= s /\ s <= hi
  /\ \A j \in lo + cut - Overlap .. s - 1 : body[j] # "ink"

(* Every cut is one of these. *)
LEMMA CutShape ==
  ASSUME Inv, OverlapIsSmall, Cut
  PROVE  \E cut \in 1 .. MaxChars, h \in 1 .. N, s \in 1 .. N :
           /\ final' = Append(final, <<parts[1][1], h>>)
           /\ parts' = [parts EXCEPT ![1] = <<s, parts[1][2]>>]
           /\ CutOf(parts[1][1], parts[1][2], cut, h, s)
<1> DEFINE lo == parts[1][1]
           hi == parts[1][2]
<1>1. /\ TypeOK /\ N \in Nat /\ parts \in Seq(Intervals) /\ parts # <<>>
      /\ MaxChars \in Nat \ {0} /\ Overlap \in Nat
  BY BodyType, ChunkingAssumption DEF Inv, TypeOK, Cut
<1>2. 1 \in DOMAIN parts /\ parts[1] \in Intervals /\ Inked(parts[1])
  BY <1>1 DEF Inv
<1>3. lo \in 1 .. N /\ hi \in 1 .. N /\ body[lo] = "ink" /\ body[hi] = "ink"
  BY <1>2 DEF Intervals, Inked
<1>4. PICK cut \in 1 .. MaxChars, h \in 1 .. N, s \in 1 .. N :
        /\ IsCut(lo, cut)
        /\ Trimmed(lo + cut - 1, h)
        /\ final' = Append(final, <<lo, h>>)
        /\ Stripped(IF cut > Overlap THEN lo + cut - Overlap ELSE lo, s)
        /\ parts' = [parts EXCEPT ![1] = <<s, hi>>]
  BY DEF Cut
<1>5. lo + MaxChars <= hi
  BY <1>1, <1>3 DEF Cut
<1> HIDE DEF lo, hi
<1>6. cut > MaxChars \div 2 /\ (cut = MaxChars \/ body[lo + cut] = "space")
  BY <1>1, <1>4 DEF IsCut, CutPoint
<1>7. Overlap < cut
  BY <1>1, <1>6 DEF OverlapIsSmall
<1>8. /\ body[s] = "ink" /\ lo + cut - Overlap <= s
      /\ \A j \in lo + cut - Overlap .. s - 1 : body[j] # "ink"
      /\ Stripped(lo + cut - Overlap, s)
  BY <1>4, <1>7 DEF Stripped
<1>9. s <= hi
  BY <1>1, <1>3, <1>5, <1>8, StrippedIsBlank
<1>10. body[h] = "ink" /\ h < lo + cut /\ \A j \in h + 1 .. lo + cut - 1 : body[j] # "ink"
  BY <1>1, <1>3, <1>4 DEF Trimmed
<1>11. lo <= h
  <2>1. SUFFICES ASSUME h < lo PROVE FALSE
    BY <1>1, <1>3
  <2>2. lo \in h + 1 .. lo + cut - 1
    BY <1>1, <1>3, <2>1
  <2>3. QED BY <1>3, <1>10, <2>2
<1>12. CutOf(lo, hi, cut, h, s)
  BY <1>1, <1>5, <1>6, <1>7, <1>8, <1>9, <1>10, <1>11 DEF CutOf
<1>13. QED BY <1>4, <1>12 DEF lo, hi

(* What came before a part comes before what is cut from it, and before    *)
(* its rest.                                                               *)
LEMMA CutPrecedes ==
  ASSUME TypeOK, OverlapIsSmall, NEW x \in Intervals, body[x[2]] = "ink",
         NEW lo \in 1 .. N, NEW hi \in 1 .. N, NEW cut \in 1 .. MaxChars,
         NEW h \in 1 .. N, NEW s \in 1 .. N, CutOf(lo, hi, cut, h, s),
         Precedes(x, <<lo, hi>>)
  PROVE  Before(x, <<lo, h>>) /\ Precedes(x, <<s, hi>>)
<1>1. /\ N \in Nat /\ MaxChars \in Nat \ {0} /\ Overlap \in Nat /\ x[1] \in 1 .. N /\ x[2] \in 1 .. N
      /\ body \in [1 .. N -> Kinds]
  BY BodyType, ChunkingAssumption DEF Intervals
<1> DEFINE a == x[1]
           b == x[2]
<1>2. /\ a <= lo /\ b <= hi /\ b < lo + Overlap
      /\ a < lo \/ (b + 3 <= hi /\ Break(body, b + 1))
  BY DEF Precedes, Follows
<1> HIDE DEF a, b
<1>3. a \in 1 .. N /\ b \in 1 .. N /\ body[b] = "ink"
  BY <1>1 DEF a, b
<1>4. b <= h
  <2>1. SUFFICES ASSUME h < b PROVE FALSE
    BY <1>1, <1>3
  <2>2. b \in h + 1 .. lo + cut - 1
    BY <1>1, <1>2, <1>3, <2>1 DEF CutOf
  <2>3. QED BY <1>3, <2>2 DEF CutOf
<1>5. a < lo \/ b < h
  <2>1. SUFFICES ASSUME a = lo, b = h PROVE FALSE
    BY <1>1, <1>2, <1>3, <1>4
  <2>2. Break(body, b + 1) /\ b + 3 <= hi
    BY <1>1, <1>2, <2>1
  <2>3. body[b + 1] = "newline" /\ body[b + 2] = "newline" /\ body[b + 3] = "ink"
    <3>1. b + 1 \in DOMAIN body /\ NormalForm(body)
      BY <1>1, <1>3, <2>2 DEF TypeOK
    <3>2. body[(b + 1) + 1] = "newline" /\ body[(b + 1) + 2] = "ink" /\ body[b + 1] = "newline"
      BY <2>2, <3>1 DEF NormalForm, Break
    <3>3. (b + 1) + 1 = b + 2 /\ (b + 1) + 2 = b + 3
      BY <1>3
    <3>4. QED BY <3>2, <3>3
  <2>4. b + 3 <= lo + cut - 1
    <3>1. CASE cut = MaxChars
      BY <1>1, <1>2, <1>3, <3>1 DEF OverlapIsSmall
    <3>2. CASE body[lo + cut] = "space"
      <4>1. lo + cut >= b + 2
        BY <1>1, <1>2, <1>3 DEF CutOf
      <4>2. lo + cut # b + 2 /\ lo + cut # b + 3
        BY <2>3, <3>2
      <4>3. QED BY <1>1, <1>3, <4>1, <4>2
    <3>3. QED BY <3>1, <3>2 DEF CutOf
  <2>5. b + 3 \in h + 1 .. lo + cut - 1
    BY <1>1, <1>3, <2>1, <2>4
  <2>6. QED BY <2>3, <2>5 DEF CutOf
<1>7. Before(x, <<lo, h>>)
  BY <1>1, <1>2, <1>3, <1>4, <1>5 DEF Before, a, b
<1>8. lo < s
  BY <1>1 DEF CutOf
<1>9. a < s /\ b <= hi /\ b < s + Overlap
  BY <1>1, <1>2, <1>3, <1>8
<1>10. Precedes(x, <<s, hi>>)
  BY <1>1, <1>9 DEF Precedes, a, b
<1>11. QED BY <1>7, <1>10

(* What comes after a part comes after what is cut from it, and after its  *)
(* rest; and its rest comes after what is cut from it.                     *)
LEMMA CutLeads ==
  ASSUME TypeOK, OverlapIsSmall,
         NEW lo \in 1 .. N, NEW hi \in 1 .. N, NEW cut \in 1 .. MaxChars,
         NEW h \in 1 .. N, NEW s \in 1 .. N, CutOf(lo, hi, cut, h, s)
  PROVE  /\ Precedes(<<lo, h>>, <<s, hi>>)
         /\ \A z \in Intervals :
              body[z[1]] = "ink" /\ Leads(<<lo, hi>>, z) =>
                Precedes(<<lo, h>>, z) /\ Leads(<<s, hi>>, z)
<1>1. /\ N \in Nat /\ MaxChars \in Nat \ {0} /\ Overlap \in Nat
  BY BodyType, ChunkingAssumption
<1>2. /\ lo < s /\ h <= hi /\ h < s + Overlap /\ Overlap < cut /\ cut <= MaxChars
      /\ lo + MaxChars <= hi
  BY <1>1 DEF CutOf
<1>3. Precedes(<<lo, h>>, <<s, hi>>)
  BY <1>2 DEF Precedes
<1>4. ASSUME NEW z \in Intervals, body[z[1]] = "ink", Leads(<<lo, hi>>, z)
      PROVE  Precedes(<<lo, h>>, z) /\ Leads(<<s, hi>>, z)
  <2>1. z[1] \in 1 .. N /\ z[2] \in 1 .. N
    BY DEF Intervals
  <2>2. lo <= z[1] /\ hi + 3 <= z[2] /\ Break(body, hi + 1) /\ hi < z[1] + Overlap
    BY <1>4 DEF Leads, Follows
  <2>3. lo + cut - Overlap < z[1]
    BY <1>1, <1>2, <2>1, <2>2
  <2>4. s <= z[1]
    <3>1. SUFFICES ASSUME z[1] < s PROVE FALSE
      BY <2>1
    <3>2. z[1] \in lo + cut - Overlap .. s - 1
      BY <1>1, <2>1, <2>3, <3>1
    <3>3. QED BY <1>4, <3>2 DEF CutOf
  <2>5. Precedes(<<lo, h>>, z)
    BY <1>1, <1>2, <2>1, <2>2, <2>4 DEF Precedes
  <2>6. Leads(<<s, hi>>, z)
    BY <2>2, <2>4 DEF Leads, Follows
  <2>7. QED BY <2>5, <2>6
<1>5. QED BY <1>3, <1>4
(* A cut keeps the order. *)
LEMMA CutOrder == ASSUME OrderInv, OverlapIsSmall, Cut PROVE OrderInv'
<1> DEFINE lo == parts[1][1]
           hi == parts[1][2]
<1>1. /\ TypeOK /\ N \in Nat /\ parts \in Seq(Intervals) /\ parts # <<>> /\ PiecesFit
      /\ final \in Seq(Intervals) /\ phase = "cut" /\ UNCHANGED <<body, phase, read, from>>
  BY BodyType DEF OrderInv, Inv, TypeOK, Cut
<1>2. 1 \in DOMAIN parts /\ parts[1] \in Intervals /\ DOMAIN parts = 1 .. Len(parts) /\ Len(parts) \in Nat
  BY <1>1
<1>3. lo \in 1 .. N /\ hi \in 1 .. N /\ parts[1] = <<lo, hi>>
  BY <1>2 DEF Intervals
<1>4. PICK cut \in 1 .. MaxChars, h \in 1 .. N, s \in 1 .. N :
        /\ final' = Append(final, <<lo, h>>)
        /\ parts' = [parts EXCEPT ![1] = <<s, hi>>]
        /\ CutOf(lo, hi, cut, h, s)
  BY CutShape DEF OrderInv
<1>5. Inv' /\ N' = N
  BY <1>1, CutInv DEF OrderInv, N
<1> DEFINE x == <<lo, h>>
           y == <<s, hi>>
<1>6. x \in Intervals /\ y \in Intervals
  BY <1>3 DEF Intervals
<1>7. /\ DOMAIN final' = DOMAIN final \cup {Len(final) + 1}
      /\ final'[Len(final) + 1] = x /\ \A k \in DOMAIN final : final'[k] = final[k]
  BY <1>1, <1>4, <1>6, LastAdded
<1> HIDE DEF lo, hi
<1>8. /\ DOMAIN parts' = DOMAIN parts
      /\ parts'[1] = y /\ \A k \in DOMAIN parts : k # 1 => parts'[k] = parts[k]
  BY <1>1, <1>2, <1>4
<1>9. \A k \in DOMAIN parts : parts[k] \in Intervals /\ body[parts[k][1]] = "ink"
  BY <1>1 DEF OrderInv, Inv, Inked
<1>10. \A k \in DOMAIN final : final[k] \in Intervals /\ body[final[k][2]] = "ink"
  BY <1>1 DEF PiecesFit
<1>11. ASSUME NEW k \in DOMAIN final PROVE Before(final[k], x) /\ Precedes(final[k], y)
  <2>1. Precedes(final[k], <<lo, hi>>)
    BY <1>2, <1>3 DEF OrderInv
  <2>2. QED BY <1>1, <1>3, <1>4, <1>10, <2>1, CutPrecedes
<1>12. /\ Precedes(x, y)
       /\ \A l \in DOMAIN parts : l # 1 => Precedes(x, parts[l]) /\ Leads(y, parts[l])
  <2>1. ASSUME NEW l \in DOMAIN parts, l # 1 PROVE Leads(<<lo, hi>>, parts[l])
    <3>1. 1 < l
      BY <1>2, <2>1
    <3>2. QED BY <1>2, <1>3, <3>1 DEF OrderInv
  <2>2. QED BY <1>1, <1>3, <1>4, <1>9, <2>1, CutLeads
<1> HIDE DEF x, y
<1>13. ASSUME NEW k \in DOMAIN parts', NEW l \in DOMAIN parts', k < l
       PROVE  Leads(parts'[k], parts'[l])
  <2>1. l # 1 /\ l \in DOMAIN parts /\ k \in DOMAIN parts
    BY <1>2, <1>8, <1>13
  <2>2. CASE k = 1
    BY <1>8, <1>12, <2>1, <2>2
  <2>3. CASE k # 1
    BY <1>8, <1>13, <2>1, <2>3 DEF OrderInv
  <2>4. QED BY <2>2, <2>3
<1>14. ASSUME NEW k \in DOMAIN final', NEW l \in DOMAIN parts'
       PROVE  Precedes(final'[k], parts'[l])
  <2>1. CASE k \in DOMAIN final /\ l = 1
    BY <1>7, <1>8, <1>11, <2>1
  <2>2. CASE k \in DOMAIN final /\ l # 1
    BY <1>7, <1>8, <1>14, <2>2 DEF OrderInv
  <2>3. CASE k = Len(final) + 1 /\ l = 1
    BY <1>7, <1>8, <1>12, <2>3
  <2>4. CASE k = Len(final) + 1 /\ l # 1
    BY <1>7, <1>8, <1>12, <1>14, <2>4
  <2>5. QED BY <1>7, <2>1, <2>2, <2>3, <2>4
<1>15. ASSUME NEW k \in DOMAIN final', NEW l \in DOMAIN final', k < l
       PROVE  Before(final'[k], final'[l])
  <2>1. DOMAIN final = 1 .. Len(final) /\ Len(final) \in Nat
    BY <1>1
  <2>2. k \in DOMAIN final
    BY <1>7, <1>15, <2>1
  <2>3. CASE l \in DOMAIN final
    BY <1>7, <1>15, <2>2, <2>3, OrderIsBefore DEF OrderInv
  <2>4. CASE l = Len(final) + 1
    BY <1>7, <1>11, <2>2, <2>4
  <2>5. QED BY <1>7, <2>3, <2>4
<1>16. InReadingOrder'
  BY <1>15 DEF InReadingOrder, Before
<1>17. (\A k, l \in DOMAIN parts : k < l => Leads(parts[k], parts[l]))'
  BY <1>1, <1>13 DEF Leads, Follows, Break
<1>18. (\A k \in DOMAIN final : \A l \in DOMAIN parts : Precedes(final[k], parts[l]))'
  BY <1>1, <1>14 DEF Precedes, Follows, Break
<1>19. (~Long => parts = <<>>)'
  BY <1>1, <1>5 DEF OrderInv, Long
<1>20. QED BY <1>1, <1>5, <1>16, <1>17, <1>18, <1>19 DEF OrderInv

(* A part that becomes a piece keeps its place. *)
LEMMA KeepOrder == ASSUME OrderInv, Keep PROVE OrderInv'
<1> DEFINE x == parts[1]
<1>1. /\ TypeOK /\ N \in Nat /\ parts \in Seq(Intervals) /\ parts # <<>>
      /\ final \in Seq(Intervals) /\ phase' # "pack" /\ UNCHANGED <<body, read, from>>
      /\ parts' = Tail(parts) /\ final' = Append(final, x)
  BY BodyType DEF OrderInv, Inv, TypeOK, Keep
<1>2. /\ 1 \in DOMAIN parts /\ x \in Intervals
      /\ DOMAIN parts = 1 .. Len(parts) /\ Len(parts) \in Nat
  BY <1>1
<1>3. Inv' /\ N' = N
  BY <1>1, KeepInv DEF OrderInv, N
<1>4. /\ DOMAIN final' = DOMAIN final \cup {Len(final) + 1}
      /\ final'[Len(final) + 1] = x /\ \A k \in DOMAIN final : final'[k] = final[k]
  BY <1>1, <1>2, LastAdded
<1>5. \A k \in DOMAIN parts' : k + 1 \in DOMAIN parts /\ parts'[k] = parts[k + 1]
  BY <1>1, FirstTaken
<1>6. DOMAIN parts' \subseteq Nat \ {0}
  BY <1>1
<1>7. \A k \in DOMAIN parts : parts[k] \in Intervals
  BY <1>1
<1>8. \A l \in DOMAIN parts : l # 1 => Leads(x, parts[l])
  BY <1>2 DEF OrderInv
<1>9. \A k \in DOMAIN final : Precedes(final[k], x) /\ final[k] \in Intervals
  BY <1>1, <1>2 DEF OrderInv
<1> HIDE DEF x
<1>10. ASSUME NEW k \in DOMAIN final PROVE Before(final[k], x)
  <2>1. Precedes(final[k], x) /\ final[k] \in Intervals /\ x \in Intervals
    BY <1>2, <1>9
  <2>2. /\ final[k][1] \in Nat /\ final[k][2] \in Nat /\ x[1] \in Nat /\ x[2] \in Nat
    <3>1. N \in Nat
      BY <1>1
    <3>2. ASSUME NEW z \in Intervals PROVE z[1] \in Nat /\ z[2] \in Nat
      BY <3>1 DEF Intervals
    <3>3. QED BY <2>1, <3>2
  <2>3. final[k][1] < x[1] \/ final[k][2] < x[2]
    BY <2>1, <2>2 DEF Precedes, Follows
  <2>4. final[k] # x
    BY <2>2, <2>3
  <2>5. QED BY <2>1, <2>4 DEF Before, Precedes
<1>11. ASSUME NEW l \in DOMAIN parts, l # 1 PROVE Precedes(x, parts[l])
  <2>1. Leads(x, parts[l]) /\ parts[l] \in Intervals /\ x \in Intervals
    BY <1>2, <1>7, <1>8, <1>11
  <2>2. x[2] \in Nat /\ parts[l][2] \in Nat
    BY <2>1, <1>1 DEF Intervals
  <2>3. QED BY <2>1, <2>2 DEF Leads, Precedes, Follows
<1>12. ASSUME NEW k \in DOMAIN final', NEW l \in DOMAIN final', k < l
       PROVE  Before(final'[k], final'[l])
  <2>1. DOMAIN final = 1 .. Len(final) /\ Len(final) \in Nat
    BY <1>1
  <2>2. k \in DOMAIN final
    BY <1>4, <1>12, <2>1
  <2>3. CASE l \in DOMAIN final
    BY <1>4, <1>12, <2>2, <2>3, OrderIsBefore DEF OrderInv
  <2>4. CASE l = Len(final) + 1
    BY <1>4, <1>10, <2>2, <2>4
  <2>5. QED BY <1>4, <2>3, <2>4
<1>13. ASSUME NEW k \in DOMAIN final', NEW l \in DOMAIN parts'
       PROVE  Precedes(final'[k], parts'[l])
  <2>1. l + 1 \in DOMAIN parts /\ l + 1 # 1 /\ parts'[l] = parts[l + 1]
    BY <1>5, <1>6
  <2>2. CASE k \in DOMAIN final
    BY <1>4, <2>1, <2>2 DEF OrderInv
  <2>3. CASE k = Len(final) + 1
    BY <1>4, <1>11, <2>1, <2>3
  <2>4. QED BY <1>4, <2>2, <2>3
<1>14. ASSUME NEW k \in DOMAIN parts', NEW l \in DOMAIN parts', k < l
       PROVE  Leads(parts'[k], parts'[l])
  <2>1. k + 1 \in DOMAIN parts /\ l + 1 \in DOMAIN parts /\ k + 1 < l + 1
    BY <1>5, <1>6, <1>14
  <2>2. QED BY <1>5, <2>1 DEF OrderInv
<1>15. InReadingOrder'
  BY <1>12 DEF InReadingOrder, Before
<1>16. (\A k, l \in DOMAIN parts : k < l => Leads(parts[k], parts[l]))'
  BY <1>1, <1>14 DEF Leads, Follows, Break
<1>17. (\A k \in DOMAIN final : \A l \in DOMAIN parts : Precedes(final[k], parts[l]))'
  BY <1>1, <1>13 DEF Precedes, Follows, Break
<1>18. (~Long => parts = <<>>)'
  BY <1>1, <1>3 DEF OrderInv, Long
<1>19. QED BY <1>1, <1>3, <1>15, <1>16, <1>17, <1>18 DEF OrderInv

(* Every step keeps the order. *)
LEMMA NextOrder == ASSUME OverlapIsSmall PROVE OrderInv /\ [Next]_vars => OrderInv'
<1>1. SUFFICES ASSUME OrderInv, [Next]_vars PROVE OrderInv'
  OBVIOUS
<1>2. CASE UNCHANGED vars
  <2>1. Inv'
    BY <1>1, <1>2, NextInv DEF OrderInv
  <2>2. UNCHANGED <<body, phase, read, from, parts, final>> /\ N' = N
    BY <1>2 DEF vars, N
  <2>3. QED BY <1>1, <2>1, <2>2
        DEF OrderInv, Long, Break, InReadingOrder, Leads, Precedes, Follows
<1>3. CASE Next
  BY <1>1, <1>3, WholeOrder, PackOrder, FlushOrder, LastPartOrder, CutOrder, KeepOrder DEF Next
<1>4. QED BY <1>1, <1>2, <1>3

(* With an overlap of at most half of the maximum, which leaves room for a *)
(* paragraph break and a character, the pieces of any body are in the      *)
(* order of its text, and no two are the same.                             *)
THEOREM PiecesAreInOrder ==
  ASSUME OverlapIsSmall
  PROVE  Spec => []InReadingOrder
<1>1. OrderInv /\ [Next]_vars => OrderInv'
  BY NextOrder
<1>2. OrderInv => InReadingOrder
  BY DEF OrderInv
<1>3. QED BY <1>1, <1>2, InitOrder, PTL DEF Spec
=============================================================================
