-------------------------- MODULE SectionChunking --------------------------
(***************************************************************************)
(* _split_section of ingestion/chunking/section_chunker.py: the body of a  *)
(* policy section becomes the pieces that are embedded and cited.  The     *)
(* first loop packs paragraphs into parts, each beginning with the tail of *)
(* the one before it; the second cuts what is longer than the maximum.     *)
(*                                                                         *)
(* A body is what the code tells apart in it: which of its characters are  *)
(* ink, which are spaces (where a part may be cut) and which are line      *)
(* ends (two of which part paragraphs).  It is taken in the form the       *)
(* split, strip and join of the code give it, so that every string of the  *)
(* algorithm is the interval of the body from a first to a last position:  *)
(* a tail, the two line ends and the next paragraph are consecutive in it. *)
(***************************************************************************)
EXTENDS Integers, Sequences

CONSTANTS Bodies,     \* the bodies that can be split
          MaxChars,   \* max_chunk_chars
          Overlap     \* chunk_overlap_chars

Kinds == {"ink", "space", "newline"}

(* The line ends at i and i + 1 part two paragraphs. *)
Break(b, i) == i + 1 \in DOMAIN b /\ b[i] = "newline" /\ b[i + 1] = "newline"

(* Stripped, as are its paragraphs, which two line ends part. *)
NormalForm(b) ==
  /\ Len(b) > 0 /\ b[1] = "ink" /\ b[Len(b)] = "ink"
  /\ \A i \in DOMAIN b : Break(b, i) => b[i - 1] = "ink" /\ b[i + 2] = "ink"

ASSUME ChunkingAssumption ==
  /\ Bodies \subseteq Seq(Kinds)
  /\ \A b \in Bodies : NormalForm(b)
  /\ MaxChars \in Nat \ {0}
  /\ Overlap \in Nat

VARIABLES
  body,    \* the stripped body
  phase,   \* the loop the function is in
  read,    \* the end of the last paragraph taken: that of current, too
  from,    \* the beginning of current
  parts,   \* the parts packed and not yet cut, as <<first, last>>
  final    \* the pieces

vars == <<body, phase, read, from, parts, final>>

Init ==
  /\ body \in Bodies
  /\ phase = "pack"
  /\ read = 0
  /\ from = 1
  /\ parts = <<>>
  /\ final = <<>>

N == Len(body)
Long == N > MaxChars

(* The body fits: it is one piece. *)
Whole ==
  /\ phase = "pack" /\ ~Long
  /\ final' = <<<<1, N>>>>
  /\ phase' = "done"
  /\ UNCHANGED <<body, read, from, parts>>

(* first .. last is the next paragraph. *)
Paragraph(first, last) ==
  /\ first = IF read = 0 THEN 1 ELSE read + 3
  /\ first <= last
  /\ last = N \/ Break(body, last + 1)
  /\ \A i \in first .. last : ~Break(body, i)

(* s is what is left of the position i after lstrip. *)
Stripped(i, s) == i <= s /\ body[s] = "ink" /\ \A j \in i .. s - 1 : body[j] # "ink"

(* The paragraph that ends at last joins current, which is empty or has    *)
(* room for it.                                                            *)
Pack(first, last) ==
  /\ phase = "pack" /\ Long
  /\ Paragraph(first, last)
  /\ read = 0 \/ last - from + 1 <= MaxChars
  /\ read' = last
  /\ UNCHANGED <<body, phase, from, parts, final>>

(* Mutation: the next part begins with the tail of the paragraph that did  *)
(* not fit, rather than with that of the part before it.                   *)
MutantFlush(first, last) ==
  /\ phase = "pack" /\ Long
  /\ Paragraph(first, last)
  /\ read # 0 /\ last - from + 1 > MaxChars
  /\ parts' = Append(parts, <<from, read>>)
  /\ LET start == last + 1 - Overlap
     IN  \E s \in 1 .. N : Stripped(IF start > from THEN start ELSE from, s) /\ from' = s
  /\ read' = last
  /\ UNCHANGED <<body, phase, final>>

(* It does not: current is a part, and its tail begins the next one. *)
Flush(first, last) ==
  /\ phase = "pack" /\ Long
  /\ Paragraph(first, last)
  /\ read # 0 /\ last - from + 1 > MaxChars
  /\ parts' = Append(parts, <<from, read>>)
  /\ LET start == read + 1 - Overlap
     IN  \E s \in 1 .. N : Stripped(IF start > from THEN start ELSE from, s) /\ from' = s
  /\ read' = last
  /\ UNCHANGED <<body, phase, final>>

(* Mutation: the part being packed is forgotten. *)
MutantLastPart ==
  /\ phase = "pack" /\ Long
  /\ read = N
  /\ phase' = "cut"
  /\ UNCHANGED <<body, read, from, parts, final>>

(* No paragraph is left. *)
LastPart ==
  /\ phase = "pack" /\ Long
  /\ read = N
  /\ parts' = Append(parts, <<from, read>>)
  /\ phase' = "cut"
  /\ UNCHANGED <<body, read, from, final>>

-----------------------------------------------------------------------------
(* A part that begins at lo may be cut before its character number c. *)
CutPoint(lo, c) == c \in MaxChars \div 2 + 1 .. MaxChars - 1 /\ body[lo + c] = "space"

(* Mutation: a space in the first half of the part will do. *)
MutantIsCut(lo, cut) ==
  LET Space(c) == c \in 1 .. MaxChars - 1 /\ body[lo + c] = "space" IN
  \/ Space(cut) /\ \A c \in 0 .. MaxChars : Space(c) => c <= cut
  \/ cut = MaxChars /\ \A c \in 0 .. MaxChars : ~Space(c)

(* Mutation: rfind finds no space, and nothing is cut. *)
MutantIsCutAtSpace(lo, cut) ==
  CutPoint(lo, cut) /\ \A c \in 0 .. MaxChars : CutPoint(lo, c) => c <= cut

(* rfind: the last space before the maximum, if it is in the second half;  *)
(* the maximum, in the middle of a word, if it is not.                     *)
IsCut(lo, cut) ==
  \/ CutPoint(lo, cut) /\ \A c \in 0 .. MaxChars : CutPoint(lo, c) => c <= cut
  \/ cut = MaxChars /\ \A c \in 0 .. MaxChars : ~CutPoint(lo, c)

(* h is what is left of the position i after rstrip. *)
Trimmed(i, h) == h <= i /\ body[h] = "ink" /\ \A j \in h + 1 .. i : body[j] # "ink"

(* Mutation: the rest is cut after the other parts. *)
MutantCut ==
  LET lo == parts[1][1]
      hi == parts[1][2]
  IN
  /\ phase = "cut"
  /\ hi - lo + 1 > MaxChars
  /\ \E cut \in 1 .. MaxChars, h \in 1 .. N, s \in 1 .. N :
       /\ IsCut(lo, cut)
       /\ Trimmed(lo + cut - 1, h)
       /\ final' = Append(final, <<lo, h>>)
       /\ Stripped(IF cut > Overlap THEN lo + cut - Overlap ELSE lo, s)
       /\ parts' = Append(Tail(parts), <<s, hi>>)
  /\ UNCHANGED <<body, phase, read, from>>

(* A piece is cut off the part, and the rest begins in the overlap. *)
Cut ==
  LET lo == parts[1][1]
      hi == parts[1][2]
  IN
  /\ phase = "cut"
  /\ hi - lo + 1 > MaxChars
  /\ \E cut \in 1 .. MaxChars, h \in 1 .. N, s \in 1 .. N :
       /\ IsCut(lo, cut)
       /\ Trimmed(lo + cut - 1, h)
       /\ final' = Append(final, <<lo, h>>)
       /\ Stripped(IF cut > Overlap THEN lo + cut - Overlap ELSE lo, s)
       /\ parts' = [parts EXCEPT ![1] = <<s, hi>>]
  /\ UNCHANGED <<body, phase, read, from>>

(* Mutation: a part may be one character too long. *)
MutantKeep ==
  /\ phase = "cut"
  /\ parts[1][2] - parts[1][1] <= MaxChars
  /\ final' = Append(final, parts[1])
  /\ parts' = Tail(parts)
  /\ phase' = IF Len(parts) = 1 THEN "done" ELSE "cut"
  /\ UNCHANGED <<body, read, from>>

(* What fits is a piece, and the next part follows. *)
Keep ==
  /\ phase = "cut"
  /\ parts[1][2] - parts[1][1] + 1 <= MaxChars
  /\ final' = Append(final, parts[1])
  /\ parts' = Tail(parts)
  /\ phase' = IF Len(parts) = 1 THEN "done" ELSE "cut"
  /\ UNCHANGED <<body, read, from>>

Next ==
  \/ Whole
  \/ \E first, last \in 1 .. N : Pack(first, last) \/ Flush(first, last)
  \/ LastPart \/ Cut \/ Keep

Spec == Init /\ [][Next]_vars

(* The function runs to its end, if it has one. *)
FairSpec == Spec /\ WF_vars(Next)

-----------------------------------------------------------------------------
Intervals == {<<lo, hi>> : lo, hi \in 1 .. N}

TypeOK ==
  /\ body \in Seq(Kinds) /\ NormalForm(body)
  /\ phase \in {"pack", "cut", "done"}
  /\ read \in 0 .. N
  /\ from \in 1 .. N
  /\ parts \in Seq(Intervals)
  /\ final \in Seq(Intervals)
  /\ phase = "cut" => parts # <<>>

(* The character at i is in a piece, or in a part that will be cut. *)
Placed(i) ==
  \/ \E k \in DOMAIN parts : parts[k][1] <= i /\ i <= parts[k][2]
  \/ \E k \in DOMAIN final : final[k][1] <= i /\ i <= final[k][2]

(* However the paragraphs fall, nothing of the section is left out of the  *)
(* index: not where parts meet, not at a cut, not in the overlap.          *)
NothingLost ==
  \A i \in 1 .. N : body[i] = "ink" /\ (phase = "pack" => i < from) => Placed(i)

(* Every piece fits, and neither begins nor ends with blanks. *)
PiecesFit ==
  \A k \in DOMAIN final :
    LET lo == final[k][1]
        hi == final[k][2]
    IN  /\ body[lo] = "ink" /\ body[hi] = "ink"
        /\ lo <= hi /\ hi - lo + 1 <= MaxChars

(* The pieces are in the order of the text, and no two are the same: what  *)
(* ordinal numbers is the reading order.                                   *)
InReadingOrder ==
  \A k, l \in DOMAIN final :
    k < l => /\ final[k] # final[l]
             /\ final[k][1] <= final[l][1] /\ final[k][2] <= final[l][2]

(* Where the overlap is at most half of the maximum: a cut leaves less of  *)
(* the part than there was, because no cut is in its first half.           *)
CutsShorten ==
  [][2 * Overlap <= MaxChars /\ phase = "cut" /\ Len(parts') = Len(parts) =>
       parts'[1][1] > parts[1][1]]_vars

(* Therefore the second loop ends, and the function returns. *)
Terminates == 2 * Overlap <= MaxChars => <>(phase = "done")
=============================================================================
