------------------------ MODULE PolicyIndexContract ------------------------
(***************************************************************************)
(* What the policy index promises the retrievers, with no pipeline, no     *)
(* store and no identifier in sight: a document is on the shelf as the     *)
(* whole of one edition, or not at all; it is taken away by itself, put    *)
(* back together with the others of its batch, all of one fit, and never   *)
(* overwritten; an answer is taken from the shelf at one moment.           *)
(***************************************************************************)
CONSTANTS Documents,
          Readers,
          Fits,       \* the fits of the embedder
          Editions    \* for a document and a fit: its editions, as sets of passages

VARIABLES shelf,      \* what can be found of each document: an edition, or nothing
          found       \* what the last answer of each reader was made of

vars == <<shelf, found>>

Init ==
  /\ shelf = [d \in Documents |-> {}]
  /\ found = [r \in Readers |-> {}]

(* A document is taken away. *)
Withdraw(d) ==
  /\ shelf[d] # {}
  /\ shelf' = [shelf EXCEPT ![d] = {}]
  /\ UNCHANGED found

(* Documents of which nothing is on the shelf are put there together. *)
Issue(fit) ==
  /\ shelf' = [d \in Documents |-> shelf'[d]]
  /\ \A d \in Documents :
       shelf'[d] # shelf[d] => shelf[d] = {} /\ shelf'[d] \in Editions[<<d, fit>>]
  /\ UNCHANGED found

(* An answer, or none. *)
Answer(r) ==
  /\ found' = [found EXCEPT ![r] = found'[r]]
  /\ found'[r] \subseteq UNION {shelf[d] : d \in Documents}
  /\ UNCHANGED shelf

Next ==
  \/ \E d \in Documents : Withdraw(d)
  \/ \E fit \in Fits : Issue(fit)
  \/ \E r \in Readers : Answer(r)

Spec == Init /\ [][Next]_vars
=============================================================================
