------------------------------ MODULE AuditLog ------------------------------
(***************************************************************************)
(* What the event log promises: what it holds stays, in its place, and     *)
(* nothing enters it twice.  That everything emitted enters it is not      *)
(* promised (see LossIsExplained of EventLogRequirements).                 *)
(***************************************************************************)
EXTENDS Naturals, Sequences

VARIABLE entries

Init == entries = <<>>

(* One more entry, after the others and different from them. *)
Next ==
  /\ Len(entries') = Len(entries) + 1
  /\ SubSeq(entries', 1, Len(entries)) = entries
  /\ \A k \in DOMAIN entries : entries[k] # entries'[Len(entries')]

Spec == Init /\ [][Next]_entries
=============================================================================
