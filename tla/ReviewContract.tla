--------------------------- MODULE ReviewContract ---------------------------
(***************************************************************************)
(* What the service promises of one request at a time, with no graph, no   *)
(* checkpoint and no model in sight: a case is opened, is cleared or held  *)
(* at the gate, is decided there by somebody, and ends once.  The service  *)
(* implements it when the calls on one request do not overlap (SerialSpec  *)
(* of PolicyReviewRequirements).                                           *)
(***************************************************************************)
CONSTANTS Cases,       \* the request ids
          Reviewers,   \* the names a decision can be signed with
          Nobody       \* the signature of a case nobody has decided

VARIABLE cases

(***************************************************************************)
(* unknown: never submitted; open: not assessed yet; gate: waits for a     *)
(* reviewer; cleared: assessed, and needs none; decided: signed, and not   *)
(* ended; released, refused, failed: ended.                                *)
(***************************************************************************)
Stages == {"unknown", "open", "cleared", "gate", "decided", "released", "refused", "failed"}

Rulings == {"approved", "rejected", "changes_requested"}

(***************************************************************************)
(* Whose position the answer given out states: none, while there is no     *)
(* answer; the assistant's; the reviewer's; or, in a notice, nobody's.     *)
(* Of whatever else an answer contains nothing is promised.                *)
(***************************************************************************)
Positions == {"", "assistant", "reviewer", "notice"}

(* mandatory: whatever the model says, the case needs a reviewer.          *)
CaseRecords == [stage     : Stages,
                mandatory : BOOLEAN,
                verdict   : Rulings \cup {""},
                by        : Reviewers \cup {Nobody},
                position  : Positions]

NewCase(stage, mandatory) ==
  [stage |-> stage, mandatory |-> mandatory, verdict |-> "", by |-> Nobody, position |-> ""]

Init == cases = [t \in Cases |-> NewCase("unknown", FALSE)]

(* An id may be submitted at any time: its former case is forgotten. *)
Submit(t) ==
  \E mandatory \in BOOLEAN : cases' = [cases EXCEPT ![t] = NewCase("open", mandatory)]

Hold(t) ==
  /\ cases[t].stage = "open"
  /\ cases' = [cases EXCEPT ![t] = [@ EXCEPT !.stage = "gate"]]

Clear(t) ==
  /\ cases[t].stage = "open"
  /\ ~cases[t].mandatory
  /\ cases' = [cases EXCEPT ![t] = [@ EXCEPT !.stage = "cleared"]]

Decide(t, verdict, reviewer) ==
  /\ cases[t].stage = "gate"
  /\ cases' = [cases EXCEPT ![t] = [@ EXCEPT !.stage   = "decided",
                                             !.verdict = verdict,
                                             !.by      = reviewer]]

Release(t) ==
  /\ cases[t].stage = "cleared" \/ (cases[t].stage = "decided" /\ cases[t].verdict = "approved")
  /\ \E position \in {"assistant", "notice"} :
       cases' = [cases EXCEPT ![t] = [@ EXCEPT !.stage = "released", !.position = position]]

Refuse(t) ==
  /\ cases[t].stage = "decided"
  /\ cases[t].verdict # "approved"
  /\ cases' = [cases EXCEPT ![t] = [@ EXCEPT !.stage = "refused", !.position = "reviewer"]]

GiveUp(t) ==
  /\ cases[t].stage \in {"open", "cleared"}
  /\ cases' = [cases EXCEPT ![t] = [@ EXCEPT !.stage = "failed", !.position = "notice"]]

Next ==
  \E t \in Cases :
    \/ Submit(t) \/ Hold(t) \/ Clear(t) \/ Release(t) \/ Refuse(t) \/ GiveUp(t)
    \/ \E verdict \in Rulings, reviewer \in Reviewers : Decide(t, verdict, reviewer)

Spec == Init /\ [][Next]_cases
=============================================================================
