----------------------------- MODULE WebReview -----------------------------
(***************************************************************************)
(* The web interface: the script of webapp/static/index.html in any number *)
(* of browser pages, the handlers of webapp/server.py, and the reviewers   *)
(* who use the command line (cli/review.py) beside them.  The calls of a   *)
(* page overlap: nothing keeps it from asking, deciding or resetting while *)
(* answers are on their way, and each answer is rendered when it comes.    *)
(*                                                                         *)
(* The service below the handlers is taken at the grain of its calls:      *)
(* submit is one step, for nobody else knows the new id; resume checks the *)
(* thread, then loads it, then commits what the run made of it, and other  *)
(* resumes of the same request may come between.  What a page shows is     *)
(* which request and at which stage: texts, risk badge, evidence, flow and *)
(* the events of the audit panel are left out.                             *)
(***************************************************************************)
EXTENDS Naturals

CONSTANTS Pages,      \* browser pages
          Requests,   \* the ids the service will draw
          Inputs,     \* what reviewers give in: a verdict, or "invalid"
          Commands,   \* whether reviewers use the command line as well
          Faults,     \* whether handlers raise and connections are lost
          MaxCalls    \* bound: calls in all

ASSUME WebAssumption == Commands \in BOOLEAN /\ Faults \in BOOLEAN /\ MaxCalls \in Nat

NoRequest == "no request"
CommandLine == "command line"

ASSUME NamesAssumption == NoRequest \notin Requests /\ CommandLine \notin Pages

VARIABLES
  cases,   \* what the server has of each request
  calls,   \* the calls, in the order they were made
  page     \* what each page holds and shows

vars == <<cases, calls, page>>

-----------------------------------------------------------------------------
(* gate: parked at the interrupt; the last three are ends. *)
Stages == {"new", "gate", "released", "refused", "failed"}

(* The end a verdict leads to. *)
StageAfter(verdict) == IF verdict = "approved" THEN "released" ELSE "refused"

(* held: it was parked; tries: the inputs refused since then. *)
Cases == [stage : Stages, held : BOOLEAN, tries : 0 .. 2]

(***************************************************************************)
(* What a call asks: op, thread, and, if it is a resume, the input (it is  *)
(* invalid without a reviewer, or without a reason for a refusal) and the  *)
(* request the page showed when the button was pressed; how far the server *)
(* is with it, and the tries of the checkpoint its run has loaded; what it *)
(* answers, a stage or "error"; and whether the caller waits.              *)
(***************************************************************************)
Calls == [by     : Pages \cup {CommandLine},
          op     : {"submit", "resume"},
          thread : Requests \cup {NoRequest},
          input  : Inputs \cup {""},
          seen   : Requests \cup {NoRequest},
          at     : {"unused", "sent", "checked", "loaded", "answered"},
          tries  : 0 .. 2,
          answer : Stages \cup {"error"},
          waits  : BOOLEAN]

Unused == [by |-> CommandLine, op |-> "submit", thread |-> NoRequest, input |-> "",
           seen |-> NoRequest, at |-> "unused", tries |-> 0, answer |-> "error", waits |-> FALSE]

(* current: the last result's thread; gate: the one whose sign-off panel   *)
(* is drawn; busy: the call that has disabled the panel's buttons, or 0;   *)
(* asking: Submit is disabled; shown, says: the answer panel.              *)
PageStates == [current : Requests \cup {NoRequest},
               gate    : Requests \cup {NoRequest},
               busy    : 0 .. MaxCalls,
               asking  : BOOLEAN,
               shown   : Requests \cup {NoRequest},
               says    : Stages]

Init ==
  /\ cases = [t \in Requests |-> [stage |-> "new", held |-> FALSE, tries |-> 0]]
  /\ calls = [k \in 1 .. MaxCalls |-> Unused]
  /\ page = [p \in Pages |-> [current |-> NoRequest, gate |-> NoRequest, busy |-> 0,
                              asking |-> FALSE, shown |-> NoRequest, says |-> "new"]]

(* The next call is k. *)
NextCall(k) == calls[k].at = "unused" /\ \A j \in 1 .. k - 1 : calls[j].at # "unused"

-----------------------------------------------------------------------------
(* What users do to page p. *)

(* The id the service will draw is one that nobody has used: ids are       *)
(* interchangeable, and any new one will do.                               *)
Fresh == {t \in Requests : \A k \in 1 .. MaxCalls : calls[k].thread # t}

(* A call on its way. *)
Sent(who, op, thread, input, seen) ==
  [by |-> who, op |-> op, thread |-> thread, input |-> input, seen |-> seen,
   at |-> "sent", tries |-> 0, answer |-> "error", waits |-> TRUE]

(* doAsk: by the button, or by the keys, which work while it is disabled. *)
Ask(p, k) ==
  /\ NextCall(k)
  /\ Fresh # {}
  /\ calls' = [calls EXCEPT ![k] = Sent(p, "submit", CHOOSE t \in Fresh : TRUE, "", NoRequest)]
  /\ page' = [page EXCEPT ![p] = [@ EXCEPT !.asking = TRUE, !.gate = NoRequest, !.busy = 0]]
  /\ UNCHANGED cases

(* doResume: a button of the panel that is drawn and enabled is pressed;   *)
(* the decision is sent for the thread of the last result.                 *)
Decide(p, k, input) ==
  /\ NextCall(k)
  /\ page[p].gate # NoRequest /\ page[p].busy = 0
  /\ calls' = [calls EXCEPT ![k] = Sent(p, "resume", page[p].current, input, page[p].gate)]
  /\ page' = [page EXCEPT ![p].busy = k]
  /\ UNCHANGED cases

(* Mutation: the panel stays. *)
MutantReset(p) ==
  /\ page' = [page EXCEPT ![p] = [@ EXCEPT !.current = NoRequest,
                                           !.shown = NoRequest, !.says = "new"]]
  /\ UNCHANGED <<cases, calls>>

(* Page p with the result t at stage, and the sign-off panel of gate. *)
Screen(p, t, stage, gate) ==
  [current |-> t, gate |-> gate, busy |-> 0, asking |-> page[p].asking, shown |-> t, says |-> stage]

(* The reset button: calls on their way are not given up. *)
Reset(p) ==
  /\ page' = [page EXCEPT ![p] = Screen(p, NoRequest, "new", NoRequest)]
  /\ UNCHANGED <<cases, calls>>

(* A reviewer who was told t resumes it from the command line. *)
CommandResume(k, t, input) ==
  /\ Commands
  /\ NextCall(k)
  /\ cases[t].stage # "new"
  /\ calls' = [calls EXCEPT ![k] = Sent(CommandLine, "resume", t, input, t)]
  /\ UNCHANGED <<cases, page>>

-----------------------------------------------------------------------------
(* What the server does with call k. *)

Is(k, op, at) == calls[k].op = op /\ calls[k].at = at

(* The handler of k returns stage, or raises. *)
Answered(k, stage) ==
  [calls EXCEPT ![k] = [@ EXCEPT !.at = "answered", !.tries = 0, !.answer = stage]]

(* The request is parked, answered or given up. *)
SubmitEnds(k) ==
  /\ Is(k, "submit", "sent")
  /\ \E stage \in {"gate", "released", "failed"} :
       /\ cases' = [cases EXCEPT ![calls[k].thread] = [stage |-> stage, held |-> stage = "gate",
                                                       tries |-> 0]]
       /\ calls' = Answered(k, stage)
  /\ UNCHANGED page

(* The checks of resume: 404 or 409 unless the request is parked. *)
ResumeChecks(k) ==
  /\ Is(k, "resume", "sent")
  /\ calls' = IF cases[calls[k].thread].stage = "gate"
                THEN [calls EXCEPT ![k].at = "checked"]
                ELSE Answered(k, "error")
  /\ UNCHANGED <<cases, page>>

(* The graph is invoked on the latest checkpoint: if another resume has    *)
(* ended the request by now, the run has nothing to do and returns that.   *)
ResumeLoads(k) ==
  LET case == cases[calls[k].thread] IN
  /\ Is(k, "resume", "checked")
  /\ calls' = IF case.stage = "gate"
                THEN [calls EXCEPT ![k] = [@ EXCEPT !.at = "loaded", !.tries = case.tries]]
                ELSE Answered(k, case.stage)
  /\ UNCHANGED <<cases, page>>

(* Mutation: an input that is refused a second time is taken. *)
MutantTakes(k) == calls[k].input # "invalid" \/ calls[k].tries = 1

(* The input is accepted by one of the two interrupts of the node. *)
Takes(k) == calls[k].input # "invalid" /\ calls[k].tries < 2

(* The decision is committed, whatever became of the request meanwhile. *)
ResumeDecides(k) ==
  LET stage == StageAfter(calls[k].input) IN
  /\ Is(k, "resume", "loaded")
  /\ Takes(k)
  /\ cases' = [cases EXCEPT ![calls[k].thread].stage = stage]
  /\ calls' = Answered(k, stage)
  /\ UNCHANGED page

(* Mutation: every refused input is kept, however many there are. *)
MutantResumeRefuses(k) ==
  /\ Is(k, "resume", "loaded")
  /\ ~Takes(k)
  /\ cases' = [cases EXCEPT ![calls[k].thread].tries = calls[k].tries + 1]
  /\ calls' = Answered(k, IF calls[k].tries = 0 THEN "gate" ELSE "error")
  /\ UNCHANGED page

(* The input is refused: the first time the node interrupts again, from    *)
(* then on it raises (400), and may or may not keep the input.  The run    *)
(* writes beside the checkpoint it holds, which a decision supersedes.     *)
ResumeRefuses(k) ==
  LET t == calls[k].thread IN
  /\ Is(k, "resume", "loaded")
  /\ ~Takes(k)
  /\ \E tries \in IF calls[k].tries = 0 THEN {1} ELSE calls[k].tries .. 2 :
       cases' = IF cases[t].stage = "gate" THEN [cases EXCEPT ![t].tries = tries] ELSE cases
  /\ calls' = Answered(k, IF calls[k].tries = 0 THEN "gate" ELSE "error")
  /\ UNCHANGED page

(* An exception in the handler (500), or the server dies, before anything  *)
(* is committed: what a submit has saved has an id that nobody was told.   *)
Break(k) ==
  /\ Faults
  /\ calls[k].at \in {"sent", "loaded"}
  /\ calls' = Answered(k, "error")
  /\ UNCHANGED <<cases, page>>

Serve(k) ==
  \/ SubmitEnds(k) \/ ResumeChecks(k) \/ ResumeLoads(k) \/ ResumeDecides(k) \/ ResumeRefuses(k)
  \/ Break(k)

-----------------------------------------------------------------------------
(* What the answers do to the pages. *)

(* What the caller of k gets, and waits no more: the answer, or an error   *)
(* because the connection is lost, which the server does not notice.       *)
Gets(k, s) ==
  /\ calls[k].waits
  /\ \/ calls[k].at = "answered" /\ s = calls[k].answer
     \/ Faults /\ s = "error"
  /\ calls' = [calls EXCEPT ![k].waits = FALSE]

(* Mutation: a result that awaits nobody leaves the panel of another. *)
MutantRender(p, t, stage) == Screen(p, t, stage, IF stage = "gate" THEN t ELSE page[p].gate)

(* render: the result replaces the last one, and its panel, if it awaits   *)
(* a reviewer, whatever panel is drawn.                                    *)
Render(p, t, stage) == Screen(p, t, stage, IF stage = "gate" THEN t ELSE NoRequest)

(* The rest of doAsk: Submit is enabled again, whatever came. *)
AskReturns(k, s) ==
  LET p == calls[k].by IN
  /\ calls[k].op = "submit"
  /\ Gets(k, s)
  /\ page' = [page EXCEPT
       ![p] = [(IF s = "error" THEN page[p] ELSE Render(p, calls[k].thread, s))
                 EXCEPT !.asking = FALSE]]
  /\ UNCHANGED cases

(* Mutation: the buttons of the panel stay disabled after an error. *)
MutantDecideReturns(k, s) ==
  LET p == calls[k].by IN
  /\ calls[k].op = "resume"
  /\ Gets(k, s)
  /\ page' = IF p = CommandLine \/ s = "error" THEN page
             ELSE [page EXCEPT ![p] = Render(p, calls[k].thread, s)]
  /\ UNCHANGED cases

(* The rest of doResume: after an error the buttons it has disabled are    *)
(* enabled again, if they are still there.                                 *)
DecideReturns(k, s) ==
  LET p == calls[k].by IN
  /\ calls[k].op = "resume"
  /\ Gets(k, s)
  /\ page' = CASE p = CommandLine -> page
               [] p # CommandLine /\ s # "error" ->
                    [page EXCEPT ![p] = Render(p, calls[k].thread, s)]
               [] OTHER -> [page EXCEPT ![p].busy = IF @ = k THEN 0 ELSE @]
  /\ UNCHANGED cases

Return(k) == \E s \in Stages \cup {"error"} : AskReturns(k, s) \/ DecideReturns(k, s)

-----------------------------------------------------------------------------
Use(p) ==
  \/ Reset(p)
  \/ \E k \in 1 .. MaxCalls :
       \/ Ask(p, k)
       \/ \E input \in Inputs : Decide(p, k, input)

Next ==
  \/ \E p \in Pages : Use(p)
  \/ \E k \in 1 .. MaxCalls :
       \/ \E t \in Requests, input \in Inputs : CommandResume(k, t, input)
       \/ Serve(k) \/ Return(k)

Spec == Init /\ [][Next]_vars

-----------------------------------------------------------------------------
TypeOK ==
  /\ cases \in [Requests -> Cases]
  /\ calls \in [1 .. MaxCalls -> Calls]
  /\ page \in [Pages -> PageStates]

(* The sign-off panel is that of the last result, whatever late answers    *)
(* came, and however the page was reset or asked again meanwhile: a        *)
(* decision is sent for the request its reviewer sees, or not at all.      *)
GateIsCurrent ==
  \A p \in Pages : page[p].gate # NoRequest => page[p].gate = page[p].current

(* "No answer appears until a reviewer decides" (README.md): beside a      *)
(* sign-off panel no answer is shown, of its request or of another.        *)
NoAnswerBesideGate ==
  \A p \in Pages :
    page[p].gate # NoRequest => page[p].shown = page[p].gate /\ page[p].says = "gate"

(* Somebody decided t, with a valid input, and saw t when deciding. *)
Sought(t, stage) ==
  \E k \in 1 .. MaxCalls :
    /\ calls[k].op = "resume" /\ calls[k].thread = t /\ calls[k].seen = t
    /\ calls[k].input # "invalid" /\ StageAfter(calls[k].input) = stage

(* What the server holds as decided, and what any page shows as decided,   *)
(* somebody wanted who saw that request: also when resumes of it overlap,  *)
(* answers come late or are lost, and inputs were refused before.          *)
DecidedAsSeen ==
  /\ \A t \in Requests :
       cases[t].held /\ cases[t].stage \in {"released", "refused"} => Sought(t, cases[t].stage)
  /\ \A p \in Pages :
       page[p].says \in {"released", "refused"} /\ cases[page[p].shown].held =>
         Sought(page[p].shown, page[p].says)

(* A refused or lost call never leaves a page without its controls: what   *)
(* is disabled waits for a call that is still on its way, whose return     *)
(* enables it.                                                             *)
DisabledWhileWaiting ==
  \A p \in Pages :
    /\ page[p].asking =>
         \E k \in 1 .. MaxCalls : calls[k].by = p /\ calls[k].op = "submit" /\ calls[k].waits
    /\ page[p].busy # 0 =>
         LET c == calls[page[p].busy] IN c.by = p /\ c.op = "resume" /\ c.waits
=============================================================================
