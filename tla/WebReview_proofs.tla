-------------------------- MODULE WebReview_proofs --------------------------
(***************************************************************************)
(* The properties of the web interface, for any pages, requests, inputs    *)
(* and number of calls.  What makes them inductive: a call carries the id  *)
(* its caller saw, an answer was wanted by somebody when it was given, and *)
(* only one call can park a request.                                       *)
(***************************************************************************)
EXTENDS WebReview, TLAPS

Ends == {"released", "refused"}

(* What is known of a call, by how far it is. *)
CallSound(k) ==
  LET c == calls[k] IN
  /\ c.at = "unused" => c = Unused
  /\ c.at # "unused" => c.thread \in Requests
  /\ c.op = "submit" /\ c.at # "unused" => c.by \in Pages
  /\ c.op = "submit" /\ c.at = "sent" => cases[c.thread].stage = "new"
  /\ c.op = "submit" /\ c.at = "answered" /\ c.answer \in Ends => ~cases[c.thread].held
  /\ c.op = "resume" => c.seen = c.thread /\ cases[c.thread].stage # "new"
  /\ c.op = "resume" /\ c.at = "answered" /\ c.answer \in Ends /\ cases[c.thread].held
       => Sought(c.thread, c.answer)
  /\ c.at = "answered" /\ c.answer # "error" => cases[c.thread].stage # "new"

CallsSound == \A k \in 1 .. MaxCalls : CallSound(k)

(* No two submits have drawn the same id. *)
SubmitsDiffer ==
  \A j, k \in 1 .. MaxCalls :
    /\ calls[j].op = "submit" /\ calls[j].at # "unused"
    /\ calls[k].op = "submit" /\ calls[k].at # "unused"
    /\ calls[j].thread = calls[k].thread
    => j = k

(* What a page shows is known to the server. *)
PagesSound ==
  \A p \in Pages :
    /\ page[p].current # NoRequest => cases[page[p].current].stage # "new"
    /\ page[p].shown # NoRequest => cases[page[p].shown].stage # "new"
    /\ page[p].says \in Ends => page[p].shown # NoRequest

(* An id that no call has is that of no request the server knows. *)
KnownAreCalled ==
  \A t \in Requests :
    cases[t].stage # "new" => \E k \in 1 .. MaxCalls : calls[k].thread = t

Inv ==
  /\ TypeOK /\ GateIsCurrent /\ NoAnswerBesideGate /\ DisabledWhileWaiting
  /\ CallsSound /\ SubmitsDiffer /\ PagesSound /\ KnownAreCalled /\ DecidedAsSeen

-----------------------------------------------------------------------------
(* An unused call is a call. *)
LEMMA UnusedType == Unused \in Calls
BY DEF Unused, Calls, Stages

(* The pages' own invariants: what is drawn together stays together. *)
LEMMA PagesInit == Init => TypeOK /\ GateIsCurrent /\ NoAnswerBesideGate /\ DisabledWhileWaiting
<1> SUFFICES ASSUME Init
             PROVE  TypeOK /\ GateIsCurrent /\ NoAnswerBesideGate /\ DisabledWhileWaiting
  OBVIOUS
<1>1. cases \in [Requests -> Cases]
  BY DEF Init, Cases, Stages
<1>2. calls \in [1 .. MaxCalls -> Calls]
  BY UnusedType DEF Init
<1>3. page \in [Pages -> PageStates]
  BY WebAssumption DEF Init, PageStates, Stages
<1> QED
  BY <1>1, <1>2, <1>3 DEF TypeOK, GateIsCurrent, NoAnswerBesideGate, DisabledWhileWaiting, Init

(* Before any call nothing is known of one. *)
LEMMA CallsInit ==
  Init => CallsSound /\ SubmitsDiffer /\ PagesSound /\ KnownAreCalled /\ DecidedAsSeen
<1> SUFFICES ASSUME Init
             PROVE  CallsSound /\ SubmitsDiffer /\ PagesSound /\ KnownAreCalled /\ DecidedAsSeen
  OBVIOUS
<1>1. CallsSound
  BY DEF Init, CallsSound, CallSound, Unused
<1>2. SubmitsDiffer
  BY DEF Init, SubmitsDiffer, Unused
<1>3. PagesSound /\ KnownAreCalled /\ DecidedAsSeen
  BY DEF Init, PagesSound, KnownAreCalled, DecidedAsSeen, Ends
<1> QED
  BY <1>1, <1>2, <1>3

-----------------------------------------------------------------------------
(* What the steps do to one call and to one page. *)

(* A field of a page, of a call or of a case is replaced. *)
LEMMA PageField ==
  ASSUME NEW r \in PageStates
  PROVE  /\ \A t \in Requests \cup {NoRequest} :
              /\ [r EXCEPT !.current = t] \in PageStates
              /\ [r EXCEPT !.gate = t] \in PageStates
              /\ [r EXCEPT !.shown = t] \in PageStates
         /\ \A k \in 0 .. MaxCalls : [r EXCEPT !.busy = k] \in PageStates
         /\ \A b \in BOOLEAN : [r EXCEPT !.asking = b] \in PageStates
         /\ \A stage \in Stages : [r EXCEPT !.says = stage] \in PageStates
BY DEF PageStates

(* A call with one field changed is a call. *)
LEMMA CallField ==
  ASSUME NEW r \in Calls
  PROVE  /\ \A w \in Pages \cup {CommandLine} : [r EXCEPT !.by = w] \in Calls
         /\ \A op \in {"submit", "resume"} : [r EXCEPT !.op = op] \in Calls
         /\ \A t \in Requests \cup {NoRequest} :
              [r EXCEPT !.thread = t] \in Calls /\ [r EXCEPT !.seen = t] \in Calls
         /\ \A i \in Inputs : [r EXCEPT !.input = i] \in Calls
         /\ \A at \in {"unused", "sent", "checked", "loaded", "answered"} :
              [r EXCEPT !.at = at] \in Calls
         /\ \A tries \in 0 .. 2 : [r EXCEPT !.tries = tries] \in Calls
         /\ \A s \in Stages \cup {"error"} : [r EXCEPT !.answer = s] \in Calls
         /\ \A b \in BOOLEAN : [r EXCEPT !.waits = b] \in Calls
BY DEF Calls

(* A case with one field changed is a case. *)
LEMMA CaseField ==
  ASSUME NEW r \in Cases
  PROVE  /\ \A stage \in Stages : [r EXCEPT !.stage = stage] \in Cases
         /\ \A tries \in 0 .. 2 : [r EXCEPT !.tries = tries] \in Cases
BY DEF Cases

(* The types of the fields of a call. *)
LEMMA CallType ==
  ASSUME NEW r \in Calls
  PROVE  /\ r.tries \in 0 .. 2
         /\ r.by \in Pages \cup {CommandLine}
         /\ r.thread \in Requests \cup {NoRequest}
BY DEF Calls

(* A screen is a state of a page. *)
LEMMA ScreenType ==
  ASSUME TypeOK, NEW p \in Pages, NEW t \in Requests \cup {NoRequest}, NEW stage \in Stages,
         NEW gate \in Requests \cup {NoRequest}
  PROVE  Screen(p, t, stage, gate) \in PageStates
<1>1. 0 \in 0 .. MaxCalls
  BY WebAssumption
<1>2. page[p].asking \in BOOLEAN
  BY DEF TypeOK, PageStates
<1> QED
  BY <1>1, <1>2 DEF Screen, PageStates

(* So is that of a page that asks. *)
LEMMA PageAsking ==
  ASSUME NEW r \in PageStates
  PROVE  [r EXCEPT !.asking = TRUE, !.gate = NoRequest, !.busy = 0] \in PageStates
<1> 0 \in 0 .. MaxCalls /\ NoRequest \in Requests \cup {NoRequest}
  BY WebAssumption
<1> DEFINE r1 == [r EXCEPT !.asking = TRUE]
           r2 == [r1 EXCEPT !.gate = NoRequest]
           r3 == [r2 EXCEPT !.busy = 0]
<1>1. r1 \in PageStates
  BY PageField
<1>2. r2 \in PageStates
  <2> HIDE DEF r1
  <2> QED
    BY <1>1, PageField
<1>3. r3 \in PageStates
  <2> HIDE DEF r2
  <2> QED
    BY <1>2, PageField
<1> QED
  BY <1>3

(* Nothing refused is a number of refusals. *)
LEMMA ZeroTries == 0 \in 0 .. 2
OBVIOUS

(* What is sent is a call. *)
LEMMA SentType ==
  ASSUME NEW who \in Pages \cup {CommandLine}, NEW op \in {"submit", "resume"},
         NEW thread \in Requests \cup {NoRequest}, NEW input \in Inputs \cup {""},
         NEW seen \in Requests \cup {NoRequest}
  PROVE  Sent(who, op, thread, input, seen) \in Calls
BY ZeroTries DEF Sent, Calls

(* A call that has loaded the checkpoint is a call. *)
LEMMA CallLoads ==
  ASSUME NEW r \in Calls, NEW tries \in 0 .. 2
  PROVE  [r EXCEPT !.at = "loaded", !.tries = tries] \in Calls
<1> DEFINE r1 == [r EXCEPT !.at = "loaded"]
           r2 == [r1 EXCEPT !.tries = tries]
<1>1. r1 \in Calls
  BY CallField
<1>2. r2 \in Calls
  <2> HIDE DEF r1
  <2> QED
    BY <1>1, CallField
<1> QED
  BY <1>2

(* A call that is answered is a call. *)
LEMMA CallAnswers ==
  ASSUME NEW r \in Calls, NEW stage \in Stages \cup {"error"}
  PROVE  [r EXCEPT !.at = "answered", !.tries = 0, !.answer = stage] \in Calls
<1> 0 \in 0 .. 2
  OBVIOUS
<1> DEFINE r1 == [r EXCEPT !.at = "answered"]
           r2 == [r1 EXCEPT !.tries = 0]
           r3 == [r2 EXCEPT !.answer = stage]
<1>1. r1 \in Calls
  BY CallField
<1>2. r2 \in Calls
  <2> HIDE DEF r1
  <2> QED
    BY <1>1, CallField
<1>3. r3 \in Calls
  <2> HIDE DEF r2
  <2> QED
    BY <1>2, CallField
<1> QED
  BY <1>3

(* The calls, once one of them is answered. *)
LEMMA AnsweredType ==
  ASSUME TypeOK, NEW k \in 1 .. MaxCalls, NEW stage \in Stages \cup {"error"}
  PROVE  Answered(k, stage) \in [1 .. MaxCalls -> Calls]
BY CallAnswers DEF Answered, TypeOK

(* What is rendered is a state of a page. *)
LEMMA RenderType ==
  ASSUME TypeOK, NEW p \in Pages, NEW t \in Requests \cup {NoRequest}, NEW stage \in Stages
  PROVE  Render(p, t, stage) \in PageStates
BY ScreenType DEF Render

(* A valid input ends its request. *)
LEMMA StageAfterType == ASSUME NEW v PROVE StageAfter(v) \in Ends
BY DEF StageAfter, Ends

(* Every step keeps the types. *)
LEMMA TypeInvariant ==
  ASSUME TypeOK, CallsSound, [Next]_vars
  PROVE  TypeOK'
<1> USE DEF TypeOK
<1>1. ASSUME NEW p \in Pages, Reset(p) PROVE TypeOK'
  <2>1. Screen(p, NoRequest, "new", NoRequest) \in PageStates
    BY ScreenType DEF Stages
  <2> QED
    BY <1>1, <2>1 DEF Reset
<1>2. ASSUME NEW p \in Pages, NEW k \in 1 .. MaxCalls, Ask(p, k) PROVE TypeOK'
  <2>1. PICK t \in Requests : t = CHOOSE u \in Fresh : TRUE
    BY <1>2 DEF Ask, Fresh
  <2>2. calls' = [calls EXCEPT ![k] = Sent(p, "submit", t, "", NoRequest)]
    BY <1>2, <2>1 DEF Ask
  <2>3. calls' \in [1 .. MaxCalls -> Calls]
    BY <2>2, SentType
  <2>4. [page[p] EXCEPT !.asking = TRUE, !.gate = NoRequest, !.busy = 0] \in PageStates
    BY PageAsking
  <2> QED
    BY <1>2, <2>3, <2>4 DEF Ask
<1>3. ASSUME NEW p \in Pages, NEW k \in 1 .. MaxCalls, NEW input \in Inputs, Decide(p, k, input)
      PROVE  TypeOK'
  <2>1. page[p].current \in Requests \cup {NoRequest} /\ page[p].gate \in Requests \cup {NoRequest}
    BY DEF PageStates
  <2>2. calls' \in [1 .. MaxCalls -> Calls]
    BY <1>3, <2>1, SentType DEF Decide
  <2>3. [page[p] EXCEPT !.busy = k] \in PageStates
    BY PageField
  <2>4. page' = [page EXCEPT ![p] = [page[p] EXCEPT !.busy = k]]
    BY <1>3 DEF Decide
  <2> QED
    BY <1>3, <2>2, <2>3, <2>4 DEF Decide
<1>4. ASSUME NEW k \in 1 .. MaxCalls, NEW t \in Requests, NEW input \in Inputs,
             CommandResume(k, t, input)
      PROVE  TypeOK'
  BY <1>4, SentType DEF CommandResume
<1>5. ASSUME NEW k \in 1 .. MaxCalls, SubmitEnds(k) PROVE TypeOK'
  <2>1. PICK stage \in {"gate", "released", "failed"} :
          /\ cases' = [cases EXCEPT ![calls[k].thread] = [stage |-> stage, held |-> stage = "gate",
                                                          tries |-> 0]]
          /\ calls' = Answered(k, stage)
    BY <1>5 DEF SubmitEnds
  <2>2. [stage |-> stage, held |-> stage = "gate", tries |-> 0] \in Cases
    BY DEF Cases, Stages
  <2>3. calls' \in [1 .. MaxCalls -> Calls]
    BY <2>1, AnsweredType DEF Stages
  <2> QED
    BY <1>5, <2>1, <2>2, <2>3 DEF SubmitEnds
<1>6. ASSUME NEW k \in 1 .. MaxCalls, ResumeChecks(k) PROVE TypeOK'
  <2>1. [calls[k] EXCEPT !.at = "checked"] \in Calls
    BY CallField
  <2>2. calls' \in [1 .. MaxCalls -> Calls]
    <3>1. CASE cases[calls[k].thread].stage = "gate"
      BY <1>6, <2>1, <3>1 DEF ResumeChecks
    <3>2. CASE cases[calls[k].thread].stage # "gate"
      BY <1>6, <3>2, AnsweredType DEF ResumeChecks
    <3> QED
      BY <3>1, <3>2
  <2> QED
    BY <1>6, <2>2 DEF ResumeChecks
<1>7. ASSUME NEW k \in 1 .. MaxCalls, ResumeLoads(k) PROVE TypeOK'
  <2> DEFINE case == cases[calls[k].thread]
  <2>1. case \in Cases
    BY <1>7 DEF ResumeLoads, Is, CallsSound, CallSound
  <2> HIDE DEF case
  <2>2. case.stage \in Stages /\ case.tries \in 0 .. 2
    BY <2>1 DEF Cases
  <2>3. [calls[k] EXCEPT !.at = "loaded", !.tries = case.tries] \in Calls
    BY <2>2, CallLoads
  <2>4. calls' = IF case.stage = "gate"
                   THEN [calls EXCEPT ![k] = [calls[k] EXCEPT !.at = "loaded",
                                                              !.tries = case.tries]]
                   ELSE Answered(k, case.stage)
    BY <1>7 DEF ResumeLoads, case
  <2>5. calls' \in [1 .. MaxCalls -> Calls]
    BY <2>2, <2>3, <2>4, AnsweredType
  <2> QED
    BY <1>7, <2>5 DEF ResumeLoads
<1>8. ASSUME NEW k \in 1 .. MaxCalls, ResumeDecides(k) PROVE TypeOK'
  <2> DEFINE stage == StageAfter(calls[k].input)
             t == calls[k].thread
  <2>1. stage \in Stages
    BY StageAfterType DEF Ends, Stages
  <2>2. t \in Requests
    BY <1>8 DEF ResumeDecides, Is, CallsSound, CallSound
  <2>3. cases' = [cases EXCEPT ![t].stage = stage] /\ calls' = Answered(k, stage) /\ page' = page
    BY <1>8 DEF ResumeDecides
  <2> HIDE DEF stage, t
  <2>4. [cases[t] EXCEPT !.stage = stage] \in Cases
    BY <2>1, <2>2, CaseField
  <2>5. cases' \in [Requests -> Cases]
    BY <2>2, <2>3, <2>4
  <2>6. calls' \in [1 .. MaxCalls -> Calls]
    BY <2>1, <2>3, AnsweredType
  <2> QED
    BY <2>3, <2>5, <2>6
<1>9. ASSUME NEW k \in 1 .. MaxCalls, ResumeRefuses(k) PROVE TypeOK'
  <2> DEFINE t == calls[k].thread
  <2>1. calls[k].tries \in 0 .. 2
    BY CallType
  <2>2. t \in Requests
    BY <1>9 DEF ResumeRefuses, Is, CallsSound, CallSound
  <2>3. PICK tries \in 0 .. 2 :
          cases' = IF cases[t].stage = "gate" THEN [cases EXCEPT ![t].tries = tries] ELSE cases
    <3>1. {1} \subseteq 0 .. 2 /\ calls[k].tries .. 2 \subseteq 0 .. 2
      BY <2>1
    <3> QED
      BY <1>9, <3>1 DEF ResumeRefuses
  <2> HIDE DEF t
  <2>4. [cases[t] EXCEPT !.tries = tries] \in Cases
    BY <2>2, CaseField
  <2>5. cases' \in [Requests -> Cases]
    BY <2>2, <2>3, <2>4
  <2>6. calls' \in [1 .. MaxCalls -> Calls]
    BY <1>9, AnsweredType DEF ResumeRefuses, Stages
  <2> QED
    BY <1>9, <2>5, <2>6 DEF ResumeRefuses
<1>10. ASSUME NEW k \in 1 .. MaxCalls, Break(k) PROVE TypeOK'
  BY <1>10, AnsweredType DEF Break
<1>11. ASSUME NEW k \in 1 .. MaxCalls, NEW s \in Stages \cup {"error"},
              AskReturns(k, s) \/ DecideReturns(k, s)
       PROVE  TypeOK'
  <2> DEFINE p == calls[k].by
             t == calls[k].thread
  <2>1. calls' = [calls EXCEPT ![k] = [calls[k] EXCEPT !.waits = FALSE]] /\ cases' = cases
    BY <1>11 DEF AskReturns, DecideReturns, Gets
  <2>2. [calls[k] EXCEPT !.waits = FALSE] \in Calls
    BY CallField
  <2>3. calls' \in [1 .. MaxCalls -> Calls]
    BY <2>1, <2>2
  <2>4. p \in Pages \cup {CommandLine} /\ t \in Requests \cup {NoRequest}
    BY CallType
  <2>5. page' \in [Pages -> PageStates]
    <3>1. CASE p \notin Pages
      BY <1>11, <2>4, <3>1 DEF AskReturns, DecideReturns
    <3>2. CASE p \in Pages
      <4>1. s # "error" => Render(p, t, s) \in PageStates
        BY <2>4, <3>2, RenderType
      <4>2. [(IF s = "error" THEN page[p] ELSE Render(p, t, s)) EXCEPT !.asking = FALSE]
              \in PageStates
        BY <3>2, <4>1, PageField
      <4>3. [page[p] EXCEPT !.busy = IF page[p].busy = k THEN 0 ELSE page[p].busy] \in PageStates
        <5>1. (IF page[p].busy = k THEN 0 ELSE page[p].busy) \in 0 .. MaxCalls
          BY <3>2, WebAssumption DEF PageStates
        <5> QED
          BY <3>2, <5>1, PageField
      <4>4. CASE AskReturns(k, s)
        BY <3>2, <4>2, <4>4 DEF AskReturns
      <4>5. CASE DecideReturns(k, s)
        <5>1. \/ page' = page
              \/ s # "error" /\ page' = [page EXCEPT ![p] = Render(p, t, s)]
              \/ page' = [page EXCEPT ![p] = [page[p] EXCEPT !.busy = IF page[p].busy = k THEN 0 ELSE page[p].busy]]
          BY <4>5 DEF DecideReturns
        <5> QED
          BY <3>2, <4>1, <4>3, <5>1
      <4> QED
        BY <1>11, <4>4, <4>5
    <3> QED
      BY <3>1, <3>2
  <2> QED
    BY <2>1, <2>3, <2>5
<1>12. CASE UNCHANGED vars
  BY <1>12 DEF vars
<1> QED
  BY <1>1, <1>2, <1>3, <1>4, <1>5, <1>6, <1>7, <1>8, <1>9, <1>10, <1>11, <1>12
     DEF Next, Use, Serve, Return

-----------------------------------------------------------------------------
(* What is drawn together stays together. *)

PageGood(r) ==
  r.gate # NoRequest => r.gate = r.current /\ r.shown = r.gate /\ r.says = "gate"

(* The controls do not change what a page shows. *)
LEMMA PageGoodField ==
  ASSUME NEW r \in PageStates, PageGood(r)
  PROVE  /\ \A b \in BOOLEAN : PageGood([r EXCEPT !.asking = b])
         /\ \A k \in 0 .. MaxCalls : PageGood([r EXCEPT !.busy = k])
BY DEF PageGood, PageStates

(* A page that asks draws no panel. *)
LEMMA AskingGood ==
  ASSUME NEW r \in PageStates
  PROVE  PageGood([r EXCEPT !.asking = TRUE, !.gate = NoRequest, !.busy = 0])
<1> DEFINE r1 == [r EXCEPT !.asking = TRUE]
           r2 == [r1 EXCEPT !.gate = NoRequest]
           r3 == [r2 EXCEPT !.busy = 0]
<1>1. r1 \in PageStates
  BY PageField
<1>2. r2 \in PageStates /\ r2.gate = NoRequest
  <2> HIDE DEF r1
  <2> QED
    BY <1>1 DEF PageStates
<1>3. r3.gate = NoRequest
  <2> HIDE DEF r2
  <2> QED
    BY <1>2 DEF PageStates
<1> QED
  BY <1>3 DEF PageGood

(* What is rendered is drawn together. *)
LEMMA RenderGood ==
  ASSUME NEW p, NEW t, NEW stage
  PROVE  PageGood(Render(p, t, stage))
BY DEF PageGood, Render, Screen

(* The page of a call that returns, and the others. *)
LEMMA PagesAfterReturn ==
  ASSUME TypeOK, NEW k \in 1 .. MaxCalls, NEW s \in Stages \cup {"error"},
         AskReturns(k, s) \/ DecideReturns(k, s), NEW q \in Pages
  PROVE  \/ page'[q] = page[q] /\ (calls[k].by = q => calls[k].op = "resume" /\ page[q].busy # k)
         \/ calls[k].by = q /\ calls[k].op = "submit"
            /\ page'[q] = [page[q] EXCEPT !.asking = FALSE]
         \/ calls[k].by = q /\ calls[k].op = "submit" /\ s # "error"
            /\ page'[q] = [Render(q, calls[k].thread, s) EXCEPT !.asking = FALSE]
         \/ calls[k].by = q /\ calls[k].op = "resume" /\ s # "error"
            /\ page'[q] = Render(q, calls[k].thread, s)
         \/ calls[k].by = q /\ calls[k].op = "resume" /\ page'[q] = [page[q] EXCEPT !.busy = 0]
<1> DEFINE p == calls[k].by
<1>0. page \in [Pages -> PageStates] /\ page[q] \in PageStates /\ page[q].busy \in 0 .. MaxCalls
  BY DEF TypeOK, PageStates
<1>1. CASE p # q
  BY <1>0, <1>1 DEF AskReturns, DecideReturns
<1>2. CASE p = q /\ AskReturns(k, s)
  BY <1>0, <1>2 DEF AskReturns
<1>3. CASE p = q /\ DecideReturns(k, s)
  <2>1. p # CommandLine
    BY <1>3, NamesAssumption
  <2>2. CASE s # "error"
    BY <1>0, <1>3, <2>1, <2>2 DEF DecideReturns
  <2>3. CASE s = "error"
    <3>1. page' = [page EXCEPT ![p].busy = IF @ = k THEN 0 ELSE @]
      BY <1>3, <2>1, <2>3 DEF DecideReturns
    <3>2. page'[q] = [page[q] EXCEPT !.busy = IF page[q].busy = k THEN 0 ELSE page[q].busy]
      BY <1>0, <1>3, <3>1
    <3>3. CASE page[q].busy = k
      BY <1>3, <3>2, <3>3 DEF DecideReturns
    <3>4. CASE page[q].busy # k
      <4>1. page'[q] = page[q]
        BY <1>0, <3>2, <3>4 DEF PageStates
      <4> QED
        BY <1>3, <3>4, <4>1 DEF DecideReturns
    <3> QED
      BY <3>3, <3>4
  <2> QED
    BY <2>2, <2>3
<1> QED
  BY <1>1, <1>2, <1>3

(* A panel is drawn for the current request, and beside no answer. *)
LEMMA PanelsInvariant ==
  ASSUME TypeOK, GateIsCurrent, NoAnswerBesideGate, [Next]_vars
  PROVE  GateIsCurrent' /\ NoAnswerBesideGate'
<1>1. SUFFICES ASSUME NEW q \in Pages PROVE PageGood(page'[q])
  BY DEF GateIsCurrent, NoAnswerBesideGate, PageGood
<1>2. PageGood(page[q]) /\ page[q] \in PageStates /\ page \in [Pages -> PageStates]
  BY DEF GateIsCurrent, NoAnswerBesideGate, PageGood, TypeOK
<1>3. CASE page' = page
  BY <1>2, <1>3
<1>4. ASSUME NEW p \in Pages, Reset(p) PROVE PageGood(page'[q])
  BY <1>2, <1>4 DEF Reset, Screen, PageGood
<1>5. ASSUME NEW p \in Pages, NEW k \in 1 .. MaxCalls, Ask(p, k) PROVE PageGood(page'[q])
  BY <1>2, <1>5, AskingGood DEF Ask
<1>6. ASSUME NEW p \in Pages, NEW k \in 1 .. MaxCalls, NEW input \in Inputs, Decide(p, k, input)
      PROVE  PageGood(page'[q])
  <2>1. page' = [page EXCEPT ![p] = [page[p] EXCEPT !.busy = k]]
    BY <1>6 DEF Decide
  <2> QED
    BY <1>2, <2>1, PageGoodField
<1>7. ASSUME NEW k \in 1 .. MaxCalls, NEW s \in Stages \cup {"error"},
             AskReturns(k, s) \/ DecideReturns(k, s)
      PROVE  PageGood(page'[q])
  <2> DEFINE t == calls[k].thread
  <2>1. t \in Requests \cup {NoRequest}
    BY CallType DEF TypeOK
  <2>2. s # "error" => PageGood(Render(q, t, s)) /\ Render(q, t, s) \in PageStates
    BY <2>1, RenderGood, RenderType
  <2>3. 0 \in 0 .. MaxCalls
    BY WebAssumption
  <2> HIDE DEF t
  <2>4. \/ page'[q] = page[q]
        \/ page'[q] = [page[q] EXCEPT !.asking = FALSE]
        \/ s # "error" /\ page'[q] = [Render(q, t, s) EXCEPT !.asking = FALSE]
        \/ s # "error" /\ page'[q] = Render(q, t, s)
        \/ page'[q] = [page[q] EXCEPT !.busy = 0]
    BY <1>7, PagesAfterReturn DEF t
  <2> QED
    BY <1>2, <2>2, <2>3, <2>4, PageGoodField
<1> QED
  BY <1>3, <1>4, <1>5, <1>6, <1>7
     DEF Next, Use, Serve, Return, vars, CommandResume, SubmitEnds, ResumeChecks, ResumeLoads,
         ResumeDecides, ResumeRefuses, Break

-----------------------------------------------------------------------------
(* What a step leaves of the calls, and of the cases. *)

SameAsk(j) ==
  /\ calls'[j].by = calls[j].by /\ calls'[j].op = calls[j].op
  /\ calls'[j].thread = calls[j].thread /\ calls'[j].input = calls[j].input
  /\ calls'[j].seen = calls[j].seen

(* An answer leaves the question of a call as it was. *)
LEMMA AnswersFields ==
  ASSUME NEW r \in Calls, NEW stage \in Stages \cup {"error"}
  PROVE  LET a == [r EXCEPT !.at = "answered", !.tries = 0, !.answer = stage]
         IN  /\ a.by = r.by /\ a.op = r.op /\ a.thread = r.thread /\ a.input = r.input
             /\ a.seen = r.seen /\ a.waits = r.waits /\ a.at = "answered" /\ a.answer = stage
<1> DEFINE r1 == [r EXCEPT !.at = "answered"]
           r2 == [r1 EXCEPT !.tries = 0]
           r3 == [r2 EXCEPT !.answer = stage]
           Same(x) == /\ x.by = r.by /\ x.op = r.op /\ x.thread = r.thread /\ x.input = r.input
                      /\ x.seen = r.seen /\ x.waits = r.waits
<1>1. r1 \in Calls /\ Same(r1) /\ r1.at = "answered"
  BY DEF Calls
<1>2. r2 \in Calls /\ Same(r2) /\ r2.at = "answered"
  <2>1. 0 \in 0 .. 2
    OBVIOUS
  <2> HIDE DEF r1
  <2> QED
    BY <1>1, <2>1 DEF Calls
<1>3. Same(r3) /\ r3.at = "answered" /\ r3.answer = stage
  <2> HIDE DEF r2
  <2> QED
    BY <1>2 DEF Calls
<1> QED
  BY <1>3

(* So does the load of the checkpoint. *)
LEMMA LoadsFields ==
  ASSUME NEW r \in Calls, NEW tries \in 0 .. 2
  PROVE  LET a == [r EXCEPT !.at = "loaded", !.tries = tries]
         IN  /\ a.by = r.by /\ a.op = r.op /\ a.thread = r.thread /\ a.input = r.input
             /\ a.seen = r.seen /\ a.waits = r.waits /\ a.at = "loaded"
<1> DEFINE r1 == [r EXCEPT !.at = "loaded"]
           r2 == [r1 EXCEPT !.tries = tries]
           Same(x) == /\ x.by = r.by /\ x.op = r.op /\ x.thread = r.thread /\ x.input = r.input
                      /\ x.seen = r.seen /\ x.waits = r.waits
<1>1. r1 \in Calls /\ Same(r1) /\ r1.at = "loaded"
  BY DEF Calls
<1>2. Same(r2) /\ r2.at = "loaded"
  <2> HIDE DEF r1
  <2> QED
    BY <1>1 DEF Calls
<1> QED
  BY <1>2

(* The server answers k, or goes on with it. *)
LEMMA ServeKeeps ==
  ASSUME TypeOK, CallsSound, NEW k \in 1 .. MaxCalls, Serve(k), NEW j \in 1 .. MaxCalls
  PROVE  /\ SameAsk(j) /\ calls'[j].waits = calls[j].waits
         /\ j # k => calls'[j] = calls[j]
         /\ calls[k].at \notin {"unused", "answered"} /\ calls'[k].at \notin {"unused", "sent"}
         /\ page' = page
<1>0. calls \in [1 .. MaxCalls -> Calls] /\ calls[k] \in Calls
  BY DEF TypeOK
<1>1. ASSUME NEW stage \in Stages \cup {"error"}, calls' = Answered(k, stage)
      PROVE  /\ SameAsk(j) /\ calls'[j].waits = calls[j].waits
             /\ j # k => calls'[j] = calls[j]
             /\ calls'[k].at = "answered"
  <2>1. calls'[k] = [calls[k] EXCEPT !.at = "answered", !.tries = 0, !.answer = stage]
    BY <1>0, <1>1 DEF Answered
  <2>2. j # k => calls'[j] = calls[j]
    BY <1>0, <1>1 DEF Answered
  <2>3. /\ SameAsk(k) /\ calls'[k].waits = calls[k].waits /\ calls'[k].at = "answered"
    BY <1>0, <2>1, AnswersFields DEF SameAsk
  <2> QED
    BY <2>2, <2>3 DEF SameAsk
<1>2. CASE SubmitEnds(k)
  <2>1. PICK stage \in {"gate", "released", "failed"} : calls' = Answered(k, stage)
    BY <1>2 DEF SubmitEnds
  <2>2. stage \in Stages
    BY DEF Stages
  <2> QED
    BY <1>1, <1>2, <2>1, <2>2 DEF SubmitEnds, Is
<1>3. CASE ResumeChecks(k)
  <2>1. CASE calls' = Answered(k, "error")
    BY <1>1, <1>3, <2>1 DEF ResumeChecks, Is
  <2>2. CASE calls' = [calls EXCEPT ![k].at = "checked"]
    <3>1. calls'[k] = [calls[k] EXCEPT !.at = "checked"]
      BY <1>0, <2>2
    <3>2. SameAsk(k) /\ calls'[k].waits = calls[k].waits /\ calls'[k].at = "checked"
      BY <1>0, <3>1 DEF SameAsk, Calls
    <3>3. j # k => calls'[j] = calls[j]
      BY <1>0, <2>2
    <3> QED
      BY <1>3, <3>2, <3>3 DEF SameAsk, ResumeChecks, Is
  <2> QED
    BY <1>3, <2>1, <2>2 DEF ResumeChecks
<1>4. CASE ResumeLoads(k)
  <2> DEFINE case == cases[calls[k].thread]
  <2>1. case \in Cases
    BY <1>4 DEF ResumeLoads, Is, CallsSound, CallSound, TypeOK
  <2> HIDE DEF case
  <2>2. case.stage \in Stages /\ case.tries \in 0 .. 2
    BY <2>1 DEF Cases
  <2>3. CASE calls' = Answered(k, case.stage)
    BY <1>1, <1>4, <2>2, <2>3 DEF ResumeLoads, Is
  <2>4. CASE calls' = [calls EXCEPT ![k] = [calls[k] EXCEPT !.at = "loaded", !.tries = case.tries]]
    <3>1. calls'[k] = [calls[k] EXCEPT !.at = "loaded", !.tries = case.tries]
      BY <1>0, <2>4
    <3>2. SameAsk(k) /\ calls'[k].waits = calls[k].waits /\ calls'[k].at = "loaded"
      BY <1>0, <2>2, <3>1, LoadsFields DEF SameAsk
    <3>3. j # k => calls'[j] = calls[j]
      BY <1>0, <2>4
    <3> QED
      BY <1>4, <3>2, <3>3 DEF SameAsk, ResumeLoads, Is
  <2> QED
    BY <1>4, <2>3, <2>4 DEF ResumeLoads, case
<1>5. CASE ResumeDecides(k)
  <2>1. StageAfter(calls[k].input) \in Stages
    BY StageAfterType DEF Ends, Stages
  <2>2. calls' = Answered(k, StageAfter(calls[k].input))
    BY <1>5 DEF ResumeDecides
  <2> QED
    BY <1>1, <1>5, <2>1, <2>2 DEF ResumeDecides, Is
<1>6. CASE ResumeRefuses(k)
  <2>1. PICK stage \in {"gate", "error"} : calls' = Answered(k, stage)
    BY <1>6 DEF ResumeRefuses
  <2>2. stage \in Stages \cup {"error"}
    BY DEF Stages
  <2> QED
    BY <1>1, <1>6, <2>1, <2>2 DEF ResumeRefuses, Is
<1>7. CASE Break(k)
  BY <1>1, <1>7 DEF Break
<1> QED
  BY <1>2, <1>3, <1>4, <1>5, <1>6, <1>7 DEF Serve

(* A call whose caller is answered is left as it was. *)
LEMMA ReturnKeeps ==
  ASSUME TypeOK, NEW k \in 1 .. MaxCalls, NEW s \in Stages \cup {"error"},
         AskReturns(k, s) \/ DecideReturns(k, s), NEW j \in 1 .. MaxCalls
  PROVE  /\ SameAsk(j) /\ calls'[j].at = calls[j].at /\ calls'[j].answer = calls[j].answer
         /\ j # k => calls'[j] = calls[j]
         /\ calls[k].waits /\ s # "error" => calls[k].at = "answered" /\ calls[k].answer = s
         /\ cases' = cases
<1>1. calls' = [calls EXCEPT ![k] = [calls[k] EXCEPT !.waits = FALSE]]
  BY DEF AskReturns, DecideReturns, Gets
<1>2. calls \in [1 .. MaxCalls -> Calls] /\ calls[k] \in Calls
  BY DEF TypeOK
<1>3. /\ SameAsk(k) /\ calls'[k].at = calls[k].at /\ calls'[k].answer = calls[k].answer
  <2>1. calls'[k] = [calls[k] EXCEPT !.waits = FALSE]
    BY <1>1, <1>2
  <2> QED
    BY <1>2, <2>1 DEF SameAsk, Calls
<1>4. j # k => calls'[j] = calls[j]
  BY <1>1, <1>2
<1> QED
  BY <1>3, <1>4 DEF SameAsk, AskReturns, DecideReturns, Gets

(* k is a new call: what it asks, and of what. *)
NewAsk(k) ==
  /\ calls[k] = Unused
  /\ calls' = [calls EXCEPT ![k] = calls'[k]]
  /\ calls'[k].at = "sent" /\ calls'[k].waits
  /\ calls'[k].thread \in Requests
  /\ cases' = cases
  /\ \/ /\ calls'[k].op = "submit" /\ calls'[k].by \in Pages
        /\ cases[calls'[k].thread].stage = "new"
        /\ \A j \in 1 .. MaxCalls : calls[j].thread # calls'[k].thread
     \/ /\ calls'[k].op = "resume" /\ calls'[k].seen = calls'[k].thread
        /\ cases[calls'[k].thread].stage # "new"

(* Whatever is asked is a new call, for a request its caller knows. *)
LEMMA NewCalls ==
  ASSUME TypeOK, CallsSound, PagesSound, GateIsCurrent, KnownAreCalled, NEW k \in 1 .. MaxCalls
  PROVE  /\ \A p \in Pages : Ask(p, k) => NewAsk(k) /\ calls'[k].by = p /\ calls'[k].op = "submit"
         /\ \A p \in Pages, input \in Inputs :
              Decide(p, k, input) => NewAsk(k) /\ calls'[k].by = p /\ calls'[k].op = "resume"
         /\ \A t \in Requests, input \in Inputs : CommandResume(k, t, input) => NewAsk(k)
<1>0. calls \in [1 .. MaxCalls -> Calls] /\ (calls[k].at = "unused" => calls[k] = Unused)
  BY DEF TypeOK, CallsSound, CallSound
<1>1. ASSUME NEW p \in Pages, Ask(p, k)
      PROVE  NewAsk(k) /\ calls'[k].by = p /\ calls'[k].op = "submit"
  <2>1. PICK t \in Requests : t = (CHOOSE u \in Fresh : TRUE) /\ t \in Fresh
    BY <1>1 DEF Ask, Fresh
  <2>2. calls' = [calls EXCEPT ![k] = Sent(p, "submit", t, "", NoRequest)]
    BY <1>1, <2>1 DEF Ask
  <2>3. \A j \in 1 .. MaxCalls : calls[j].thread # t
    BY <2>1 DEF Fresh
  <2>4. cases[t].stage = "new"
    BY <2>3 DEF KnownAreCalled
  <2>5. calls'[k] = Sent(p, "submit", t, "", NoRequest)
    BY <1>0, <2>2
  <2>6. calls[k].at = "unused" /\ cases' = cases
    BY <1>1 DEF Ask, NextCall
  <2>7. /\ calls'[k].thread = t /\ calls'[k].by = p /\ calls'[k].op = "submit"
        /\ calls'[k].at = "sent" /\ calls'[k].waits
    <3> DEFINE c == Sent(p, "submit", t, "", NoRequest)
    <3>1. c.thread = t /\ c.by = p /\ c.op = "submit" /\ c.at = "sent" /\ c.waits = TRUE
      BY DEF Sent
    <3> HIDE DEF c
    <3>2. calls'[k] = c
      BY <2>5 DEF c
    <3> QED
      BY <3>1, <3>2
  <2>8. calls' = [calls EXCEPT ![k] = calls'[k]]
    BY <2>2, <2>5
  <2> QED
    BY <1>0, <2>3, <2>4, <2>6, <2>7, <2>8 DEF NewAsk
<1>2. ASSUME NEW p \in Pages, NEW input \in Inputs, Decide(p, k, input)
      PROVE  NewAsk(k) /\ calls'[k].by = p /\ calls'[k].op = "resume"
  <2>1. calls'[k] = Sent(p, "resume", page[p].current, input, page[p].gate)
    BY <1>0, <1>2 DEF Decide
  <2>2. page[p].gate = page[p].current /\ page[p].current \in Requests
    BY <1>2 DEF Decide, GateIsCurrent, TypeOK, PageStates
  <2>3. cases[page[p].current].stage # "new"
    BY <2>2, NamesAssumption DEF PagesSound
  <2> QED
    BY <1>0, <1>2, <2>1, <2>2, <2>3 DEF NewAsk, Decide, NextCall, Sent
<1>3. ASSUME NEW t \in Requests, NEW input \in Inputs, CommandResume(k, t, input)
      PROVE  NewAsk(k)
  <2>1. calls'[k] = Sent(CommandLine, "resume", t, input, t)
    BY <1>0, <1>3 DEF CommandResume
  <2> QED
    BY <1>0, <1>3, <2>1 DEF NewAsk, CommandResume, NextCall, Sent
<1> QED
  BY <1>1, <1>2, <1>3

(* A call is new, or asks what it asked before. *)
LEMMA AsksStay ==
  ASSUME Inv, [Next]_vars, NEW j \in 1 .. MaxCalls
  PROVE  \/ NewAsk(j)
         \/ /\ SameAsk(j)
            /\ calls[j].at = "unused" => calls'[j] = calls[j]
            /\ calls[j].at # "unused" => calls'[j].at # "unused"
<1> USE DEF Inv
<1>1. CASE calls' = calls
  BY <1>1 DEF SameAsk
<1>2. ASSUME NEW k \in 1 .. MaxCalls, NewAsk(k)
      PROVE  NewAsk(j) \/ calls'[j] = calls[j]
  <2>1. PICK c : calls' = [calls EXCEPT ![k] = c]
    BY <1>2 DEF NewAsk
  <2>2. j # k => calls'[j] = calls[j]
    BY <2>1 DEF TypeOK
  <2> QED
    BY <1>2, <2>2
<1>3. ASSUME NEW k \in 1 .. MaxCalls, Serve(k)
      PROVE  /\ SameAsk(j)
             /\ calls[j].at = "unused" => calls'[j] = calls[j]
             /\ calls[j].at # "unused" => calls'[j].at # "unused"
  BY <1>3, ServeKeeps
<1>4. ASSUME NEW k \in 1 .. MaxCalls, NEW s \in Stages \cup {"error"},
             AskReturns(k, s) \/ DecideReturns(k, s)
      PROVE  /\ SameAsk(j)
             /\ calls[j].at = "unused" => calls'[j] = calls[j]
             /\ calls[j].at # "unused" => calls'[j].at # "unused"
  <2>1. SameAsk(j) /\ calls'[j].at = calls[j].at /\ (j # k => calls'[j] = calls[j])
    BY <1>4, ReturnKeeps
  <2>3. calls[k].waits
    BY <1>4 DEF AskReturns, DecideReturns, Gets
  <2>2. calls[k].at # "unused"
    <3>1. Unused.waits = FALSE
      BY DEF Unused
    <3> QED
      BY <2>3, <3>1 DEF CallsSound, CallSound
  <2> QED
    BY <2>1, <2>2
<1>5. ASSUME NEW k \in 1 .. MaxCalls,
             \/ \E p \in Pages : Ask(p, k)
             \/ \E p \in Pages, input \in Inputs : Decide(p, k, input)
             \/ \E t \in Requests, input \in Inputs : CommandResume(k, t, input)
      PROVE  NewAsk(k)
  BY <1>5, NewCalls
<1>6. \/ calls' = calls
      \/ \E k \in 1 .. MaxCalls :
           \/ \E p \in Pages : Ask(p, k)
           \/ \E p \in Pages, input \in Inputs : Decide(p, k, input)
           \/ \E t \in Requests, input \in Inputs : CommandResume(k, t, input)
      \/ \E k \in 1 .. MaxCalls : Serve(k)
      \/ \E k \in 1 .. MaxCalls, s \in Stages \cup {"error"} :
           AskReturns(k, s) \/ DecideReturns(k, s)
  BY DEF Next, Use, Return, Reset, vars
<1>7. calls'[j] = calls[j] => SameAsk(j)
  BY DEF SameAsk
<1> QED
  BY <1>1, <1>2, <1>3, <1>4, <1>5, <1>6, <1>7

(* What was sought stays sought. *)
LEMMA SoughtStays ==
  ASSUME Inv, [Next]_vars, NEW t, NEW stage, Sought(t, stage)
  PROVE  Sought(t, stage)'
<1>1. PICK j \in 1 .. MaxCalls :
        /\ calls[j].op = "resume" /\ calls[j].thread = t /\ calls[j].seen = t
        /\ calls[j].input # "invalid" /\ StageAfter(calls[j].input) = stage
  BY DEF Sought
<1>2. calls[j] # Unused
  <2>1. Unused.op = "submit"
    BY DEF Unused
  <2> QED
    BY <1>1, <2>1
<1>3. SameAsk(j)
  BY <1>2, AsksStay DEF NewAsk
<1> QED
  BY <1>1, <1>3 DEF Sought, SameAsk

(* What a step makes of request t. *)
LEMMA CasesStay ==
  ASSUME Inv, [Next]_vars, NEW t \in Requests
  PROVE  \/ cases'[t].stage = cases[t].stage /\ cases'[t].held = cases[t].held
         \/ /\ cases[t].stage = "new" /\ cases'[t].stage \in {"gate", "released", "failed"}
            /\ cases'[t].held = (cases'[t].stage = "gate")
            /\ \E k \in 1 .. MaxCalls :
                 /\ Is(k, "submit", "sent") /\ calls[k].thread = t
                 /\ calls' = Answered(k, cases'[t].stage)
         \/ /\ cases[t].stage # "new" /\ cases'[t].stage \in Ends /\ cases'[t].held = cases[t].held
            /\ Sought(t, cases'[t].stage)
<1> USE DEF Inv
<1>0. cases \in [Requests -> Cases] /\ cases[t] \in Cases
  BY DEF TypeOK
<1>1. CASE cases' = cases
  BY <1>1
<1>2. ASSUME NEW k \in 1 .. MaxCalls, SubmitEnds(k)
      PROVE  \/ cases'[t] = cases[t]
             \/ /\ cases[t].stage = "new" /\ cases'[t].stage \in {"gate", "released", "failed"}
                /\ cases'[t].held = (cases'[t].stage = "gate")
                /\ Is(k, "submit", "sent") /\ calls[k].thread = t
                /\ calls' = Answered(k, cases'[t].stage)
  <2>1. PICK stage \in {"gate", "released", "failed"} :
          /\ cases' = [cases EXCEPT ![calls[k].thread] = [stage |-> stage, held |-> stage = "gate",
                                                          tries |-> 0]]
          /\ calls' = Answered(k, stage)
    BY <1>2 DEF SubmitEnds
  <2>2. calls[k].thread # t => cases'[t] = cases[t]
    BY <1>0, <2>1
  <2>3. CASE calls[k].thread = t
    <3>1. cases'[t] = [stage |-> stage, held |-> stage = "gate", tries |-> 0]
      BY <1>0, <2>1, <2>3
    <3>2. cases'[t].stage = stage /\ cases'[t].held = (stage = "gate")
      BY <3>1
    <3>3. cases[t].stage = "new"
      BY <1>2, <2>3 DEF SubmitEnds, Is, CallsSound, CallSound
    <3> QED
      BY <1>2, <2>1, <2>3, <3>2, <3>3 DEF SubmitEnds
  <2> QED
    BY <2>2, <2>3
<1>3. ASSUME NEW k \in 1 .. MaxCalls, ResumeDecides(k)
      PROVE  \/ cases'[t] = cases[t]
             \/ /\ cases[t].stage # "new" /\ cases'[t].stage \in Ends
                /\ cases'[t].held = cases[t].held
                /\ Sought(t, cases'[t].stage)
  <2> DEFINE stage == StageAfter(calls[k].input)
  <2>1. cases' = [cases EXCEPT ![calls[k].thread].stage = stage]
    BY <1>3 DEF ResumeDecides
  <2>2. stage \in Ends
    BY StageAfterType
  <2>3. calls[k].thread # t => cases'[t] = cases[t]
    BY <1>0, <2>1
  <2>4. CASE calls[k].thread = t
    <3>1. Sought(t, stage) /\ cases[t].stage # "new"
      BY <1>3, <2>4 DEF Sought, ResumeDecides, Is, Takes, CallsSound, CallSound
    <3> HIDE DEF stage
    <3>2. cases'[t] = [cases[t] EXCEPT !.stage = stage]
      BY <1>0, <2>1, <2>4
    <3>3. cases'[t].stage = stage /\ cases'[t].held = cases[t].held
      BY <1>0, <3>2 DEF Cases
    <3> QED
      BY <2>2, <3>1, <3>3
  <2> QED
    BY <2>3, <2>4
<1>4. ASSUME NEW k \in 1 .. MaxCalls, ResumeRefuses(k)
      PROVE  cases'[t].stage = cases[t].stage /\ cases'[t].held = cases[t].held
  <2>1. PICK tries : cases' = IF cases[calls[k].thread].stage = "gate"
                                THEN [cases EXCEPT ![calls[k].thread].tries = tries] ELSE cases
    BY <1>4 DEF ResumeRefuses
  <2>2. cases'[t] = cases[t] \/ cases'[t] = [cases[t] EXCEPT !.tries = tries]
    BY <1>0, <2>1
  <2> QED
    BY <1>0, <2>2 DEF Cases
<1> QED
  BY <1>1, <1>2, <1>3, <1>4
     DEF Next, Use, Serve, Return, vars, Ask, Decide, Reset, CommandResume, ResumeChecks,
         ResumeLoads, Break, AskReturns, DecideReturns

(* A known request stays known, and parked or not as it was. *)
LEMMA KnownStay ==
  ASSUME Inv, [Next]_vars, NEW t \in Requests, cases[t].stage # "new"
  PROVE  cases'[t].stage # "new" /\ cases'[t].held = cases[t].held
BY CasesStay DEF Ends

(* What the server makes of call k, by how far it was. *)
LEMMA ServeAnswers ==
  ASSUME TypeOK, CallsSound, NEW k \in 1 .. MaxCalls, Serve(k)
  PROVE  \/ /\ calls[k].op = "submit" /\ calls[k].at = "sent" /\ calls'[k].at = "answered"
            /\ calls'[k].answer \in {"gate", "released", "failed"}
            /\ LET t == calls[k].thread
               IN  cases'[t].stage = calls'[k].answer
                   /\ cases'[t].held = (calls'[k].answer = "gate")
         \/ calls'[k].at = "answered" /\ calls'[k].answer = "error"
         \/ calls[k].op = "resume" /\ calls'[k].at \in {"checked", "loaded"}
         \/ /\ calls[k].op = "resume" /\ calls'[k].at = "answered"
            /\ \/ calls'[k].answer \notin Ends
               \/ calls'[k].answer = cases[calls[k].thread].stage
               \/ calls[k].input # "invalid" /\ calls'[k].answer = StageAfter(calls[k].input)
<1>0. calls \in [1 .. MaxCalls -> Calls] /\ calls[k] \in Calls /\ cases \in [Requests -> Cases]
  BY DEF TypeOK
<1>1. ASSUME NEW stage \in Stages \cup {"error"}, calls' = Answered(k, stage)
      PROVE  calls'[k].at = "answered" /\ calls'[k].answer = stage
  <2>1. calls'[k] = [calls[k] EXCEPT !.at = "answered", !.tries = 0, !.answer = stage]
    BY <1>0, <1>1 DEF Answered
  <2> QED
    BY <1>0, <2>1, AnswersFields
<1>2. CASE SubmitEnds(k)
  <2> DEFINE t == calls[k].thread
  <2>1. PICK stage \in {"gate", "released", "failed"} :
          /\ cases' = [cases EXCEPT ![t] = [stage |-> stage, held |-> stage = "gate", tries |-> 0]]
          /\ calls' = Answered(k, stage)
    BY <1>2 DEF SubmitEnds
  <2>2. calls'[k].at = "answered" /\ calls'[k].answer = stage
    BY <1>1, <2>1 DEF Stages
  <2>3. t \in Requests
    BY <1>2 DEF SubmitEnds, Is, CallsSound, CallSound
  <2> HIDE DEF t
  <2>4. cases'[t] = [stage |-> stage, held |-> stage = "gate", tries |-> 0]
    BY <1>0, <2>1, <2>3
  <2>5. cases'[t].stage = stage /\ cases'[t].held = (stage = "gate")
    BY <2>4
  <2> QED
    BY <1>2, <2>2, <2>5 DEF SubmitEnds, Is, t
<1>3. CASE ResumeChecks(k)
  <2>1. CASE calls' = Answered(k, "error")
    BY <1>1, <2>1
  <2>2. CASE calls' = [calls EXCEPT ![k].at = "checked"]
    <3>1. calls'[k] = [calls[k] EXCEPT !.at = "checked"]
      BY <1>0, <2>2
    <3>2. calls'[k].at = "checked"
      BY <1>0, <3>1 DEF Calls
    <3> QED
      BY <1>3, <3>2 DEF ResumeChecks, Is
  <2> QED
    BY <1>3, <2>1, <2>2 DEF ResumeChecks
<1>4. CASE ResumeLoads(k)
  <2> DEFINE case == cases[calls[k].thread]
  <2>1. case \in Cases
    BY <1>4 DEF ResumeLoads, Is, CallsSound, CallSound, TypeOK
  <2>2. calls[k].op = "resume"
    BY <1>4 DEF ResumeLoads, Is
  <2> HIDE DEF case
  <2>3. case.stage \in Stages /\ case.tries \in 0 .. 2
    BY <2>1 DEF Cases
  <2>4. CASE calls' = Answered(k, case.stage)
    <3>1. calls'[k].at = "answered" /\ calls'[k].answer = case.stage
      BY <1>1, <2>3, <2>4
    <3> QED
      BY <2>2, <3>1 DEF case
  <2>5. CASE calls' = [calls EXCEPT ![k] = [calls[k] EXCEPT !.at = "loaded", !.tries = case.tries]]
    <3>1. calls'[k] = [calls[k] EXCEPT !.at = "loaded", !.tries = case.tries]
      BY <1>0, <2>5
    <3>2. calls'[k].at = "loaded"
      BY <1>0, <2>3, <3>1, LoadsFields
    <3> QED
      BY <2>2, <3>2
  <2> QED
    BY <1>4, <2>4, <2>5 DEF ResumeLoads, case
<1>5. CASE ResumeDecides(k)
  <2>1. StageAfter(calls[k].input) \in Stages
    BY StageAfterType DEF Ends, Stages
  <2>2. calls'[k].at = "answered" /\ calls'[k].answer = StageAfter(calls[k].input)
    BY <1>1, <1>5, <2>1 DEF ResumeDecides
  <2> QED
    BY <1>5, <2>2 DEF ResumeDecides, Is, Takes
<1>6. CASE ResumeRefuses(k)
  <2>1. PICK stage \in {"gate", "error"} : calls' = Answered(k, stage)
    BY <1>6 DEF ResumeRefuses
  <2>2. calls'[k].at = "answered" /\ calls'[k].answer \notin Ends
    BY <1>1, <2>1 DEF Stages, Ends
  <2> QED
    BY <1>6, <2>2 DEF ResumeRefuses, Is
<1>7. CASE Break(k)
  BY <1>1, <1>7 DEF Break
<1> QED
  BY <1>2, <1>3, <1>4, <1>5, <1>6, <1>7 DEF Serve

(* What a step does to the call and to the pages. *)
LEMMA Steps ==
  ASSUME [Next]_vars
  PROVE  \/ UNCHANGED vars
         \/ \E k \in 1 .. MaxCalls :
              \/ \E p \in Pages : Ask(p, k)
              \/ \E p \in Pages, input \in Inputs : Decide(p, k, input)
              \/ \E t \in Requests, input \in Inputs : CommandResume(k, t, input)
              \/ Serve(k)
              \/ \E s \in Stages \cup {"error"} : AskReturns(k, s) \/ DecideReturns(k, s)
         \/ \E p \in Pages : Reset(p)
BY DEF Next, Use, Return

-----------------------------------------------------------------------------
(* The controls.  A call that still waits is not new, and returns once. *)

(* A call that waits still waits after a step that makes or serves calls. *)
LEMMA WaitsStay ==
  ASSUME TypeOK, CallsSound, NEW j \in 1 .. MaxCalls, calls[j].waits, NEW k \in 1 .. MaxCalls,
         calls' = calls \/ NewAsk(k) \/ Serve(k)
  PROVE  calls'[j].waits /\ calls'[j].by = calls[j].by /\ calls'[j].op = calls[j].op
<1>1. CASE calls' = calls
  BY <1>1
<1>2. CASE NewAsk(k)
  <2>1. PICK c : calls' = [calls EXCEPT ![k] = c]
    BY <1>2 DEF NewAsk
  <2>2. Unused.waits = FALSE
    BY DEF Unused
  <2>3. j # k
    BY <1>2, <2>2 DEF NewAsk
  <2> QED
    BY <2>1, <2>3 DEF TypeOK
<1>3. CASE Serve(k)
  <2>1. calls'[j].waits = calls[j].waits /\ SameAsk(j)
    BY <1>3, ServeKeeps
  <2> QED
    BY <2>1 DEF SameAsk
<1> QED
  BY <1>1, <1>2, <1>3

(* The controls of a page: asking has a submit of the page that waits, and *)
(* busy is a resume of the page that waits.                                *)
LEMMA ControlsInvariant ==
  ASSUME Inv, [Next]_vars
  PROVE  DisabledWhileWaiting'
<1> USE DEF Inv
<1> DEFINE Waits(c, q, op) == c.by = q /\ c.op = op /\ c.waits
<1>1. SUFFICES ASSUME NEW q \in Pages
               PROVE  /\ page'[q].asking => \E k \in 1 .. MaxCalls : Waits(calls'[k], q, "submit")
                      /\ page'[q].busy # 0 => Waits(calls'[page'[q].busy], q, "resume")
  BY DEF DisabledWhileWaiting
<1>2. /\ page \in [Pages -> PageStates] /\ page[q] \in PageStates
      /\ page[q].busy \in 0 .. MaxCalls /\ page[q].asking \in BOOLEAN
  BY DEF TypeOK, PageStates
<1>3. /\ page[q].asking => \E k \in 1 .. MaxCalls : Waits(calls[k], q, "submit")
      /\ page[q].busy # 0 => Waits(calls[page[q].busy], q, "resume")
  BY DEF DisabledWhileWaiting
<1>4. page[q].busy # 0 => page[q].busy \in 1 .. MaxCalls
  BY <1>2
<1>5. ASSUME NEW k \in 1 .. MaxCalls, calls' = calls \/ NewAsk(k) \/ Serve(k)
      PROVE  \A op : \A j \in 1 .. MaxCalls : Waits(calls[j], q, op) => Waits(calls'[j], q, op)
  BY <1>5, WaitsStay
<1>6. ASSUME NEW k \in 1 .. MaxCalls, NEW s \in Stages \cup {"error"},
             AskReturns(k, s) \/ DecideReturns(k, s)
      PROVE  \A op : \A j \in 1 .. MaxCalls :
               j # k /\ Waits(calls[j], q, op) => Waits(calls'[j], q, op)
  BY <1>6, ReturnKeeps
<1> DEFINE Good == /\ page'[q].asking => \E k \in 1 .. MaxCalls : Waits(calls'[k], q, "submit")
                   /\ page'[q].busy # 0 => Waits(calls'[page'[q].busy], q, "resume")
<1>7. ASSUME NEW k \in 1 .. MaxCalls, NEW p \in Pages, Ask(p, k)
      PROVE  Good
  <2>1. NewAsk(k) /\ calls'[k].by = p /\ calls'[k].op = "submit" /\ calls'[k].waits
    BY <1>7, NewCalls DEF NewAsk
  <2>2. p # q => page'[q] = page[q]
    BY <1>2, <1>7 DEF Ask
  <2>3. p = q => page'[q].busy = 0
    <3> DEFINE r1 == [page[q] EXCEPT !.asking = TRUE]
               r2 == [r1 EXCEPT !.gate = NoRequest]
               r3 == [r2 EXCEPT !.busy = 0]
    <3>1. r1 \in PageStates
      BY <1>2, PageField
    <3>2. r2 \in PageStates
      <4> HIDE DEF r1
      <4> QED
        BY <3>1 DEF PageStates
    <3>3. r3.busy = 0
      <4> HIDE DEF r2
      <4> QED
        BY <3>2 DEF PageStates
    <3>4. p = q => page'[q] = r3
      BY <1>2, <1>7 DEF Ask
    <3> QED
      BY <3>3, <3>4
  <2>4. p = q => Waits(calls'[k], q, "submit")
    BY <2>1
  <2> HIDE DEF Waits
  <2>5. p # q => Good
    BY <1>3, <1>4, <1>5, <2>1, <2>2
  <2> QED
    BY <2>3, <2>4, <2>5
<1>8. ASSUME NEW k \in 1 .. MaxCalls, NEW p \in Pages, NEW input \in Inputs, Decide(p, k, input)
      PROVE  Good
  <2>1. NewAsk(k) /\ calls'[k].by = p /\ calls'[k].op = "resume" /\ calls'[k].waits
    BY <1>8, NewCalls DEF NewAsk
  <2>2. p # q => page'[q] = page[q]
    BY <1>2, <1>8 DEF Decide
  <2>3. p = q => page'[q].busy = k /\ page'[q].asking = page[q].asking
    BY <1>2, <1>8 DEF Decide, PageStates
  <2>4. p = q => Waits(calls'[k], q, "resume")
    BY <2>1
  <2> HIDE DEF Waits
  <2> QED
    BY <1>3, <1>4, <1>5, <2>1, <2>2, <2>3, <2>4
<1>9. ASSUME NEW k \in 1 .. MaxCalls, NEW t \in Requests, NEW input \in Inputs,
             CommandResume(k, t, input)
      PROVE  Good
  <2>1. NewAsk(k) /\ page' = page
    BY <1>9, NewCalls DEF CommandResume
  <2> HIDE DEF Waits
  <2> QED
    BY <1>3, <1>4, <1>5, <2>1
<1>10. ASSUME NEW k \in 1 .. MaxCalls, Serve(k)
       PROVE  Good
  <2>1. page' = page
    BY <1>10, ServeKeeps
  <2> HIDE DEF Waits
  <2> QED
    BY <1>3, <1>4, <1>5, <1>10, <2>1
<1>11. ASSUME NEW k \in 1 .. MaxCalls, NEW s \in Stages \cup {"error"},
              AskReturns(k, s) \/ DecideReturns(k, s)
       PROVE  Good
  <2>1. CASE page'[q] = page[q] /\ (calls[k].by = q => calls[k].op = "resume" /\ page[q].busy # k)
    <3>1. ~Waits(calls[k], q, "submit") /\ page[q].busy # k
      BY <1>3, <2>1
    <3> HIDE DEF Waits
    <3> QED
      BY <1>3, <1>4, <1>6, <1>11, <2>1, <3>1
  <2>2. CASE /\ calls[k].op = "submit"
             /\ page'[q] = [page[q] EXCEPT !.asking = FALSE]
    <3>1. page'[q].asking = FALSE /\ page'[q].busy = page[q].busy
      BY <1>2, <2>2 DEF PageStates
    <3>2. page[q].busy # 0 => page[q].busy # k
      BY <1>3, <2>2
    <3> HIDE DEF Waits
    <3> QED
      BY <1>3, <1>4, <1>6, <1>11, <3>1, <3>2
  <2>3. CASE /\ calls[k].op = "submit"
             /\ page'[q] = [Render(q, calls[k].thread, s) EXCEPT !.asking = FALSE]
    BY <2>3 DEF Render, Screen
  <2>4. CASE calls[k].op = "resume" /\ page'[q] = Render(q, calls[k].thread, s)
    <3>1. page'[q].asking = page[q].asking /\ page'[q].busy = 0
      BY <2>4 DEF Render, Screen
    <3>2. ~Waits(calls[k], q, "submit")
      BY <2>4
    <3> HIDE DEF Waits
    <3> QED
      BY <1>3, <1>6, <1>11, <3>1, <3>2
  <2>5. CASE calls[k].op = "resume" /\ page'[q] = [page[q] EXCEPT !.busy = 0]
    <3>1. page'[q].asking = page[q].asking /\ page'[q].busy = 0
      BY <1>2, <2>5 DEF PageStates
    <3>2. ~Waits(calls[k], q, "submit")
      BY <2>5
    <3> HIDE DEF Waits
    <3> QED
      BY <1>3, <1>6, <1>11, <3>1, <3>2
  <2> HIDE DEF Good
  <2> QED
    BY <1>11, <2>1, <2>2, <2>3, <2>4, <2>5, PagesAfterReturn
<1>12. ASSUME NEW p \in Pages, Reset(p)
       PROVE  Good
  <2>1. \/ page'[q] = page[q]
        \/ page'[q] = Screen(q, NoRequest, "new", NoRequest)
    BY <1>2, <1>12 DEF Reset
  <2>2. calls' = calls
    BY <1>12 DEF Reset
  <2>3. Screen(q, NoRequest, "new", NoRequest).asking = page[q].asking
        /\ Screen(q, NoRequest, "new", NoRequest).busy = 0
    BY DEF Screen
  <2> HIDE DEF Waits
  <2> QED
    BY <1>3, <2>1, <2>2, <2>3
<1>13. ASSUME UNCHANGED vars
       PROVE  Good
  BY <1>3, <1>13 DEF vars
<1> HIDE DEF Good
<1> QED
  <2>1. ASSUME NEW k \in 1 .. MaxCalls,
               \/ \E p \in Pages : Ask(p, k)
               \/ \E p \in Pages, input \in Inputs : Decide(p, k, input)
               \/ \E t \in Requests, input \in Inputs : CommandResume(k, t, input)
               \/ Serve(k)
               \/ \E s \in Stages \cup {"error"} : AskReturns(k, s) \/ DecideReturns(k, s)
        PROVE  Good
    BY <1>7, <1>8, <1>9, <1>10, <1>11, <2>1
  <2>2. \/ UNCHANGED vars
        \/ \E k \in 1 .. MaxCalls :
             \/ \E p \in Pages : Ask(p, k)
             \/ \E p \in Pages, input \in Inputs : Decide(p, k, input)
             \/ \E t \in Requests, input \in Inputs : CommandResume(k, t, input)
             \/ Serve(k)
             \/ \E s \in Stages \cup {"error"} : AskReturns(k, s) \/ DecideReturns(k, s)
        \/ \E p \in Pages : Reset(p)
    BY Steps
  <2>3. Good
    BY <1>12, <1>13, <2>1, <2>2
  <2> QED
    BY <2>3 DEF Good

-----------------------------------------------------------------------------
(* What is known of the calls. *)

(* What a step makes of call j. *)
LEMMA CallSteps ==
  ASSUME Inv, [Next]_vars, NEW j \in 1 .. MaxCalls
  PROVE  \/ NewAsk(j)
         \/ /\ SameAsk(j) /\ calls'[j].at = calls[j].at /\ calls'[j].answer = calls[j].answer
            /\ calls[j].at = "unused" => calls'[j] = calls[j]
         \/ Serve(j) /\ SameAsk(j)
<1> USE DEF Inv
<1>1. ASSUME calls' = calls
      PROVE  SameAsk(j) /\ calls'[j] = calls[j]
  BY <1>1 DEF SameAsk
<1>2. ASSUME NEW k \in 1 .. MaxCalls, NewAsk(k)
      PROVE  NewAsk(j) \/ calls'[j] = calls[j]
  <2>1. PICK c : calls' = [calls EXCEPT ![k] = c]
    BY <1>2 DEF NewAsk
  <2>2. j # k => calls'[j] = calls[j]
    BY <2>1 DEF TypeOK
  <2> QED
    BY <1>2, <2>2
<1>3. ASSUME NEW k \in 1 .. MaxCalls, Serve(k)
      PROVE  (Serve(j) /\ SameAsk(j)) \/ calls'[j] = calls[j]
  BY <1>3, ServeKeeps
<1>4. ASSUME NEW k \in 1 .. MaxCalls, NEW s \in Stages \cup {"error"},
             AskReturns(k, s) \/ DecideReturns(k, s)
      PROVE  /\ SameAsk(j) /\ calls'[j].at = calls[j].at /\ calls'[j].answer = calls[j].answer
             /\ calls[j].at = "unused" => calls'[j] = calls[j]
  <2>1. /\ SameAsk(j) /\ calls'[j].at = calls[j].at /\ calls'[j].answer = calls[j].answer
        /\ j # k => calls'[j] = calls[j]
    BY <1>4, ReturnKeeps
  <2>2. calls[k].waits
    BY <1>4 DEF AskReturns, DecideReturns, Gets
  <2>3. Unused.waits = FALSE
    BY DEF Unused
  <2>4. calls[k].at # "unused"
    BY <2>2, <2>3 DEF CallsSound, CallSound
  <2> QED
    BY <2>1, <2>4
<1>5. ASSUME NEW k \in 1 .. MaxCalls,
             \/ \E p \in Pages : Ask(p, k)
             \/ \E p \in Pages, input \in Inputs : Decide(p, k, input)
             \/ \E t \in Requests, input \in Inputs : CommandResume(k, t, input)
      PROVE  NewAsk(k)
  BY <1>5, NewCalls
<1>6. (\E p \in Pages : Reset(p)) \/ UNCHANGED vars => calls' = calls
  BY DEF Reset, vars
<1>7. calls'[j] = calls[j] => SameAsk(j)
  BY DEF SameAsk
<1> QED
  BY <1>1, <1>2, <1>3, <1>4, <1>5, <1>6, <1>7, Steps

(* Two submits with one id, or one that a step makes, are the same. *)
LEMMA SubmitsInvariant ==
  ASSUME Inv, [Next]_vars
  PROVE  SubmitsDiffer'
<1> USE DEF Inv
<1>1. SUFFICES ASSUME NEW j \in 1 .. MaxCalls, NEW k \in 1 .. MaxCalls,
                      calls'[j].op = "submit", calls'[j].at # "unused",
                      calls'[k].op = "submit", calls'[k].at # "unused",
                      calls'[j].thread = calls'[k].thread
               PROVE  j = k
  BY DEF SubmitsDiffer
<1>2. ASSUME NEW i \in 1 .. MaxCalls, ~NewAsk(i), calls'[i].at # "unused"
      PROVE  SameAsk(i) /\ calls[i].at # "unused"
  <2>1. ASSUME Serve(i) PROVE calls[i].at # "unused"
    BY <2>1, ServeKeeps
  <2> QED
    BY <1>2, <2>1, CallSteps
<1>3. ASSUME NEW i \in 1 .. MaxCalls, NEW m \in 1 .. MaxCalls, i # m, NewAsk(i),
             calls'[i].op = "submit"
      PROVE  calls'[m].thread # calls'[i].thread
  <2>1. PICK c : calls' = [calls EXCEPT ![i] = c]
    BY <1>3 DEF NewAsk
  <2>2. calls'[m] = calls[m]
    BY <1>3, <2>1 DEF TypeOK
  <2> QED
    BY <1>3, <2>2 DEF NewAsk
<1> QED
  BY <1>1, <1>2, <1>3 DEF SubmitsDiffer, SameAsk

(* An id that the server knows stays that of some call. *)
LEMMA KnownInvariant ==
  ASSUME Inv, [Next]_vars
  PROVE  KnownAreCalled'
<1> USE DEF Inv
<1>1. SUFFICES ASSUME NEW t \in Requests, cases'[t].stage # "new"
               PROVE  \E k \in 1 .. MaxCalls : calls'[k].thread = t
  BY DEF KnownAreCalled
<1>2. PICK k \in 1 .. MaxCalls : calls[k].thread = t
  <2>1. CASE cases[t].stage # "new"
    BY <2>1 DEF KnownAreCalled
  <2>2. CASE cases[t].stage = "new"
    BY <1>1, <2>2, CasesStay
  <2> QED
    BY <2>1, <2>2
<1>3. calls[k] # Unused
  <2>1. Unused.thread = NoRequest
    BY DEF Unused
  <2> QED
    BY <1>2, <2>1, NamesAssumption
<1>4. ~NewAsk(k)
  BY <1>3 DEF NewAsk
<1> QED
  BY <1>2, <1>4, CallSteps DEF SameAsk


(* What is known of a call stays known: nobody else parks its request, and *)
(* what it has answered was sought by then.                                *)
LEMMA CallsInvariant ==
  ASSUME Inv, [Next]_vars
  PROVE  CallsSound'
<1> USE DEF Inv
<1>1. SUFFICES ASSUME NEW j \in 1 .. MaxCalls PROVE CallSound(j)'
  BY DEF CallsSound
<1>2. CallSound(j) /\ calls[j] \in Calls
  BY DEF CallsSound, TypeOK
<1>9. TypeOK'
  BY TypeInvariant
<1>8. PICK t : t = calls[j].thread
  OBVIOUS
<1>7. PICK a : a = calls[j].answer
  OBVIOUS
<1>3. CASE NewAsk(j)
  BY <1>3 DEF NewAsk, CallSound
<1>4. CASE /\ SameAsk(j) /\ calls'[j].at = calls[j].at /\ calls'[j].answer = calls[j].answer
           /\ calls[j].at = "unused" => calls'[j] = calls[j]
  <2>1. CASE calls[j].at = "unused"
    <3>1. calls'[j] = Unused /\ Unused.at = "unused" /\ Unused.op = "submit"
      BY <1>2, <1>4, <2>1 DEF CallSound, Unused
    <3> QED
      BY <3>1 DEF CallSound
  <2>2. CASE calls[j].at # "unused"
    <3>1. t \in Requests
      BY <1>2, <1>8, <2>2 DEF CallSound
    <3>2. cases[t].stage # "new" => cases'[t].stage # "new" /\ cases'[t].held = cases[t].held
      BY <3>1, KnownStay
    <3>3. ASSUME calls[j].op = "submit", calls[j].at = "sent"
          PROVE  cases'[t].stage = "new"
      <4>1. cases[t].stage = "new"
        BY <1>2, <1>8, <3>3 DEF CallSound
      <4>2. ASSUME NEW k \in 1 .. MaxCalls, Is(k, "submit", "sent"), calls[k].thread = t,
                   calls' = Answered(k, cases'[t].stage)
            PROVE  FALSE
        <5>1. k = j
          BY <1>8, <3>3, <4>2 DEF SubmitsDiffer, Is
        <5>2. calls'[j] = [calls[j] EXCEPT !.at = "answered", !.tries = 0, !.answer = cases'[t].stage]
          BY <4>2, <5>1 DEF Answered, TypeOK
        <5>3. cases'[t].stage \in Stages
          BY <3>1, <1>9 DEF TypeOK, Cases
        <5>4. calls'[j].at = "answered"
          BY <1>2, <5>2, <5>3, AnswersFields
        <5> QED
          BY <1>4, <3>3, <5>4
      <4> QED
        BY <3>1, <4>1, <4>2, CasesStay
    <3>4. ASSUME calls[j].op = "submit", calls[j].at = "answered", calls[j].answer \in Ends
          PROVE  ~cases'[t].held
      <4>1. cases[t].stage # "new" /\ ~cases[t].held
        BY <1>2, <1>8, <3>4 DEF CallSound, Ends
      <4> QED
        BY <3>2, <4>1
    <3>5. ASSUME calls[j].op = "resume", calls[j].at = "answered", calls[j].answer \in Ends,
                 cases'[t].held
          PROVE  Sought(t, a)'
      <4>1. cases[t].stage # "new"
        BY <1>2, <1>8, <3>5 DEF CallSound
      <4>2. Sought(t, a)
        BY <1>2, <1>7, <1>8, <3>2, <3>5, <4>1 DEF CallSound
      <4> QED
        BY <4>2, SoughtStays
    <3>6. calls'[j].thread = t /\ calls'[j].answer = a
      BY <1>4, <1>7, <1>8 DEF SameAsk
    <3>7. Sought(calls[j].thread, calls[j].answer)' <=> Sought(t, a)'
      BY <3>6
    <3> QED
      BY <1>2, <1>4, <1>7, <1>8, <2>2, <3>1, <3>2, <3>3, <3>4, <3>5, <3>6, <3>7
         DEF CallSound, SameAsk
  <2> QED
    BY <2>1, <2>2
<1>5. CASE Serve(j) /\ SameAsk(j)
  <2>1. calls[j].at \notin {"unused", "answered"} /\ calls'[j].at \notin {"unused", "sent"}
    BY <1>5, ServeKeeps
  <2>2. t \in Requests
    BY <1>2, <1>8, <2>1 DEF CallSound
  <2>3. calls'[j].thread = t
    BY <1>5, <1>8 DEF SameAsk
  <2>4. cases[t].stage # "new" => cases'[t].stage # "new" /\ cases'[t].held = cases[t].held
    BY <2>2, KnownStay
  <2>5. PICK b : b = calls'[j].answer
    OBVIOUS
  <2>6. CASE /\ calls[j].op = "submit" /\ calls[j].at = "sent" /\ calls'[j].at = "answered"
             /\ b \in {"gate", "released", "failed"}
             /\ cases'[t].stage = b /\ cases'[t].held = (b = "gate")
    <3>1. b \in Ends => ~cases'[t].held
      BY <2>6 DEF Ends
    <3> QED
      BY <1>2, <1>5, <1>8, <2>2, <2>3, <2>5, <2>6, <3>1 DEF CallSound, SameAsk
  <2>7. CASE calls'[j].at = "answered" /\ b = "error"
    <3>1. b \notin Ends
      BY <2>7 DEF Ends
    <3> QED
      BY <1>2, <1>5, <1>8, <2>1, <2>2, <2>3, <2>4, <2>5, <2>7, <3>1 DEF CallSound, SameAsk
  <2>8. CASE calls[j].op = "resume" /\ calls'[j].at \in {"checked", "loaded"}
    BY <1>2, <1>5, <1>8, <2>2, <2>3, <2>4, <2>8 DEF CallSound, SameAsk
  <2>9. CASE /\ calls[j].op = "resume" /\ calls'[j].at = "answered"
             /\ \/ b \notin Ends
                \/ b = cases[t].stage
                \/ calls[j].input # "invalid" /\ b = StageAfter(calls[j].input)
    <3>1. calls[j].seen = t /\ cases[t].stage # "new"
      BY <1>2, <1>8, <2>9 DEF CallSound
    <3>2. b \in Ends /\ cases'[t].held => Sought(t, b)
      <4>1. CASE b \notin Ends
        BY <4>1
      <4>2. CASE b = cases[t].stage
        BY <2>2, <2>4, <3>1, <4>2 DEF DecidedAsSeen, Ends
      <4>3. CASE calls[j].input # "invalid" /\ b = StageAfter(calls[j].input)
        BY <1>8, <2>9, <3>1, <4>3 DEF Sought
      <4> QED
        BY <2>9, <4>1, <4>2, <4>3
    <3>3. b \in Ends /\ cases'[t].held => Sought(t, b)'
      BY <3>2, SoughtStays
    <3>4. Sought(calls[j].thread, calls[j].answer)' <=> Sought(t, b)'
      BY <2>3, <2>5
    <3> QED
      BY <1>2, <1>5, <1>8, <2>2, <2>3, <2>4, <2>5, <2>9, <3>1, <3>3, <3>4 DEF CallSound, SameAsk
  <2>10. TypeOK /\ CallsSound /\ Serve(j)
    BY <1>5
  <2> QED
    BY <1>8, <2>5, <2>6, <2>7, <2>8, <2>9, <2>10, ServeAnswers
<1> QED
  BY <1>3, <1>4, <1>5, CallSteps

-----------------------------------------------------------------------------
(* What the pages show. *)

(* A page shows what it showed, or nothing, or the answer of a call. *)
LEMMA ShowsSteps ==
  ASSUME Inv, [Next]_vars, NEW q \in Pages
  PROVE  LET r == page[q]
             new == page'[q]
         IN  \/ new.current = r.current /\ new.shown = r.shown /\ new.says = r.says
             \/ new.current = NoRequest /\ new.shown = NoRequest /\ new.says = "new"
             \/ \E k \in 1 .. MaxCalls :
                  /\ calls[k].at = "answered" /\ calls[k].answer # "error"
                  /\ new.current = calls[k].thread /\ new.shown = calls[k].thread
                  /\ new.says = calls[k].answer
                  /\ cases' = cases
<1> USE DEF Inv
<1> DEFINE Stays == /\ page'[q].current = page[q].current /\ page'[q].shown = page[q].shown
                    /\ page'[q].says = page[q].says
           Clears == /\ page'[q].current = NoRequest /\ page'[q].shown = NoRequest
                     /\ page'[q].says = "new"
           Shows(k) == /\ calls[k].at = "answered" /\ calls[k].answer # "error"
                       /\ page'[q].current = calls[k].thread /\ page'[q].shown = calls[k].thread
                       /\ page'[q].says = calls[k].answer
                       /\ cases' = cases
<1>0. page \in [Pages -> PageStates] /\ page[q] \in PageStates
  BY DEF TypeOK
<1>1. ASSUME page'[q] = page[q] PROVE Stays
  BY <1>1
<1>2. ASSUME NEW k \in 1 .. MaxCalls, NEW p \in Pages, Ask(p, k)
      PROVE  Stays
  <2>1. CASE p # q
    BY <1>0, <1>2, <2>1 DEF Ask
  <2>2. CASE p = q
    <3> DEFINE r1 == [page[q] EXCEPT !.asking = TRUE]
               r2 == [r1 EXCEPT !.gate = NoRequest]
               r3 == [r2 EXCEPT !.busy = 0]
               Same(x) == /\ x.current = page[q].current /\ x.shown = page[q].shown
                          /\ x.says = page[q].says
    <3>1. r1 \in PageStates /\ Same(r1)
      BY <1>0 DEF PageStates
    <3>2. r2 \in PageStates /\ Same(r2)
      <4> HIDE DEF r1
      <4> QED
        BY <3>1 DEF PageStates
    <3>3. Same(r3)
      <4> HIDE DEF r2
      <4> QED
        BY <3>2 DEF PageStates
    <3>4. page'[q] = r3
      BY <1>0, <1>2, <2>2 DEF Ask
    <3> QED
      BY <3>3, <3>4
  <2> QED
    BY <2>1, <2>2
<1>3. ASSUME NEW k \in 1 .. MaxCalls, NEW p \in Pages, NEW input \in Inputs, Decide(p, k, input)
      PROVE  Stays
  BY <1>0, <1>3 DEF Decide, PageStates
<1>4. ASSUME NEW k \in 1 .. MaxCalls, NEW t \in Requests, NEW input \in Inputs,
             CommandResume(k, t, input)
      PROVE  Stays
  BY <1>4 DEF CommandResume
<1>5. ASSUME NEW k \in 1 .. MaxCalls, Serve(k)
      PROVE  Stays
  BY <1>5, ServeKeeps
<1>6. ASSUME NEW p \in Pages, Reset(p)
      PROVE  Stays \/ Clears
  BY <1>0, <1>6 DEF Reset, Screen
<1>7. ASSUME NEW k \in 1 .. MaxCalls, NEW s \in Stages \cup {"error"},
             AskReturns(k, s) \/ DecideReturns(k, s)
      PROVE  Stays \/ Shows(k)
  <2>1. cases' = cases
    BY <1>7, ReturnKeeps
  <2>2. s # "error" => calls[k].at = "answered" /\ calls[k].answer = s
    BY <1>7 DEF AskReturns, DecideReturns, Gets
  <2>3. CASE page'[q] = page[q]
    BY <2>3
  <2>4. CASE page'[q] = [page[q] EXCEPT !.asking = FALSE]
    BY <1>0, <2>4 DEF PageStates
  <2>5. CASE page'[q] = [page[q] EXCEPT !.busy = 0]
    BY <1>0, <2>5 DEF PageStates
  <2>6. CASE s # "error" /\ page'[q] = [Render(q, calls[k].thread, s) EXCEPT !.asking = FALSE]
    BY <2>1, <2>2, <2>6 DEF Render, Screen
  <2>7. CASE s # "error" /\ page'[q] = Render(q, calls[k].thread, s)
    BY <2>1, <2>2, <2>7 DEF Render, Screen
  <2> HIDE DEF Stays, Shows
  <2> QED
    BY <1>7, <2>3, <2>4, <2>5, <2>6, <2>7, PagesAfterReturn
<1>8. ASSUME UNCHANGED vars
      PROVE  Stays
  BY <1>8 DEF vars
<1>9. Stays \/ Clears \/ \E k \in 1 .. MaxCalls : Shows(k)
  <2> HIDE DEF Stays, Clears, Shows
  <2>1. ASSUME NEW k \in 1 .. MaxCalls,
               \/ \E p \in Pages : Ask(p, k)
               \/ \E p \in Pages, input \in Inputs : Decide(p, k, input)
               \/ \E t \in Requests, input \in Inputs : CommandResume(k, t, input)
               \/ Serve(k)
               \/ \E s \in Stages \cup {"error"} : AskReturns(k, s) \/ DecideReturns(k, s)
        PROVE  Stays \/ Shows(k)
    BY <1>2, <1>3, <1>4, <1>5, <1>7, <2>1
  <2> QED
    BY <1>6, <1>8, <2>1, Steps
<1> QED
  BY <1>9

(* Every step keeps what pages show known to the server. *)
LEMMA ShownInvariant ==
  ASSUME Inv, [Next]_vars
  PROVE  PagesSound'
<1> USE DEF Inv
<1>1. SUFFICES ASSUME NEW q \in Pages
               PROVE  /\ page'[q].current # NoRequest => cases'[page'[q].current].stage # "new"
                      /\ page'[q].shown # NoRequest => cases'[page'[q].shown].stage # "new"
                      /\ page'[q].says \in Ends => page'[q].shown # NoRequest
  BY DEF PagesSound
<1>2. CASE /\ page'[q].current = page[q].current /\ page'[q].shown = page[q].shown
           /\ page'[q].says = page[q].says
  <2>1. \A t \in Requests : cases[t].stage # "new" => cases'[t].stage # "new"
    BY KnownStay
  <2>2. page[q].current \in Requests \cup {NoRequest} /\ page[q].shown \in Requests \cup {NoRequest}
    BY DEF TypeOK, PageStates
  <2> QED
    BY <1>2, <2>1, <2>2 DEF PagesSound
<1>3. CASE page'[q].current = NoRequest /\ page'[q].shown = NoRequest /\ page'[q].says = "new"
  BY <1>3 DEF Ends
<1>4. ASSUME NEW k \in 1 .. MaxCalls,
             calls[k].at = "answered", calls[k].answer # "error",
             page'[q].current = calls[k].thread, page'[q].shown = calls[k].thread,
             page'[q].says = calls[k].answer, cases' = cases
      PROVE  /\ page'[q].current # NoRequest => cases'[page'[q].current].stage # "new"
             /\ page'[q].shown # NoRequest => cases'[page'[q].shown].stage # "new"
             /\ page'[q].says \in Ends => page'[q].shown # NoRequest
  <2>1. calls[k].thread \in Requests /\ cases[calls[k].thread].stage # "new"
    BY <1>4 DEF CallsSound, CallSound
  <2> QED
    BY <1>4, <2>1, NamesAssumption
<1> QED
  BY <1>2, <1>3, <1>4, ShowsSteps

(* Every step keeps decisions sought. *)
LEMMA DecisionsInvariant ==
  ASSUME Inv, [Next]_vars
  PROVE  DecidedAsSeen'
<1> USE DEF Inv
<1>1. ASSUME NEW t \in Requests, cases'[t].held, cases'[t].stage \in Ends
      PROVE  Sought(t, cases'[t].stage)
  <2>1. CASE cases'[t].stage = cases[t].stage /\ cases'[t].held = cases[t].held
    BY <1>1, <2>1 DEF DecidedAsSeen, Ends
  <2>2. CASE cases'[t].held = (cases'[t].stage = "gate")
    BY <1>1, <2>2 DEF Ends
  <2> QED
    BY <2>1, <2>2, CasesStay
<1>2. ASSUME NEW q \in Pages, page'[q].says \in Ends, cases'[page'[q].shown].held
      PROVE  Sought(page'[q].shown, page'[q].says)
  <2>1. CASE page'[q].shown = page[q].shown /\ page'[q].says = page[q].says
    <3>1. page[q].shown \in Requests /\ cases[page[q].shown].stage # "new"
      BY <1>2, <2>1 DEF PagesSound, TypeOK, PageStates
    <3>2. cases'[page[q].shown].held = cases[page[q].shown].held
      BY <3>1, KnownStay
    <3> QED
      BY <1>2, <2>1, <3>2 DEF DecidedAsSeen, Ends
  <2>2. CASE page'[q].says = "new"
    BY <1>2, <2>2 DEF Ends
  <2>3. ASSUME NEW k \in 1 .. MaxCalls,
               calls[k].at = "answered", page'[q].shown = calls[k].thread,
               page'[q].says = calls[k].answer, cases' = cases
        PROVE  Sought(page'[q].shown, page'[q].says)
    <3>1. calls[k].op \in {"submit", "resume"}
      BY DEF TypeOK, Calls
    <3> QED
      BY <1>2, <2>3, <3>1 DEF CallsSound, CallSound
  <2> QED
    BY <2>1, <2>2, <2>3, ShowsSteps
<1>3. ASSUME NEW t \in Requests, cases'[t].held, cases'[t].stage \in Ends
      PROVE  Sought(t, cases[t].stage)'
  <2>1. PICK stage : stage = cases'[t].stage
    OBVIOUS
  <2>2. Sought(t, stage)'
    BY <1>1, <1>3, <2>1, SoughtStays
  <2>3. Sought(t, stage)' <=> Sought(t, cases[t].stage)'
    BY <2>1
  <2> QED
    BY <2>2, <2>3
<1>4. ASSUME NEW q \in Pages, page'[q].says \in Ends, cases'[page'[q].shown].held
      PROVE  Sought(page[q].shown, page[q].says)'
  <2>1. PICK t, stage : t = page'[q].shown /\ stage = page'[q].says
    OBVIOUS
  <2>2. Sought(t, stage)'
    BY <1>2, <1>4, <2>1, SoughtStays
  <2>3. Sought(t, stage)' <=> Sought(page[q].shown, page[q].says)'
    BY <2>1
  <2> QED
    BY <2>2, <2>3
<1> QED
  BY <1>3, <1>4 DEF DecidedAsSeen, Ends

-----------------------------------------------------------------------------
(* The whole invariant, and what a reader wants to know of it. *)

(* Of every behaviour of pages, handlers and reviewers. *)
THEOREM WebInvariant == Spec => []Inv
<1>1. Init => Inv
  BY PagesInit, CallsInit DEF Inv
<1>2. Inv /\ [Next]_vars => Inv'
  <2> SUFFICES ASSUME Inv, [Next]_vars PROVE Inv'
    OBVIOUS
  <2>1. TypeOK' /\ GateIsCurrent' /\ NoAnswerBesideGate'
    BY TypeInvariant, PanelsInvariant DEF Inv
  <2> QED
    BY <2>1, ControlsInvariant, CallsInvariant, SubmitsInvariant, ShownInvariant, KnownInvariant,
       DecisionsInvariant DEF Inv
<1> QED
  BY <1>1, <1>2, PTL DEF Spec

(* The state of the pages, of the calls and of the server is what the      *)
(* modules' declarations say.                                              *)
THEOREM WebType == Spec => []TypeOK
BY WebInvariant, PTL DEF Inv

(* A sign-off panel is always that of the last result: whatever answers    *)
(* come late, a decision is sent for the request its reviewer sees.        *)
THEOREM GateFollowsResult == Spec => []GateIsCurrent
BY WebInvariant, PTL DEF Inv

(* No answer is on the page beside a sign-off panel. *)
THEOREM NoAnswerUnderReview == Spec => []NoAnswerBesideGate
BY WebInvariant, PTL DEF Inv

(* Whatever is recorded or shown as a reviewer's decision, a reviewer who  *)
(* saw that request gave in.                                               *)
THEOREM DecisionsAreSought == Spec => []DecidedAsSeen
BY WebInvariant, PTL DEF Inv

(* No page loses its controls: whatever is disabled waits for a call.      *)
THEOREM ControlsReturn == Spec => []DisabledWhileWaiting
BY WebInvariant, PTL DEF Inv

=============================================================================
