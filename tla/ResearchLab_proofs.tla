-------------------------- MODULE ResearchLab_proofs --------------------------
(***************************************************************************)
(* Proofs, for any templates, parameters and number of clicks, of what the *)
(* laboratory may run and what it may show.                                *)
(***************************************************************************)
EXTENDS ResearchLab, TLAPS

(***************************************************************************)
(* The inductive invariant. A job keeps its button disabled, so a click    *)
(* never finds a job of its kind; a request carries the window of its own  *)
(* form; and a template is on screen only once the templates are loaded,   *)
(* so that the check for blocked ones sees it.                             *)
(***************************************************************************)
JobsAreBusy == \A j \in jobs : busy[j.kind]

SentWithWindow ==
  \A j \in jobs : j.stage = "sent" => j.window \in {j.form.interval, "default"}

ChosenIsLoaded == form.strategy \in DOMAIN Templates => templates

LabInv ==
  /\ TypeOK
  /\ JobsAreBusy
  /\ SentWithWindow
  /\ ChosenIsLoaded
  /\ ResultsOfTheirClick
  /\ BlockedNeverRuns
  /\ OneOutcome
  /\ ShortingHasATemplate

Jobs == [kind : Kinds, form : Forms, window : Windows \cup {""},
         stage : {"window", "sent"}]

\* What the operator did is counted.
LEMMA DeedCounts ==
  ASSUME TypeOK, Deed
  PROVE  deeds' \in Nat
<1>1. deeds \in Nat
  BY DEF TypeOK
<1>2. QED
  BY <1>1 DEF Deed

\* What is known of every job under way.
LEMMA JobFacts ==
  ASSUME LabInv
  PROVE  /\ jobs \subseteq Jobs
         /\ \A i, j \in jobs : i.kind = j.kind => i = j
         /\ \A j \in jobs : j.kind \in Kinds /\ j.form \in Forms
         /\ \A j \in jobs : busy[j.kind] /\ j.form = clicked[j.kind]
         /\ \A j \in jobs : j.form.interval \in Windows
         /\ \A j \in jobs :
               j.stage = "sent" => j.window \in {j.form.interval, "default"}
<1>1. jobs \subseteq Jobs /\ \A i, j \in jobs : i.kind = j.kind => i = j
  BY DEF LabInv, TypeOK, Jobs
<1>2. \A j \in jobs : j.kind \in Kinds /\ j.form \in Forms
  BY <1>1 DEF Jobs
<1>3. \A j \in jobs : j.form.interval \in Windows
  BY <1>2 DEF Forms, Windows
<1>4. \A j \in jobs : busy[j.kind] /\ j.form = clicked[j.kind]
  BY DEF LabInv, JobsAreBusy, ResultsOfTheirClick
<1>5. \A j \in jobs :
        j.stage = "sent" => j.window \in {j.form.interval, "default"}
  BY DEF LabInv, SentWithWindow
<1>6. QED
  BY <1>1, <1>2, <1>3, <1>4, <1>5

\* A template fills the form with values of its inputs.
LEMMA FilledIsForm ==
  ASSUME TypeOK, NEW t \in DOMAIN Templates
  PROVE  /\ Filled(t) \in Forms
         /\ Filled(t).strategy = t
         /\ Filled(t).shorting = Templates[t].shorting
<1>1. Templates[t] \in Profiles
  BY LabAssumption
<1>2. QED
  BY <1>1 DEF TypeOK, Filled, Forms, Profiles

\* A strategy the check lets through is no blocked template.
LEMMA CheckedIsRunnable ==
  ASSUME ChosenIsLoaded, Backtestable(form.strategy),
         form.strategy \in DOMAIN Templates
  PROVE  Templates[form.strategy].runnable
BY DEF ChosenIsLoaded, Backtestable

-----------------------------------------------------------------------------

LEMMA InitLab == Init => LabInv
<1> SUFFICES ASSUME Init PROVE LabInv
  OBVIOUS
<1>1. TypeOK
  BY LabAssumption DEF Init, TypeOK, Notices
<1>2. JobsAreBusy /\ SentWithWindow /\ ChosenIsLoaded
  BY LabAssumption DEF Init, JobsAreBusy, SentWithWindow, ChosenIsLoaded
<1>3. ResultsOfTheirClick /\ BlockedNeverRuns /\ OneOutcome
  BY DEF Init, ResultsOfTheirClick, BlockedNeverRuns, OneOutcome, Kinds
<1>4. ShortingHasATemplate
  BY LabAssumption DEF Init, ShortingHasATemplate
<1>5. QED
  BY <1>1, <1>2, <1>3, <1>4 DEF LabInv

LEMMA LoadTemplatesKeeps ==
  ASSUME LabInv, LoadTemplates
  PROVE  LabInv'
<1> USE DEF LabInv, LoadTemplates
<1>1. TypeOK'
  BY DEF TypeOK
<1>2. JobsAreBusy' /\ SentWithWindow' /\ ChosenIsLoaded'
  BY DEF JobsAreBusy, SentWithWindow, ChosenIsLoaded
<1>3. ResultsOfTheirClick' /\ BlockedNeverRuns' /\ OneOutcome'
  BY DEF ResultsOfTheirClick, BlockedNeverRuns, OneOutcome
<1>4. ShortingHasATemplate'
  BY DEF ShortingHasATemplate
<1>5. QED
  BY <1>1, <1>2, <1>3, <1>4

\* What only changes the form.
LEMMA FormKeeps ==
  ASSUME LabInv, form' \in Forms, last' \subseteq DOMAIN Templates, deeds' \in Nat,
         ChosenIsLoaded', ShortingHasATemplate',
         UNCHANGED <<templates, busy, failed, result, jobs, clicked>>
  PROVE  LabInv'
<1> USE DEF LabInv
<1>1. TypeOK'
  BY DEF TypeOK
<1>2. JobsAreBusy' /\ SentWithWindow'
  BY DEF JobsAreBusy, SentWithWindow
<1>3. ResultsOfTheirClick' /\ BlockedNeverRuns' /\ OneOutcome'
  BY DEF ResultsOfTheirClick, BlockedNeverRuns, OneOutcome
<1>4. QED
  BY <1>1, <1>2, <1>3

LEMMA SelectStrategyKeeps ==
  ASSUME LabInv, NEW s \in Natives \cup DOMAIN Templates, SelectStrategy(s)
  PROVE  LabInv'
<1>1. TypeOK /\ form \in Forms /\ ShortingHasATemplate /\ deeds' \in Nat
  <2>1. TypeOK /\ ShortingHasATemplate /\ Deed
    BY DEF LabInv, SelectStrategy
  <2>2. QED
    BY <2>1, DeedCounts DEF TypeOK
<1>2. CASE s \in DOMAIN Templates
  <2>1. form' = Filled(s) /\ last' = {s} /\ templates
    BY <1>2 DEF SelectStrategy
  <2>2. ShortingHasATemplate' /\ ChosenIsLoaded' /\ form' \in Forms
    BY <1>1, <1>2, <2>1, FilledIsForm DEF ShortingHasATemplate, ChosenIsLoaded,
       SelectStrategy
  <2>3. QED
    BY <1>1, <1>2, <2>1, <2>2, FormKeeps DEF SelectStrategy
<1>3. CASE s \notin DOMAIN Templates
  <2>1. form' = [form EXCEPT !.strategy = s] /\ last' = last
    BY <1>3 DEF SelectStrategy
  <2>2. /\ form' \in Forms /\ form'.strategy = s /\ form'.shorting = form.shorting
    BY <1>1, <2>1 DEF Forms
  <2>3. ShortingHasATemplate' /\ ChosenIsLoaded'
    BY <1>1, <1>3, <2>1, <2>2 DEF ShortingHasATemplate, ChosenIsLoaded
  <2>4. QED
    BY <1>1, <2>1, <2>2, <2>3, FormKeeps DEF SelectStrategy, LabInv, TypeOK
<1>4. QED
  BY <1>2, <1>3

\* The inputs and the candidates of an optimisation set no switch.
LEMMA TypeAndApplyKeep ==
  ASSUME LabInv, Type \/ \E p \in Periods : Apply(p)
  PROVE  LabInv'
<1>1. form \in Forms /\ deeds' \in Nat
  <2>1. TypeOK /\ Deed
    BY DEF LabInv, Type, Apply
  <2>2. QED
    BY <2>1, DeedCounts DEF TypeOK
<1>2. /\ form' \in Forms /\ form'.strategy = form.strategy
      /\ form'.shorting = form.shorting
  BY <1>1 DEF Type, Apply, Forms
<1>3. /\ UNCHANGED <<templates, busy, failed, result, jobs, clicked, last>>
  BY DEF Type, Apply
<1>4. ShortingHasATemplate' /\ ChosenIsLoaded'
  BY <1>2, <1>3 DEF LabInv, ShortingHasATemplate, ChosenIsLoaded
<1>5. last' \subseteq DOMAIN Templates
  BY <1>3 DEF LabInv, TypeOK
<1>6. QED
  BY <1>1, <1>2, <1>3, <1>4, <1>5, FormKeeps

-----------------------------------------------------------------------------
(* The jobs.                                                               *)

\* A click that finds no job of its kind and a runnable strategy.
LEMMA StartKeeps ==
  ASSUME LabInv, NEW k \in Kinds, Start(k), ~busy[k], Backtestable(form.strategy),
         failed' \in [Kinds -> Notices], failed'["optimize"] = "none",
         k = "backtest" => failed'["backtest"] = "none",
         k # "backtest" => failed'["backtest"] = failed["backtest"]
  PROVE  LabInv'
<1>j. PICK new : new = [kind |-> k, form |-> form, window |-> "",
                         stage |-> "window"]
  OBVIOUS
<1>n. /\ new \in Jobs /\ new.kind = k /\ new.form = form /\ new.stage # "sent"
  BY <1>j DEF LabInv, TypeOK, Jobs
<1>a. \A j \in jobs : j.kind # k
  BY JobFacts
<1>0. /\ jobs' = jobs \cup {new}
      /\ UNCHANGED <<form, templates, last>>
      /\ clicked' = [clicked EXCEPT ![k] = form]
      /\ busy' = [busy EXCEPT ![k] = TRUE]
      /\ result' = [result EXCEPT ![k] = {}]
      /\ deeds' \in Nat
  BY <1>j, DeedCounts DEF LabInv, Start
<1>1. TypeOK'
  <2>1. jobs' \subseteq Jobs /\ \A i, j \in jobs' : i.kind = j.kind => i = j
    BY <1>n, <1>a, <1>0, JobFacts
  <2>2. busy' \in [Kinds -> BOOLEAN] /\ clicked' \in [Kinds -> Forms]
    BY <1>0 DEF LabInv, TypeOK
  <2>3. result' \in [Kinds -> SUBSET [form : Forms, window : Windows]]
    BY <1>0 DEF LabInv, TypeOK
  <2>4. QED
    BY <1>0, <2>1, <2>2, <2>3 DEF LabInv, TypeOK, Jobs
<1>2. JobsAreBusy'
  BY <1>n, <1>0, JobFacts DEF LabInv, TypeOK, JobsAreBusy
<1>3. SentWithWindow' /\ ChosenIsLoaded'
  BY <1>n, <1>0 DEF LabInv, SentWithWindow, ChosenIsLoaded
<1>4. ResultsOfTheirClick'
  <2>1. \A j \in jobs' : j.form = clicked'[j.kind]
    BY <1>n, <1>a, <1>0, JobFacts DEF LabInv, TypeOK
  <2>2. \A i \in Kinds : \A r \in result'[i] :
          r.form = clicked'[i] /\ r.window \in {clicked'[i].interval, "default"}
    BY <1>0 DEF LabInv, TypeOK, ResultsOfTheirClick
  <2>3. QED
    BY <2>1, <2>2 DEF ResultsOfTheirClick
<1>5. BlockedNeverRuns'
  BY <1>n, <1>0, CheckedIsRunnable DEF LabInv, BlockedNeverRuns
<1>6. OneOutcome'
  BY <1>0 DEF LabInv, TypeOK, OneOutcome, Kinds
<1>7. ShortingHasATemplate'
  BY <1>0 DEF LabInv, ShortingHasATemplate
<1>8. QED
  BY <1>1, <1>2, <1>3, <1>4, <1>5, <1>6, <1>7 DEF LabInv

LEMMA ExecuteKeeps ==
  ASSUME LabInv, Execute
  PROVE  LabInv'
<1>1. /\ failed' \in [Kinds -> Notices] /\ "backtest" \in Kinds
      /\ failed'["backtest"] = "none" /\ failed'["optimize"] = "none"
  BY DEF Execute, Kinds, Notices
<1>2. QED
  BY <1>1, StartKeeps DEF Execute

LEMMA OptimizeKeeps ==
  ASSUME LabInv, Optimize
  PROVE  LabInv'
<1>1. /\ failed' \in [Kinds -> Notices]
      /\ failed'["backtest"] = failed["backtest"]
      /\ failed'["optimize"] \in {"none", "blocked"}
      /\ "optimize" \in Kinds
  BY DEF LabInv, TypeOK, Optimize, Kinds, Notices
<1>2. CASE Backtestable(form.strategy)
  <2>1. failed'["optimize"] = "none"
    BY <1>1, <1>2 DEF LabInv, TypeOK, Optimize
  <2>2. QED
    BY <1>1, <1>2, <2>1, StartKeeps DEF Optimize
<1>3. CASE ~Backtestable(form.strategy)
  <2>1. UNCHANGED <<form, templates, busy, result, jobs, last, clicked>>
        /\ deeds' \in Nat
    BY <1>3, DeedCounts DEF Optimize, LabInv
  <2>2. TypeOK'
    BY <1>1, <2>1 DEF LabInv, TypeOK
  <2>3. JobsAreBusy' /\ SentWithWindow' /\ ChosenIsLoaded' /\ OneOutcome'
    BY <1>1, <2>1 DEF LabInv, JobsAreBusy, SentWithWindow, ChosenIsLoaded,
       OneOutcome, Optimize, Kinds
  <2>4. ResultsOfTheirClick' /\ BlockedNeverRuns'
    BY <2>1 DEF LabInv, ResultsOfTheirClick, BlockedNeverRuns
  <2>5. ShortingHasATemplate'
    BY <2>1 DEF LabInv, ShortingHasATemplate
  <2>6. QED
    BY <2>2, <2>3, <2>4, <2>5 DEF LabInv
<1>4. QED
  BY <1>2, <1>3

LEMMA SendKeeps ==
  ASSUME LabInv, NEW j \in jobs, Send(j)
  PROVE  LabInv'
<1>0. PICK w \in {j.form.interval, "default"} :
        jobs' = (jobs \ {j}) \cup {[j EXCEPT !.stage = "sent", !.window = w]}
  BY DEF Send
<1>n. PICK new : new = [j EXCEPT !.stage = "sent", !.window = w]
  OBVIOUS
<1>1. /\ UNCHANGED <<form, templates, busy, failed, result, last, clicked, deeds>>
  BY DEF Send
<1>2. j \in Jobs /\ j.form \in Forms /\ w \in Windows
  BY <1>0, JobFacts DEF Windows
<1>3. /\ new \in Jobs /\ new.kind = j.kind /\ new.form = j.form
      /\ new.window \in {new.form.interval, "default"}
  BY <1>n, <1>0, <1>2 DEF Jobs
<1>a. jobs' = (jobs \ {j}) \cup {new}
  BY <1>n, <1>0
<1>4. TypeOK'
  <2>1. jobs' \subseteq Jobs /\ \A i, l \in jobs' : i.kind = l.kind => i = l
    BY <1>a, <1>3, JobFacts
  <2>2. QED
    BY <1>1, <2>1 DEF LabInv, TypeOK, Jobs
<1>5. JobsAreBusy' /\ SentWithWindow' /\ ChosenIsLoaded'
  BY <1>a, <1>1, <1>3 DEF LabInv, JobsAreBusy, SentWithWindow, ChosenIsLoaded
<1>6. ResultsOfTheirClick' /\ BlockedNeverRuns'
  BY <1>a, <1>1, <1>3 DEF LabInv, ResultsOfTheirClick, BlockedNeverRuns
<1>7. OneOutcome' /\ ShortingHasATemplate'
  BY <1>1 DEF LabInv, OneOutcome, ShortingHasATemplate
<1>8. QED
  BY <1>4, <1>5, <1>6, <1>7 DEF LabInv

LEMMA AnswerKeeps ==
  ASSUME LabInv, NEW j \in jobs, Answer(j)
  PROVE  LabInv'
<1>n. PICK found : found = [form |-> j.form, window |-> j.window]
  OBVIOUS
<1>0. /\ jobs' = jobs \ {j} /\ j.stage = "sent"
      /\ busy' = [busy EXCEPT ![j.kind] = FALSE]
      /\ UNCHANGED <<form, templates, last, clicked, deeds>>
      /\ \/ result' = [result EXCEPT ![j.kind] = {found}] /\ UNCHANGED failed
         \/ failed' = [failed EXCEPT ![j.kind] = "error"] /\ UNCHANGED result
  BY <1>n DEF Answer
<1>1. /\ j \in Jobs /\ j.kind \in Kinds /\ j.form \in Forms
      /\ j.form = clicked[j.kind]
      /\ j.window \in {j.form.interval, "default"}
      /\ j.window \in Windows
      /\ busy[j.kind]
      /\ \A i \in jobs' : i.kind # j.kind
  BY <1>0, JobFacts DEF Windows
<1>f. /\ found \in [form : Forms, window : Windows]
      /\ found.form = j.form /\ found.window = j.window
  BY <1>n, <1>1
<1>2. TypeOK'
  <2>1. busy' \in [Kinds -> BOOLEAN] /\ failed' \in [Kinds -> Notices]
    BY <1>0 DEF LabInv, TypeOK, Notices
  <2>2. result' \in [Kinds -> SUBSET [form : Forms, window : Windows]]
    <3>1. result \in [Kinds -> SUBSET [form : Forms, window : Windows]]
      BY DEF LabInv, TypeOK
    <3>2. {found} \in SUBSET [form : Forms, window : Windows]
      BY <1>f
    <3>3. QED
      BY <1>0, <1>1, <3>1, <3>2
  <2>3. QED
    BY <1>0, <2>1, <2>2 DEF LabInv, TypeOK
<1>3. JobsAreBusy' /\ SentWithWindow' /\ ChosenIsLoaded'
  BY <1>0, <1>1 DEF LabInv, TypeOK, JobsAreBusy, SentWithWindow, ChosenIsLoaded
<1>4. ResultsOfTheirClick'
  <2>1. \A i \in jobs' : i.form = clicked'[i.kind]
    BY <1>0 DEF LabInv, ResultsOfTheirClick
  <2>2. \A i \in Kinds : \A r \in result'[i] :
          r.form = clicked'[i] /\ r.window \in {clicked'[i].interval, "default"}
    <3>1. ASSUME NEW i \in Kinds, NEW r \in result'[i]
          PROVE  r \in result[i] \/ (r = found /\ i = j.kind)
      <4>1. \/ result' = [result EXCEPT ![j.kind] = {found}]
            \/ result' = result
        BY <1>0
      <4>2. DOMAIN result = Kinds
        BY DEF LabInv, TypeOK
      <4>3. QED
        BY <4>1, <4>2
    <3>2. QED
      BY <1>f, <1>0, <1>1, <3>1 DEF LabInv, ResultsOfTheirClick
  <2>3. QED
    BY <2>1, <2>2 DEF ResultsOfTheirClick
<1>5. BlockedNeverRuns' /\ ShortingHasATemplate'
  BY <1>0 DEF LabInv, BlockedNeverRuns, ShortingHasATemplate
<1>6. OneOutcome'
  BY <1>0, <1>1 DEF LabInv, TypeOK, OneOutcome, Kinds
<1>7. QED
  BY <1>2, <1>3, <1>4, <1>5, <1>6 DEF LabInv

-----------------------------------------------------------------------------

LEMMA NextLab ==
  ASSUME LabInv, [Next]_vars
  PROVE  LabInv'
<1>1. CASE LoadTemplates
  BY <1>1, LoadTemplatesKeeps
<1>2. CASE Operate
  BY <1>2, SelectStrategyKeeps, TypeAndApplyKeep, ExecuteKeeps, OptimizeKeeps
     DEF Operate
<1>3. ASSUME NEW k \in Kinds, Progress(k)
      PROVE  LabInv'
  BY <1>3, SendKeeps, AnswerKeeps DEF Progress
<1>4. CASE UNCHANGED vars
  <2>1. TypeOK' /\ JobsAreBusy' /\ SentWithWindow' /\ ChosenIsLoaded'
    BY <1>4 DEF vars, LabInv, TypeOK, JobsAreBusy, SentWithWindow, ChosenIsLoaded
  <2>2. ResultsOfTheirClick' /\ BlockedNeverRuns' /\ OneOutcome'
    BY <1>4 DEF vars, LabInv, ResultsOfTheirClick, BlockedNeverRuns, OneOutcome
  <2>3. ShortingHasATemplate'
    BY <1>4 DEF vars, LabInv, ShortingHasATemplate
  <2>4. QED
    BY <2>1, <2>2, <2>3 DEF LabInv
<1>5. QED
  BY <1>1, <1>2, <1>3, <1>4 DEF Next

THEOREM LabInvariant == Spec => []LabInv
BY InitLab, NextLab, PTL DEF Spec

\* Every variable keeps its type, and no two jobs of a kind are under way.
THEOREM LabTypes == Spec => []TypeOK
<1>1. LabInv => TypeOK
  BY DEF LabInv
<1>2. QED
  BY <1>1, LabInvariant, PTL

\* Requests and results are those of the click that started them, however the
\* form changed while they were under way.
THEOREM ResultsBelong == Spec => []ResultsOfTheirClick
<1>1. LabInv => ResultsOfTheirClick
  BY DEF LabInv
<1>2. QED
  BY <1>1, LabInvariant, PTL

\* No simulation of a template whose data is missing is ever under way.
THEOREM BlockedStayOut == Spec => []BlockedNeverRuns
<1>1. LabInv => BlockedNeverRuns
  BY DEF LabInv
<1>2. QED
  BY <1>1, LabInvariant, PTL

\* An error of a run never stands next to a result of the same sort, and a run
\* shows neither from before.
THEOREM OutcomesExclude == Spec => []OneOutcome
<1>1. LabInv => OneOutcome
  BY DEF LabInv
<1>2. QED
  BY <1>1, LabInvariant, PTL

\* Shorting is on exactly when the template selected last asks for it.
THEOREM ShortingIsChosen == Spec => []ShortingHasATemplate
<1>1. LabInv => ShortingHasATemplate
  BY DEF LabInv
<1>2. QED
  BY <1>1, LabInvariant, PTL

===============================================================================
