---------------------------- MODULE ResearchLab ----------------------------
(***************************************************************************)
(* The simulation laboratory (ResearchWorkspace.jsx): a form of backtest   *)
(* parameters, the templates that fill it, a backtest and an optimisation  *)
(* that may be under way while the form changes, and what they show.       *)
(*                                                                         *)
(* A handler closes over the form of the click. Before it sends anything   *)
(* it awaits the window of candles stored for the interval, so a request   *)
(* has two parts that were read at different times.                        *)
(*                                                                         *)
(* Of the 22 parameters the form keeps one of each sort: the interval, a   *)
(* period that templates set, inputs change and candidates replace, a      *)
(* cooldown that templates set unless it is 0, and shorting, for which     *)
(* there is no input. The symbol is handled like the interval. Results are *)
(* the form they were computed for. Toasts and the drawing are left out.   *)
(*                                                                         *)
(* last, clicked and deeds are no part of the program: the template        *)
(* selected last, the form each job was started with, and how much the     *)
(* operator has done.                                                      *)
(***************************************************************************)
EXTENDS Naturals, FiniteSets

CONSTANTS
  Natives,    \* options of the select that are no templates
  Templates,  \* id |-> what the form takes from the template
  Intervals, Periods, Cooldowns,
  Opening,    \* the form of a workspace just mounted
  MaxDeeds    \* bound on what the operator does

Forms == [strategy : Natives \cup DOMAIN Templates, interval : Intervals,
          period : Periods, cooldown : Cooldowns, shorting : BOOLEAN]

\* A cooldown of 0 is an absent one.
Profiles == [runnable : BOOLEAN, interval : Intervals, period : Periods,
             cooldown : Cooldowns \cup {0}, shorting : BOOLEAN]

ASSUME LabAssumption ==
  /\ Templates \in [DOMAIN Templates -> Profiles]
  /\ Natives \cap DOMAIN Templates = {}
  /\ Opening \in Forms
  /\ Opening.strategy \in Natives /\ ~Opening.shorting
  /\ MaxDeeds \in Nat

Kinds == {"backtest", "optimize"}

\* Nothing, the error of a run, or that the strategy cannot be simulated.
Notices == {"none", "error", "blocked"}

VARIABLES
  form,       \* the parameters on screen
  templates,  \* whether strategyTemplates was filled
  busy,       \* isLoading and isOptimizing
  failed,     \* what error and optimizationError say, if anything
  result,     \* backtestRun with its trades and optimizationResult: the form
              \* and the window each was computed for, empty or one
  jobs,       \* the handlers under way
  last, clicked, deeds

vars == <<form, templates, busy, failed, result, jobs, last, clicked, deeds>>

-----------------------------------------------------------------------------

Init ==
  /\ form = Opening
  /\ templates = FALSE
  /\ busy = [k \in Kinds |-> FALSE]
  /\ failed = [k \in Kinds |-> "none"]
  /\ result = [k \in Kinds |-> {}]
  /\ jobs = {}
  /\ last = {}
  /\ clicked = [k \in Kinds |-> Opening]
  /\ deeds = 0

Deed == deeds < MaxDeeds /\ deeds' = deeds + 1

\* selectedTemplateBacktestable of strategy s: a strategy without a template is.
Backtestable(s) ==
  s \in DOMAIN Templates /\ templates => Templates[s].runnable

LoadTemplates ==
  /\ ~templates
  /\ templates' = TRUE
  /\ UNCHANGED <<form, busy, failed, result, jobs, last, clicked, deeds>>

-----------------------------------------------------------------------------
(* The form.                                                               *)

\* Faulty variant: shorting is treated like the numbers.
FilledIfSet(t) ==
  LET p == Templates[t]
  IN  [strategy |-> t,
       interval |-> p.interval,
       period   |-> p.period,
       cooldown |-> IF p.cooldown = 0 THEN form.cooldown ELSE p.cooldown,
       shorting |-> form.shorting \/ p.shorting]

\* The form with what template t gives: a number that is absent stays what it
\* was, a switch does not.
Filled(t) ==
  LET p == Templates[t]
  IN  [strategy |-> t,
       interval |-> p.interval,
       period   |-> p.period,
       cooldown |-> IF p.cooldown = 0 THEN form.cooldown ELSE p.cooldown,
       shorting |-> p.shorting]

\* handleStrategyChange: a native option returns before any parameter is set.
SelectStrategy(s) ==
  /\ s \in DOMAIN Templates => templates
  /\ Deed
  /\ IF s \in DOMAIN Templates
     THEN form' = Filled(s) /\ last' = {s}
     ELSE form' = [form EXCEPT !.strategy = s] /\ UNCHANGED last
  /\ UNCHANGED <<templates, busy, failed, result, jobs, clicked>>

Type ==
  /\ Deed
  /\ \/ \E i \in Intervals : form' = [form EXCEPT !.interval = i]
     \/ \E p \in Periods : form' = [form EXCEPT !.period = p]
     \/ \E c \in Cooldowns : form' = [form EXCEPT !.cooldown = c]
  /\ UNCHANGED <<templates, busy, failed, result, jobs, last, clicked>>

\* applyOptimizationCandidate: the optimizer varies the period and nothing else.
\* The table is hidden while an optimisation runs.
Apply(p) ==
  /\ result["optimize"] # {} /\ ~busy["optimize"]
  /\ Deed
  /\ form' = [form EXCEPT !.period = p]
  /\ UNCHANGED <<templates, busy, failed, result, jobs, last, clicked>>

-----------------------------------------------------------------------------
(* handleExecute and handleOptimize.                                       *)

Start(k) ==
  /\ Deed
  /\ busy' = [busy EXCEPT ![k] = TRUE]
  /\ result' = [result EXCEPT ![k] = {}]
  /\ jobs' = jobs \cup
       {[kind |-> k, form |-> form, window |-> "", stage |-> "window"]}
  /\ clicked' = [clicked EXCEPT ![k] = form]
  /\ UNCHANGED <<form, templates, last>>

\* Faulty variant: an earlier error stays until a run succeeds.
ExecuteKeepsError ==
  /\ ~busy["backtest"] /\ Backtestable(form.strategy)
  /\ UNCHANGED failed
  /\ Start("backtest")

\* The button is disabled during a backtest and for a blocked strategy.
Execute ==
  /\ ~busy["backtest"] /\ Backtestable(form.strategy)
  /\ failed' = [k \in Kinds |-> "none"]
  /\ Start("backtest")

\* Faulty variant: no check of the strategy, as the button makes none.
OptimizeUnchecked ==
  /\ ~busy["optimize"] /\ ~busy["backtest"]
  /\ failed' = [failed EXCEPT !["optimize"] = "none"]
  /\ Start("optimize")

\* The button is disabled during either job; a blocked strategy ends in a
\* notice, next to the table of an earlier optimisation.
Optimize ==
  /\ ~busy["optimize"] /\ ~busy["backtest"]
  /\ IF Backtestable(form.strategy)
     THEN /\ failed' = [failed EXCEPT !["optimize"] = "none"]
          /\ Start("optimize")
     ELSE /\ Deed
          /\ failed' = [failed EXCEPT !["optimize"] = "blocked"]
          /\ UNCHANGED <<form, templates, busy, result, jobs, last, clicked>>

\* Faulty variant: the payload is read from the screen after the await.
SendCurrent(j) ==
  /\ j.stage = "window"
  /\ \E w \in {j.form.interval, "default"} :
       jobs' = (jobs \ {j}) \cup
         {[j EXCEPT !.stage = "sent", !.window = w, !.form = form]}
  /\ UNCHANGED <<form, templates, busy, failed, result, last, clicked, deeds>>

\* availableBacktestWindow is over, with the candles of the interval or, when
\* there are none or the fetch fails, with the last 30 days. The request goes
\* out with the form of the click.
Send(j) ==
  /\ j.stage = "window"
  /\ \E w \in {j.form.interval, "default"} :
       jobs' = (jobs \ {j}) \cup {[j EXCEPT !.stage = "sent", !.window = w]}
  /\ UNCHANGED <<form, templates, busy, failed, result, last, clicked, deeds>>

\* Faulty variant: only a success clears the flag.
AnswerNoFinally(j) ==
  /\ j.stage = "sent"
  /\ jobs' = jobs \ {j}
  /\ \/ /\ result' = [result EXCEPT ![j.kind] =
                        {[form |-> j.form, window |-> j.window]}]
        /\ busy' = [busy EXCEPT ![j.kind] = FALSE]
        /\ UNCHANGED failed
     \/ failed' = [failed EXCEPT ![j.kind] = "error"] /\ UNCHANGED <<busy, result>>
  /\ UNCHANGED <<form, templates, last, clicked, deeds>>

\* A result, or the error of an answer or of the fetch; finally clears the flag.
Answer(j) ==
  /\ j.stage = "sent"
  /\ jobs' = jobs \ {j}
  /\ \/ /\ result' = [result EXCEPT ![j.kind] =
                        {[form |-> j.form, window |-> j.window]}]
        /\ UNCHANGED failed
     \/ failed' = [failed EXCEPT ![j.kind] = "error"] /\ UNCHANGED result
  /\ busy' = [busy EXCEPT ![j.kind] = FALSE]
  /\ UNCHANGED <<form, templates, last, clicked, deeds>>

Operate ==
  \/ \E s \in Natives \cup DOMAIN Templates : SelectStrategy(s)
  \/ Type
  \/ \E p \in Periods : Apply(p)
  \/ Execute \/ Optimize

Progress(k) == \E j \in jobs : j.kind = k /\ (Send(j) \/ Answer(j))

Next == LoadTemplates \/ Operate \/ \E k \in Kinds : Progress(k)

Spec == Init /\ [][Next]_vars

\* Fetches end, with an answer or an error.
FairSpec == Spec /\ \A k \in Kinds : WF_vars(Progress(k))

-----------------------------------------------------------------------------
(* Properties.                                                             *)

Windows == Intervals \cup {"default"}

\* Every variable stays in its type; one job of a kind runs at a time.
TypeOK ==
  /\ form \in Forms
  /\ templates \in BOOLEAN
  /\ busy \in [Kinds -> BOOLEAN] /\ failed \in [Kinds -> Notices]
  /\ result \in [Kinds -> SUBSET [form : Forms, window : Windows]]
  /\ jobs \subseteq [kind : Kinds, form : Forms, window : Windows \cup {""},
                     stage : {"window", "sent"}]
  /\ \A i, j \in jobs : i.kind = j.kind => i = j
  /\ last \subseteq DOMAIN Templates
  /\ clicked \in [Kinds -> Forms] /\ deeds \in Nat

\* What is under way and what is shown belong to the form of the click that
\* started it, window included, however the form changed during the two awaits.
ResultsOfTheirClick ==
  /\ \A j \in jobs : j.form = clicked[j.kind]
  /\ \A k \in Kinds : \A r \in result[k] :
       r.form = clicked[k] /\ r.window \in {clicked[k].interval, "default"}

\* A template whose data is missing is never simulated, though the optimizer's
\* button is enabled for it and it can be selected during a run.
BlockedNeverRuns ==
  \A j \in jobs : j.form.strategy \in DOMAIN Templates =>
                    Templates[j.form.strategy].runnable

\* A job shows neither an earlier result nor an earlier error of its own while
\* it runs, and an error never stands next to the result of another click; a
\* backtest clears the notice that a strategy is blocked. That notice may stand
\* next to an earlier table, and the error of an optimisation may come during a
\* backtest or stand next to its result.
OneOutcome ==
  /\ \A k \in Kinds :
       /\ busy[k] => result[k] = {} /\ failed[k] = "none"
       /\ failed[k] = "error" => result[k] = {}
  /\ failed["backtest"] # "blocked"
  /\ busy["backtest"] => failed["optimize"] # "blocked"

\* Shorting, which no input shows, is what the template selected last asks for,
\* whatever templates came before it.
ShortingHasATemplate ==
  form.shorting <=> \E t \in last : Templates[t].shorting

\* Both buttons come back.
SimulationsEnd == \A k \in Kinds : busy[k] ~> ~busy[k]

=============================================================================
