------------------------------ MODULE Readiness ------------------------------
(***************************************************************************)
(* What one console knows of the backend and what it makes of it: the      *)
(* panel "Trade Readiness" of TradingWorkspace.jsx, fed by loadBackendData  *)
(* of App.jsx, the button that advances the lifecycle of a strategy, the   *)
(* console's own execution block, and the reconciliation an operator runs  *)
(* from OpsWorkspace.jsx.                                                  *)
(*                                                                         *)
(* A console loads once. Its requests are served one by one, their answers *)
(* are applied one by one with an await before each, and afterwards the    *)
(* console learns of nothing but the answers to its own clicks. A request  *)
(* answered with an error leaves its fact at what useState began with; a   *)
(* failed fetch or a broken body empties all of them but the block.        *)
(*                                                                         *)
(* The lifecycle is its rank, DRAFT being 0. Four facts block trading when *)
(* they are true: the kill switch, a mismatch in the latest reconciliation, *)
(* risk settings that exclude the symbol or the engine, and a rejection    *)
(* among the latest decisions.                                             *)
(*                                                                         *)
(* The variables after reconciling are no part of the program: facts       *)
(* written since they were read, facts whose request was refused, whether  *)
(* the block was toggled by hand since it was read, whether the lifecycle  *)
(* was disturbed (written by others, an answer lost, a request overtaken   *)
(* by a later one), and counters.                                          *)
(***************************************************************************)
EXTENDS Integers, Sequences, FiniteSets

CONSTANTS
  Top,         \* the rank of LIVE_ENABLED
  Starts,      \* what the backend may hold when the console is opened
  MaxWrites,   \* bound on what others write
  MaxClicks    \* bound on what the operator does

Gates == {"switch", "mismatch", "risk", "rejected"}

ASSUME ReadinessAssumption ==
  /\ Top \in Nat \ {0} /\ MaxWrites \in Nat /\ MaxClicks \in Nat
  /\ Starts \subseteq [bad : SUBSET Gates, stage : -1 .. Top, live : BOOLEAN]

Facts == Gates \cup {"stage", "live"}

\* The values of each fact; no lifecycle at all is -1.
Values(f) == IF f = "stage" THEN -1 .. Top ELSE BOOLEAN

VARIABLES
  server,       \* what the backend holds
  view,         \* isSafetyBlocked, strategyLifecycle, reconciliationRuns,
                \* riskSettings, riskDecisions and executionStatus
  answers,      \* what the requests of the load brought: empty, or one value
  refused,      \* those answered with an error
  next,         \* the answer the load applies next; past the last, it is over
  requests,     \* clicks on Advance under way
  reconciling,  \* where the run started from Ops is
  stale, unread, toggled, disturbed, writes, clicks

loadVars == <<answers, refused, next, unread>>
ghosts == <<stale, toggled, disturbed>>
vars == <<server, view, loadVars, requests, reconciling, ghosts, writes, clicks>>

-----------------------------------------------------------------------------

\* Faulty variant: execution and lifecycle are applied before the gates.
OrderEager == <<"live", "stage", "switch", "mismatch", "risk", "rejected">>

\* The order in which the answers are applied.
Order == <<"switch", "stage", "mismatch", "risk", "rejected", "live">>

Unknown == [f \in Facts |-> IF f = "stage" THEN -1 ELSE FALSE]

Init ==
  /\ \E s \in Starts : server = [f \in Facts |-> IF f \in Gates THEN f \in s.bad
                                                ELSE s[f]]
  /\ view = Unknown
  /\ answers = [f \in Facts |-> {}]
  /\ refused = {} /\ unread = {}
  /\ next = 1
  /\ requests = {}
  /\ reconciling = "no"
  /\ stale = {} /\ toggled = FALSE /\ disturbed = FALSE
  /\ writes = 0 /\ clicks = 0

\* canShowLiveReady.
Ready ==
  /\ view["stage"] = Top
  /\ view["live"]
  /\ \A g \in Gates : ~view[g]

-----------------------------------------------------------------------------
(* loadBackendData.                                                        *)

Loading == next <= Len(Order)

\* The handler of one of the requests reads its fact.
Serve(f) ==
  /\ answers[f] = {} /\ f \notin refused /\ Loading
  /\ answers' = [answers EXCEPT ![f] = {server[f]}]
  /\ UNCHANGED <<server, view, refused, next, unread, requests, reconciling,
                 ghosts, writes, clicks>>

\* Its service is missing or its query fails; execution/status cannot fail.
Refuse(f) ==
  /\ answers[f] = {} /\ f \notin refused \cup {"live"} /\ Loading
  /\ refused' = refused \cup {f}
  /\ UNCHANGED <<server, view, answers, next, unread, requests, reconciling,
                 ghosts, writes, clicks>>

\* Promise.all waits for every answer; then one is applied after another.
Apply ==
  /\ Loading
  /\ \A f \in Facts : answers[f] # {} \/ f \in refused
  /\ LET f == Order[next]
     IN  IF f \in refused
         THEN unread' = unread \cup {f} /\ UNCHANGED <<view, toggled>>
         ELSE /\ \E v \in answers[f] : view' = [view EXCEPT ![f] = v]
              /\ toggled' = (toggled /\ f # "switch")
              /\ UNCHANGED unread
  /\ next' = next + 1
  /\ UNCHANGED <<server, answers, refused, requests, reconciling, stale,
                 disturbed, writes, clicks>>

\* A fetch fails or a body is broken: all but the block is emptied.
Catch ==
  /\ Loading
  /\ view' = [Unknown EXCEPT !["switch"] = view["switch"]]
  /\ unread' = IF next = 1 THEN Facts ELSE Facts \ ({"switch"} \ unread)
  /\ next' = Len(Order) + 1
  /\ UNCHANGED <<server, answers, refused, requests, reconciling, ghosts,
                 writes, clicks>>

-----------------------------------------------------------------------------
(* The backend moves on.                                                   *)

\* The facts a load that is not over has not asked for yet are not stale.
Written(fs) == stale' = stale \cup {f \in fs : answers[f] # {}}

\* Other consoles, the workers and the API change what this console has read; a
\* lifecycle row is never deleted.
Write(f) ==
  /\ writes < MaxWrites /\ writes' = writes + 1
  /\ f # "live"
  /\ \E v \in (IF f = "stage" THEN 0 .. Top ELSE BOOLEAN) \ {server[f]} :
       server' = [server EXCEPT ![f] = v]
  /\ Written({f})
  /\ disturbed' = (disturbed \/ f = "stage")
  /\ UNCHANGED <<view, loadVars, requests, reconciling, toggled, clicks>>

-----------------------------------------------------------------------------
(* The operator.                                                           *)

Click == clicks < MaxClicks /\ clicks' = clicks + 1

\* triggerKillSwitchAction, from the palette or a button.
Toggle ==
  /\ Click
  /\ view' = [view EXCEPT !["switch"] = ~@]
  /\ toggled' = TRUE
  /\ UNCHANGED <<server, loadVars, requests, reconciling, stale, disturbed, writes>>

\* The button names the state after the one on screen and stays enabled while
\* an earlier click is under way.
Advance ==
  /\ Click
  /\ view["stage"] \in 0 .. Top - 1
  /\ requests' = requests \cup
       {[n |-> clicks, to |-> view["stage"] + 1, stage |-> "sent"]}
  /\ UNCHANGED <<server, view, loadVars, reconciling, ghosts, writes>>

\* AdvanceLifecycle stores the state it is sent, whatever the row holds.
ServeAdvance(r) ==
  /\ r.stage = "sent"
  /\ server' = [server EXCEPT !["stage"] = r.to]
  /\ requests' = (requests \ {r}) \cup {[r EXCEPT !.stage = "served"]}
  /\ stale' = IF server["stage"] = r.to THEN stale ELSE stale \cup {"stage"}
  /\ disturbed' = (disturbed \/ \E q \in requests : q.stage = "sent" /\ q.n < r.n)
  /\ UNCHANGED <<view, loadVars, reconciling, toggled, writes, clicks>>

\* Faulty variant: the console counts on from what it shows.
HearNext(r) ==
  /\ r.stage = "served"
  /\ requests' = requests \ {r}
  /\ view' = IF view["stage"] < Top THEN [view EXCEPT !["stage"] = @ + 1] ELSE view
  /\ stale' = stale \ {"stage"}
  /\ disturbed' = (disturbed \/ \E q \in requests : q.n < r.n)
  /\ UNCHANGED <<server, loadVars, reconciling, toggled, writes, clicks>>

\* The answer holds the row as it was stored and replaces the one on screen.
Hear(r) ==
  /\ r.stage = "served"
  /\ requests' = requests \ {r}
  /\ view' = [view EXCEPT !["stage"] = r.to]
  /\ stale' = IF server["stage"] = r.to THEN stale \ {"stage"}
              ELSE stale \cup {"stage"}
  /\ disturbed' = (disturbed \/ \E q \in requests : q.n < r.n)
  /\ UNCHANGED <<server, loadVars, reconciling, toggled, writes, clicks>>

\* The request or its answer is lost, or the update fails.
Lose(r) ==
  /\ requests' = requests \ {r}
  /\ disturbed' = TRUE
  /\ UNCHANGED <<server, view, loadVars, reconciling, stale, toggled, writes,
                 clicks>>

\* handleRunReconciliation; the button is disabled until it is over.
Reconcile ==
  /\ Click
  /\ reconciling = "no"
  /\ reconciling' = "asked"
  /\ UNCHANGED <<server, view, loadVars, requests, ghosts, writes>>

\* The run is stored; a critical mismatch has yet to arm the kill switch.
StoreRun ==
  /\ reconciling = "asked"
  /\ \E found \in {"matched", "warning", "critical"} :
       /\ server' = [server EXCEPT !["mismatch"] = found # "matched"]
       /\ reconciling' = IF found = "critical" THEN "arming" ELSE "over"
  /\ Written({"mismatch"})
  /\ UNCHANGED <<view, loadVars, requests, toggled, disturbed, writes, clicks>>

\* armKillSwitchForReconciliation; a failure is audited and nothing else.
Arm ==
  /\ reconciling = "arming"
  /\ reconciling' = "over"
  /\ \/ /\ server' = [server EXCEPT !["switch"] = TRUE]
        /\ Written({"switch"})
     \/ UNCHANGED <<server, stale>>
  /\ UNCHANGED <<view, loadVars, requests, toggled, disturbed, writes, clicks>>

\* The answer, or a failure at any time, shows a toast; nothing on the panel.
EndReconcile ==
  /\ reconciling = "over" \/ reconciling = "asked"
  /\ reconciling' = "no"
  /\ UNCHANGED <<server, view, loadVars, requests, ghosts, writes, clicks>>

Next ==
  \/ \E f \in Facts : Serve(f) \/ Refuse(f) \/ Write(f)
  \/ Apply \/ Catch
  \/ Toggle \/ Advance \/ Reconcile
  \/ \E r \in requests : ServeAdvance(r) \/ Hear(r) \/ Lose(r)
  \/ StoreRun \/ Arm \/ EndReconcile

Spec == Init /\ [][Next]_vars

-----------------------------------------------------------------------------
(* Properties.                                                             *)

Requests == [n : Nat, to : 1 .. Top, stage : {"sent", "served"}]

\* Every variable stays in its type.
TypeOK ==
  /\ DOMAIN server = Facts /\ DOMAIN view = Facts /\ DOMAIN answers = Facts
  /\ \A f \in Facts : server[f] \in Values(f) /\ view[f] \in Values(f)
  /\ \A f \in Facts : answers[f] \subseteq Values(f)
  /\ refused \subseteq Facts /\ unread \subseteq Facts /\ stale \subseteq Facts
  /\ next \in 1 .. Len(Order) + 1
  /\ requests \subseteq Requests
  /\ reconciling \in {"no", "asked", "arming", "over"}
  /\ toggled \in BOOLEAN /\ disturbed \in BOOLEAN
  /\ writes \in 0 .. MaxWrites /\ clicks \in 0 .. MaxClicks

\* LIVE READY is never a guess: the lifecycle and the adapter were read, and a
\* fact of the backend that speaks against it was written after it was read, was
\* refused to this console, or is the kill switch and was toggled by hand here.
\* It holds while the answers are applied, too.
ReadyHasGrounds ==
  Ready =>
    /\ server["live"]
    /\ server["stage"] = Top \/ "stage" \in stale
    /\ \A g \in Gates : server[g] =>
         g \in stale \cup unread \/ (g = "switch" /\ toggled)

\* Once no click is under way the panel shows the lifecycle the backend holds,
\* unless it was disturbed.
LifecycleSettles ==
  requests = {} /\ ~Loading /\ "stage" \notin unread /\ ~disturbed =>
    view["stage"] = server["stage"]

\* Clicks on Advance move the lifecycle by one state at most, however many were
\* made before the first was answered, unless it was disturbed.
OneStateAtATime ==
  [][requests # {} /\ ~disturbed' /\ server'["stage"] # server["stage"] =>
       server'["stage"] = server["stage"] + 1]_vars

=============================================================================
