------------------------------ MODULE Backfill ------------------------------
(***************************************************************************)
(* The historical backfill: jobs in market_data_backfill_jobs, the runs of *)
(* BackfillService.runJob that page a market's candles out of the exchange *)
(* into the candles table, and the resumption of a job by whoever asks for *)
(* it, from the row as that run reads it.                                  *)
(*                                                                         *)
(* Times are open times of candles, counted in candle intervals. A runner  *)
(* is a goroutine of the API server or a cmd/backfill process. A database  *)
(* call that fails may have taken effect at the server or not.             *)
(***************************************************************************)
EXTENDS Naturals, FiniteSets

CONSTANTS
  Runners,      \* goroutines and processes that may run a job
  Jobs,         \* ids the job table may hand out
  Halts,        \* open times for which the exchange has no candle
  Limit,        \* candles a request may return (1000 in the code)
  MaxAttempts,  \* BackfillService.maxAttempts
  Horizon,      \* bound on the exchange's clock
  MaxFaults     \* bound on failed calls and stopped processes

ASSUME BackfillAssumption ==
  /\ Limit \in Nat \ {0}
  /\ MaxAttempts \in Nat \ {0}
  /\ Horizon \in Nat
  /\ MaxFaults \in Nat

VARIABLES
  head,     \* open time of the candle now forming at the exchange
  candles,  \* the candles table, by open time
  jobs,     \* the job table
  pc,       \* what each runner does next, or how its last run returned
  held,     \* the id of the job a runner runs
  job,      \* its copy of the row
  limit,    \* the page size it asks for
  tries,    \* the attempts of its current fetch
  page,     \* the open times of the page it fetched
  seen,     \* the exchange's clock when it fetched it
  shared,   \* history: whether its job had another run meanwhile
  faults    \* failed calls and stopped processes so far

local == <<held, job, limit, tries, page, seen, shared>>
vars == <<head, candles, jobs, pc, local, faults>>

-----------------------------------------------------------------------------

Times == 0 .. Horizon

Status == {"pending", "running", "failed", "completed"}

BackfillJob ==
  [from : Times, to : Times, next : 0 .. Horizon + 1, status : Status,
   inserted : Nat, lastError : BOOLEAN]

NoJob == [status |-> "none"]

Existing == {j \in Jobs : jobs[j] # NoJob}

\* How a run returned, or that its process stopped or never ran.
Idle == {"stopped", "done", "error"}

Stages == Idle \cup {"mark", "fetch", "store", "progress", "complete", "fail"}

Busy(r) == pc[r] \notin Idle

\* What the exchange had in the range at time h: the last candle still forms.
Listed(from, to, h) == {t \in from .. to : t <= h /\ t \notin Halts}

\* The oldest n of a set of candles.
Oldest(S, n) == {t \in S : Cardinality({u \in S : u < t}) < n}

Newest(S) == CHOOSE t \in S : \A u \in S : u <= t

-----------------------------------------------------------------------------

Init ==
  /\ head = 0
  /\ candles = [t \in Times |-> "none"]
  /\ jobs = [j \in Jobs |-> NoJob]
  /\ pc = [r \in Runners |-> "stopped"]
  /\ held \in [Runners -> Jobs]
  /\ job = [r \in Runners |-> NoJob]
  /\ limit = [r \in Runners |-> Limit]
  /\ tries = [r \in Runners |-> 0]
  /\ page = [r \in Runners |-> {}]
  /\ seen = [r \in Runners |-> 0]
  /\ shared = [r \in Runners |-> FALSE]
  /\ faults = 0

Goto(r, stage) == pc' = [pc EXCEPT ![r] = stage]

Fault == faults < MaxFaults /\ faults' = faults + 1

\* runJob(ctx, job, limit) is called.
Enter(r, j, row, n) ==
  /\ ~Busy(r)
  /\ Goto(r, "mark")
  /\ held' = [held EXCEPT ![r] = j]
  /\ job' = [job EXCEPT ![r] = row]
  /\ limit' = [limit EXCEPT ![r] = n]
  /\ tries' = [tries EXCEPT ![r] = 0]
  /\ page' = [page EXCEPT ![r] = {}]
  /\ seen' = [seen EXCEPT ![r] = 0]
  /\ LET others == {q \in Runners \ {r} : Busy(q) /\ held[q] = j} IN
     shared' = [q \in Runners |->
                  IF q = r THEN others # {} ELSE shared[q] \/ q \in others]
  /\ UNCHANGED <<head, candles, faults>>

NewJob(from, to) ==
  [from |-> from, to |-> to, next |-> from, status |-> "pending",
   inserted |-> 0, lastError |-> FALSE]

\* Both creators refuse an empty range.
Create(j) ==
  /\ jobs[j] = NoJob
  /\ \E from, to \in Times : from < to /\ jobs' = [jobs EXCEPT ![j] = NewJob(from, to)]

\* cmd/backfill without -resume: BackfillService.Start.
Start(r, j) ==
  /\ Create(j)
  /\ \E n \in 1 .. Limit : Enter(r, j, jobs'[j], n)

\* POST /market/backfills: the row, and a goroutine that will resume it.
CreateForResume(j) ==
  /\ Create(j)
  /\ UNCHANGED <<head, candles, pc, local, faults>>

\* BackfillService.Resume: the goroutine of the API, or cmd/backfill -resume.
\* The row's status is not looked at.
Resume(r, j) ==
  /\ j \in Existing
  /\ Enter(r, j, jobs[j], Limit)
  /\ UNCHANGED jobs

-----------------------------------------------------------------------------
(* BackfillRepository.Save: the whole progress of the job, by id.          *)

Saves(r, row) == jobs' = [jobs EXCEPT ![held[r]] = row]

\* A failed Save answers with an empty job.
SaveFails(r, row) ==
  /\ Saves(r, row) \/ UNCHANGED jobs
  /\ Goto(r, "error")
  /\ UNCHANGED <<head, candles, local>>

-----------------------------------------------------------------------------
(* The steps of runJob.                                                    *)

\* Faulty variant: the run starts over instead of where the job stands.
MarkedFromStart(r) ==
  [job[r] EXCEPT !.status = "running", !.lastError = FALSE, !.next = job[r].from]

Marked(r) == [job[r] EXCEPT !.status = "running", !.lastError = FALSE]

\* Before and after every page. A row's next is never before its from.
Loop(row) == IF row.next < row.to THEN "fetch" ELSE "complete"

Mark(r) ==
  /\ pc[r] = "mark"
  /\ Saves(r, Marked(r))
  /\ job' = [job EXCEPT ![r] = Marked(r)]
  /\ Goto(r, Loop(job[r]))
  /\ UNCHANGED <<head, candles, held, limit, tries, page, seen, shared, faults>>

MarkFails(r) == pc[r] = "mark" /\ Fault /\ SaveFails(r, Marked(r))

\* The range asked for ends at job.To, inclusive at the exchange.
NextPage(r) == Oldest(Listed(job[r].next, job[r].to, head), limit[r])

\* Faulty variant: an empty page does not end the loop.
FetchUntilFull(r) ==
  /\ pc[r] = "fetch"
  /\ page' = [page EXCEPT ![r] = NextPage(r)]
  /\ seen' = [seen EXCEPT ![r] = head]
  /\ tries' = [tries EXCEPT ![r] = 0]
  /\ Goto(r, IF NextPage(r) = {} THEN "fetch" ELSE "store")
  /\ UNCHANGED <<head, candles, jobs, held, job, limit, shared, faults>>

Fetch(r) ==
  /\ pc[r] = "fetch"
  /\ page' = [page EXCEPT ![r] = NextPage(r)]
  /\ seen' = [seen EXCEPT ![r] = head]
  /\ tries' = [tries EXCEPT ![r] = 0]
  /\ Goto(r, IF NextPage(r) = {} THEN "complete" ELSE "store")
  /\ UNCHANGED <<head, candles, jobs, held, job, limit, shared, faults>>

FetchFails(r) ==
  /\ pc[r] = "fetch"
  /\ Fault
  /\ tries' = [tries EXCEPT ![r] = @ + 1]
  /\ Goto(r, IF tries[r] + 1 = MaxAttempts THEN "fail" ELSE "fetch")
  /\ UNCHANGED <<head, candles, jobs, held, job, limit, page, seen, shared>>

\* One INSERT ... ON CONFLICT DO UPDATE of the page, every row of it closed.
UpsertBatch(r) ==
  candles' = [t \in Times |-> IF t \notin page[r] THEN candles[t]
                              ELSE IF t = seen[r] THEN "forming" ELSE "final"]

Store(r) ==
  /\ pc[r] = "store"
  /\ UpsertBatch(r)
  /\ Goto(r, "progress")
  /\ UNCHANGED <<head, jobs, local, faults>>

\* Faulty variant: the error of the batch is dropped.
StoreErrorDropped(r) ==
  /\ pc[r] = "store"
  /\ Fault
  /\ UpsertBatch(r) \/ UNCHANGED candles
  /\ Goto(r, "progress")
  /\ UNCHANGED <<head, jobs, local>>

StoreFails(r) ==
  /\ pc[r] = "store"
  /\ Fault
  /\ UpsertBatch(r) \/ UNCHANGED candles
  /\ Goto(r, "fail")
  /\ UNCHANGED <<head, jobs, local>>

\* Faulty variant: counts the candles asked for.
AdvancedCountingLimit(r) ==
  [job[r] EXCEPT !.next = Newest(page[r]) + 1, !.inserted = @ + limit[r]]

Advanced(r) ==
  [job[r] EXCEPT !.next = Newest(page[r]) + 1,
                 !.inserted = @ + Cardinality(page[r])]

\* Faulty variant: compares the page with the service's limit, not the run's.
ProgressToCap(r) ==
  /\ pc[r] = "progress"
  /\ Saves(r, Advanced(r))
  /\ job' = [job EXCEPT ![r] = Advanced(r)]
  /\ Goto(r, IF Cardinality(page[r]) < Limit THEN "complete" ELSE Loop(Advanced(r)))
  /\ UNCHANGED <<head, candles, held, limit, tries, page, seen, shared, faults>>

\* A short page ends the job. Otherwise the run waits and looks again.
Progress(r) ==
  /\ pc[r] = "progress"
  /\ Saves(r, Advanced(r))
  /\ job' = [job EXCEPT ![r] = Advanced(r)]
  /\ Goto(r, IF Cardinality(page[r]) < limit[r] THEN "complete" ELSE Loop(Advanced(r)))
  /\ UNCHANGED <<head, candles, held, limit, tries, page, seen, shared, faults>>

\* The error is returned as it is: the job is not marked failed.
ProgressFails(r) == pc[r] = "progress" /\ Fault /\ SaveFails(r, Advanced(r))

Completed(r) == [job[r] EXCEPT !.status = "completed"]

Complete(r) ==
  /\ pc[r] = "complete"
  /\ Saves(r, Completed(r))
  /\ Goto(r, "done")
  /\ UNCHANGED <<head, candles, local, faults>>

CompleteFails(r) == pc[r] = "complete" /\ Fault /\ SaveFails(r, Completed(r))

Failed(r) == [job[r] EXCEPT !.status = "failed", !.lastError = TRUE]

\* failJob after a fetch or a store that failed.
Fail(r) ==
  /\ pc[r] = "fail"
  /\ Saves(r, Failed(r))
  /\ Goto(r, "error")
  /\ UNCHANGED <<head, candles, local, faults>>

\* failJob ignores the outcome of its Save. What failed the call before may well
\* fail this one: it takes no fault of its own.
FailFails(r) ==
  /\ pc[r] = "fail"
  /\ SaveFails(r, Failed(r))
  /\ UNCHANGED faults

-----------------------------------------------------------------------------

\* SIGTERM or a crash. After a signal the run's context is cancelled, so that
\* neither its pending call nor failJob's Save goes through any more.
Stop(r) ==
  /\ Busy(r)
  /\ Fault
  /\ Goto(r, "stopped")
  /\ UNCHANGED <<head, candles, jobs, local>>

\* At the exchange a candle closes and the next one begins to form.
Tick ==
  /\ head < Horizon
  /\ head' = head + 1
  /\ UNCHANGED <<candles, jobs, pc, local, faults>>

Run(r) ==
  \/ Mark(r) \/ MarkFails(r)
  \/ Fetch(r) \/ FetchFails(r)
  \/ Store(r) \/ StoreFails(r)
  \/ Progress(r) \/ ProgressFails(r)
  \/ Complete(r) \/ CompleteFails(r)
  \/ Fail(r) \/ FailFails(r)

Next ==
  \/ \E r \in Runners : Run(r) \/ Stop(r)
  \/ \E r \in Runners, j \in Jobs : Start(r, j) \/ Resume(r, j)
  \/ \E j \in Jobs : CreateForResume(j)
  \/ Tick

Spec == Init /\ [][Next]_vars

\* Calls return, if only with an error. http.DefaultClient sets no deadline, so
\* this takes an exchange that answers or a connection that breaks. A goroutine
\* then keeps running, but nobody has to resume a job.
FairSpec == Spec /\ \A r \in Runners : WF_vars(Run(r))

-----------------------------------------------------------------------------
(* Properties.                                                             *)

TypeOK ==
  /\ head \in Times
  /\ candles \in [Times -> {"none", "forming", "final"}]
  /\ jobs \in [Jobs -> BackfillJob \cup {NoJob}]
  /\ pc \in [Runners -> Stages]
  /\ held \in [Runners -> Jobs]
  /\ job \in [Runners -> BackfillJob \cup {NoJob}]
  /\ \A r \in Runners : Busy(r) => held[r] \in Existing /\ job[r] # NoJob
  /\ limit \in [Runners -> 1 .. Limit]
  /\ tries \in [Runners -> 0 .. MaxAttempts]
  /\ page \in [Runners -> SUBSET Times]
  /\ seen \in [Runners -> Times]
  /\ shared \in [Runners -> BOOLEAN]
  /\ faults \in 0 .. MaxFaults

\* No candle the exchange has between a row's start and its next_open_time is
\* missing from the table.
Covered(row) ==
  \A t \in Listed(row.from, Horizon, head) : t < row.next => candles[t] # "none"

\* next_open_time is a safe place to resume from, whoever stopped where.
NothingSkipped == \A j \in Existing : Covered(jobs[j])

\* candles_inserted counts each candle up to next_open_time once, although a
\* batch may be stored again by a later run and jobs may be run twice at once.
CountIsExact ==
  \A j \in Existing :
    jobs[j].inserted
      = Cardinality({t \in Listed(jobs[j].from, Horizon, head) : t < jobs[j].next})

\* A run only goes on to mark its job completed when every candle of the whole
\* range that the exchange had at its last fetch is in the table.
CompletesWholeRange ==
  \A r \in Runners : pc[r] = "complete" =>
    \A t \in Listed(job[r].from, job[r].to, seen[r]) :
      t < job[r].to => candles[t] # "none"

\* next_open_time goes back only by a run that had its job together with
\* another: one run after the other never loses progress, wherever they stop.
RegressNeedsTwoRuns ==
  [][\A j \in Existing :
       jobs'[j].next < jobs[j].next =>
         \E r \in Runners : Busy(r) /\ held[r] = j /\ shared[r]]_vars

\* runJob returns: its paging makes progress over gaps, over pages cut short
\* and over a clock that moves meanwhile.
RunsReturn == \A r \in Runners : Busy(r) ~> ~Busy(r)

=============================================================================
