# AlphaGate (Sentra) – TLA+ models and proofs

TLA+ specifications of the paper-trading platform in `src/`: its backend, where
processes share tables and streams, and its dashboard, where handlers outlive
the render they were made in. The specifications say what is shared, in which
order it is touched, and what stays true when calls fail, processes die,
answers are late, and several actors work at once. TLC checks them on small
instances; TLAPS proves the theorems of the `*_proofs` modules for every value
of the constants.

1. [The system](#1-the-system)
2. [Modules and how they correspond to the code](#2-modules-and-how-they-correspond-to-the-code)
3. [Runs](#3-runs)
4. [Fairness](#4-fairness)
5. [Proofs](#5-proofs)
6. [Where the code and its documentation part](#6-where-the-code-and-its-documentation-part)
7. [Not modelled](#7-not-modelled)
8. [What could follow](#8-what-could-follow)

## 1. The system

Three kinds of process share one PostgreSQL database and one Redis server:

- `cmd/worker`, usually one, more when scaled or while a new one replaces an
  old one: collects candles, persists them, and runs the paper pipeline;
- `cmd/api`: the HTTP API, with goroutines for requests and for backfills;
- one-shot commands: `cmd/backfill`, `cmd/strategy`, `cmd/risk`,
  `cmd/execution`, `cmd/migrate`.

No process takes a lock that another sees, and almost every database statement
is its own transaction (migrations and backtest results are the exceptions).
What keeps the processes from spoiling each other's work are a consumer group,
a few unique keys, and conditional upserts.

In front of the API stands the dashboard (`dashboard-src`), a React application
that any number of operators open at once. It loads the backend's facts once
per session, polls two lists, and otherwise learns only the answers to its own
requests. Execution block and manual orders of the trading desk exist in the
console alone.

| Component | State | Operations | Talks to | Correct when |
|---|---|---|---|---|
| Market data collector (`marketdata/collector.go`, `exchange/binance`) | reconnect count | subscribe, publish with retry, reconnect | exchange websocket → market-data stream | every closed candle of a live connection is published, in order |
| Stream consumer (`platform/streams`) | group position, pending list (Redis) | create group, read a batch, handle, acknowledge | stream → handler | an entry is handled by one worker; acknowledged only when dealt with |
| Orchestrator (`orchestration/orchestrator.go`) | none of its own | handle a candle event: candle, signal, decision, order, account, publications | all stores, output streams | one candle is run by one worker at a time and its effects are whole |
| Idempotency (`orchestration/idempotency.go`) | `pipeline_runs` | begin, complete, fail | orchestrator | mutual exclusion per candle; completed is final |
| Paper engine, order store, account (`execution`) | `paper_orders`, `paper_trades`, `paper_order_events`, `paper_accounts` | execute in memory, save order, save account, daily statistics | orchestrator, manual runner, `cmd/execution` | balances never negative and explained by the trades |
| Risk (`risk`) | `risk_decisions`, `risk_settings` | evaluate, save, settings | every executor, the risk editor | limits hold; what is approved can be filled; a save changes what was edited |
| Kill switch (`safety`) | `safety_status` | read, write | executors, API, reconciliation, dashboard | no new orders while armed |
| Manual runner (`orchestration/manual_runner.go`) | none | one whole cycle on request | same stores | same rules as the pipeline |
| Backfill (`marketdata/backfill.go`) | `market_data_backfill_jobs`, `candles` | start, resume, page loop | exchange REST, candle store | nothing between start and progress is missing; progress survives failures; a run returns |
| Candle store, persister, aggregation, gaps (`marketdata`) | `candles` | upsert, delete range, list, aggregate, find gaps | stream, backfill, strategies, backtests | closed candles are final; aggregates agree with their sources |
| Strategies (`strategy`, `indicator`, `pine`) | `strategy_settings`, `pine_strategies` | evaluate a window of candles; list, validate, save scripts | candles → signal; strategy editor | a signal only from a full window, on a crossing; what is stored parses |
| Backtests (`backtest`) | runs, comparisons | simulate, optimise, compare, validate | candles → results; research laboratory | no look-ahead; a trade's cash adds up; folds do not overlap |
| Activation (`activation`) | `strategy_activations`, `strategy_lifecycle` | activate, advance | comparisons → strategy settings; dashboard | nothing live without its evidence; no state skipped |
| Reconciliation (`reconciliation`) | `reconciliation_runs` | compare two snapshots, arm the kill switch | account, orders, safety; dashboard | a mismatch reported is a mismatch |
| API (`api`) | rate-limit windows | handlers | everything above | requests stay within the limit |
| Dashboard shell (`App.jsx`) | facts of the backend, palette, block, manual orders | load, palette, keyboard, lifecycle, block, orders | API; every workspace | nothing is shown as ready that was not read; a command is the one chosen |
| Trading workspace (`TradingWorkspace.jsx`) | the held button and its timer | hold, release, manual order, readiness panel | shell | an order only after a deliberate hold |
| Candle chart (`CanvasChart.jsx`) | zoom, scroll, drag, pointer, readout | drag, wheel, hover, redraw | shell's candles | loaded candles are visible; the readout is of one of them |
| Strategy editor (`StrategyWorkspace.jsx`) | script on screen, lists, diagnostics | select, type, validate, save | `pine_strategies` | reference texts are not saved; a success is of this script; the list is up to date |
| Research laboratory (`ResearchWorkspace.jsx`) | form, templates, two jobs and their results | fill, change, backtest, optimise | backtests | a result is of the parameters it was asked for |
| Risk editor (`RiskWorkspace.jsx`) | form, decisions | load, edit, save | `risk_settings` | a save changes what was typed |
| Operations (`OpsWorkspace.jsx`) | polled lists | reconcile, reset, run a cycle | API | lists follow the backend |
| Settings dialog (`SettingsModal.jsx`) | five inputs | edit, save | browser storage | |
| Audit, configuration, observability, migrations, platform clients, backtest agent | append-only or static | | | |

What is hard about the backend:

- **Interleaving.** Two workers get the same closed candle as two entries (each
  worker has a collector, and a publish whose answer was lost is repeated). A
  worker, a manual cycle and `cmd/execution` trade on one account. Two runs
  resume one backfill job.
- **Partial failure.** A run is up to twelve writes to two servers. Any of them
  fails, or takes effect and fails to say so, or is the last thing the process
  does.
- **Stale reads.** Balances, the daily trade count, the kill switch, the job row
  and the settings are read, and used several calls later.
- **Recovery.** The consumer reads only entries that were never delivered; a
  run that failed waits for a duplicate that nobody has to send.
- **Boundaries.** A short page, an empty page, a gap at the end of a range, the
  candle that is still forming, a limit of exactly zero.

And about the dashboard:

- **Closures.** A timer, a listener and a pending `await` go by the values of
  the render they were made in, while the operator and other answers change
  them.
- **Crossing answers.** Requests of one kind overtake each other, and answers
  arrive at a component that shows something else by then, or is unmounted.
- **Writes without a version.** A form is saved whole, a lifecycle state is
  stored as it is sent, a script is written by its name.
- **Partial knowledge.** A request that is refused leaves a fact at a value
  that looks harmless.

`PROJECT.json` lists the components with their status, and each hazard at its
line with the properties that would catch it going wrong.

## 2. Modules and how they correspond to the code

| Module | Models | Extends |
|---|---|---|
| `PaperPipeline` | stream, consumer group, idempotency record, run of a candle | |
| `RunLog` | what `PaperPipeline` promises, without streams, calls and faults | |
| `PaperEngine` | `PaperEngine.Execute` as operators | |
| `RiskRules` | `risk.Evaluator` as operators | |
| `PaperLedger` | everything that trades on the paper account | `PaperEngine`, `RiskRules` |
| `Backfill` | backfill jobs and their runs | |
| `ChartView` | the candle chart | |
| `RiskForm` | the risk editors of several consoles in front of the row they share | |
| `Desk` | held buttons, palette, keyboard listener, block and manual orders of one console | |
| `StrategyEditor` | the Pine editor in front of its table | |
| `ResearchLab` | form, templates, backtest and optimisation | |
| `Readiness` | what one console knows of the backend, the readiness panel, lifecycle and reconciliation | |
| `X_proofs` | theorems about `X`: `PaperPipeline` (with `RunLog`), `PaperLedger` (with `PaperEngine` and `RiskRules`), `Backfill`, `RiskForm`, `StrategyEditor`, `ResearchLab`, `Readiness` | `X`, `TLAPS` |
| `Trading_proofs` | theorems about the trading workspace: `Desk` and `ChartView` | `Desk`, `ChartView`, `TLAPS` |
| `MCX` | the instance of `X` for TLC | `X` |

`PaperPipeline` implements `RunLog`: `Log == INSTANCE RunLog WITH ...` maps the
rows of `pipeline_runs` to `status`, the workers whose program counter is in a
candle's run to `holder`, and the effects to `made`; `KeepsRunLog`
is `Log!Spec`.

The map in `PROJECT.json` gives the source lines of each definition. Operators
whose comment begins with "Faulty variant" are not used by the specifications:
each is the definition beside it with a plausible bug, kept to show that the
properties notice it. Variables that a module's header calls no part of the
program record history for the properties; no guard reads them, bounds apart.

**`PaperPipeline`.** `stream` is the market-data stream, kept whole; `delivered`
and `pending` are the state of the consumer group; `runs` and `attempts` are
`pipeline_runs`; `effects` is the set of rows and publications made, each with
its candle and attempt. A worker is `pc` (the next call of `Orchestrator.run`,
or what the consumer does), its batch `pos .. end`, and the `verdict` of its
run. Each call that leaves the process is one action. `CallFails`,
`BeginFails`, `CompleteFails`, `FailFails`, `AckFails` and `ReadLost` are the
calls that fail, with or without effect at the server; `Crash` ends a process
anywhere. After an error the process ends (`main` calls `stop()` and returns)
and `Start` is its restart. A run may also end with an error while every call
works: the strategy refuses a table with fewer candles than its window needs
(`Lookback` says how many the runs must have stored themselves, beside what
the persister or a backfill may or may not have added), and a worker whose
strategy is set to another market finds no candle to take a price from
(`Strays`). `Refuse` is that error; `Fail` marks the run failed, the worker
exits, and the entry stays pending. `refused` is history: the attempts that
ended so. With enough candles strategy, risk and the kill switch are choices: a
run may approve or reject any signal, find the switch armed or not, and the
engine may refuse any order; who writes the switch when is in `PaperLedger`.
`Poll` is the blocking read that times out, all that an idle group does.

**`PaperLedger`.** What the pipeline's abstraction hides: amounts. `account` is
the row of `paper_accounts`, `trades`, `orders` and `decisions` are the tables,
`seen` is the account an executor read before it decided. Three kinds of
executor share the steps of an execution: workers and manual cycles evaluate
risk (`ReadAccount`, `Decide`, `CheckSafety`), `cmd/execution` starts from the
latest approved decision (`ExecuteOnce`); then `PlaceOrder`, `SaveTrade`,
`SaveAccount`. `orders` are the rows that execute a decision: the failed row a
worker inserts when the engine refuses moves no balance and no executor reads
it (`PaperPipeline` has it as `failedOrder`). `Approved` are the decisions that allow an order, `Explained` is
the account that the trades since the last reset lead to. Amounts are integers
chosen so that the divisions of the engine are exact; the code uses floating
point, so rounding is not modelled.

**`Backfill`.** Open times are counted in candle intervals. `head` is the candle
now forming at the exchange, `candles` says of each row whether it holds a
final candle or one that was forming when it was fetched, `jobs` is the job
table. A runner is a goroutine of the API or a `cmd/backfill` process; `job`
is its in-memory copy of the row, which `BackfillRepository.Save` writes back
whole. `Halts` are open times without a candle at the exchange. `shared` is
history: whether a runner's job had another run at the same time.

**`ChartView`.** A candle is its index, a pointer position a column of the
plot. `MouseDown`, `MouseMove`, `MouseUpOrLeave` and `Wheel` are the handlers,
`Load` and `Remount` what the shell does to the chart; each ends with the redraw its change
causes, which sets the overlay (`readout`). `zoom` and `offset` are limited by
different handlers with different bounds, as in the code, so that zoom 0 and a
negative offset are states of the model.

**`RiskForm`.** The row and its version; per console the form, the one `GET` of
its mount, the `PUT`s on their way and the disabled button. `version`, `base`
and `touched` are history. An editor that is opened again starts from its
literals and asks anew, while the save of the old one is still on its way. The
fields are the numeric inputs. The list of allowed symbols is split, trimmed,
upper-cased and emptied of blanks when it is sent (`RiskWorkspace.jsx:83`), so
that any save rewrites a stored list that is not of that form; `UntouchedStays`
is about the numbers.

**`Desk`.** A handler that outlives its render carries a record `seen` of what
it saw: the timer of a hold, the timer of a hold whose button was unmounted
(`orphans`), and the keyboard listener, which `Refresh` makes anew exactly when
one of the values its effect depends on changes. The palette's list is the
commands that contain the query, given by a constant.

**`StrategyEditor`.** `table` is `pine_strategies`, by trimmed name; `list` and
`lists` are what is shown and the requests for it; `job` is the save or
validation the editor waits for, `orphans` the saves of editors closed
meanwhile. Names that differ by blanks are different on screen and one name in
the table. Whether the parser takes a script is a constant (`Broken`). The list
the API answers is the whole table; its limit of 100 rows is left out.

**`ResearchLab`.** A job has the form of its click (its closure), then a window
it awaits, then an answer it awaits. Of the 22 parameters one of each sort is
kept: a number templates set, one they set unless it is 0, the interval, and
the shorting switch, which has no input. Of each kind of job `failed` says
whether the page shows an error of it, or that its strategy is blocked.

**`Readiness`.** Six facts of the backend; the load asks for all of them, waits
for every answer (`Promise.all`), and applies them one by one (`Apply`, with an
await in between) or not at all (`Catch`). `Write` is everybody else. A click on
Advance is a request with a number; `ServeAdvance` and `Hear` are its two
halves and may happen in any order with those of other clicks. `stale`,
`unread`, `toggled` and `disturbed` are history: they name the excuses the
properties allow. LIVE is one of the facts the panel reads; the API of this
commit answers it as false whatever the configuration (`cmd/api/main.go:144`),
so that with it LIVE READY never appears at all.

## 3. Runs

`tlc -workers 2 -config <cfg> <module>` in this directory. States are distinct
states.

| Run | Bounds | States | Shows |
|---|---|---|---|
| `pipeline_safety` | 2 workers (symmetric), 2 candles, a window of 2, 3 closed entries, batches of 2, 2 faults | 974 194 | one worker at a time runs a candle, an attempt's writes are in order, a trade is repeated and a candle left `processing` only after a fault, what is acknowledged was begun; implements `RunLog` |
| `pipeline_progress` | 2 workers, one of them a stray, 1 candle, a window of 2, 2 entries of every kind, batches of 2, 2 faults, fair | 39 528 | every closed candle completes when nothing fails and no entry up to it ended its worker; the group is drained whatever fails |
| `ledger_balances` | a worker, a manual cycle, a `cmd/execution`; 2 prices, 2 executions, 1 reset, 1 fault | 1 632 876 | balances never negative; they part from the trades only after an overwritten save or an execution cut off |
| `ledger_limits` | a worker, a manual cycle, 3 executions, half fills, 2 days, 1 trade a day, 1 fault | 334 405 | how far the daily cap can be exceeded, what an armed switch lets through, that approved orders can be filled, that every order executes an approval of its own |
| `backfill_safety` | 2 runners, 1 job, a clock to 3, a gap, pages of 2, 2 attempts, 1 fault, fair | 434 443 | progress and count stay true to the table, completion is of the whole range, only shared jobs go back, runs return |
| `chart_window` | zoom 4 to 13 from 8, 3 columns, loads of 0, 1, 3, 6 and 17 candles | 218 758 | when the chart is blank, which candle the readout is of |
| `risk_form` | 2 consoles (symmetric), 2 fields, 1 typed value, 2 edits, 2 saves, 1 reopening | 1 908 630 | what a save changes besides what was typed; what a form shows that nobody typed |
| `desk_actions` | 4 queries, 2 orders, 1 unmounted button | 1 587 321 | which stale values a handler acts on; that no order is filled without a hold or a command |
| `desk_armed` | the same | | a counterexample, see section 6 |
| `editor_saves` | 3 spellings of names, 2 scripts, 2 templates, 2 writes, 4 deeds, fair | 220 891 | reference texts stay out of the table, a success is of the script on screen, the list catches up, the buttons come back |
| `research_runs` | 3 templates, 1 native strategy, 2 intervals, periods and cooldowns, 5 deeds, fair | 64 615 | results belong to their click, blocked templates are never simulated, no error next to a result of its kind, the buttons come back |
| `console` | 4 lifecycle states, 3 starts, 3 clicks, 1 write of somebody else | 3 983 588 | LIVE READY is not shown without grounds, clicks on Advance skip no state and settle |

Why the bounds are enough to be interesting:

- *Pipeline.* Two workers are needed for every race here and no property
  compares three. Three entries over two candles give duplicates in one batch,
  duplicates in two workers' batches, and a batch left behind by a failure.
  Batches of two make the difference between delivered, held and acknowledged
  visible. Two faults give a failure during the handling of a failure (a failed
  `Fail` after a failed call), and a lost answer followed by a crash. With a
  window of 2 the first candle's run may be refused and the second's may not,
  and a duplicate begins the refused run again.
- *Ledger.* Two executions on an account that can pay for two orders are enough
  for a lost update; the reset may fall anywhere between their steps. The
  limits run has one executor more than the limit, a midnight, and a failing
  read of the statistics. It has no `cmd/execution`, which asks no rule and
  repeats approvals: what that does to the balances is in `ledger_balances`.
- *Backfill.* A clock of 3 with pages of 2 gives a full page, a short page, an
  empty page (the gap at 1), a page that ends at the end of the range, and a
  range that reaches the forming candle. Two runners may resume one job at any
  point; failing to mark a job failed takes no fault of its own.
- *Chart.* No candle, one, fewer than the least zoom, fewer than the first zoom,
  and more than the widest; the wheel moves the zoom by one step of its own
  rounding, and the plot has a column to the left, in the middle and at the
  border.
- *Risk editor.* Two saves and two consoles give every order of two reads and
  two writes; one reopening gives an editor whose save is still on its way; two
  edits reach both inputs or the same one twice.
- *Desk.* Two workspaces, three buttons, a query that finds several commands,
  one, and none; one unmounted button whose timer still runs; two orders, the
  second under a block that the first did not meet.
- *Strategy editor.* Two spellings of one stored name and a blank one, a script
  that parses and one that does not, a template with and one without code; four
  deeds are enough for select, save, select again and reopen.
- *Research.* A template that shorts, one that leaves the cooldown alone and one
  that is blocked; five deeds are enough for a template, a click, a change, the
  other click and another template.
- *Console.* Four lifecycle states and three clicks give three requests on their
  way at once; one write of somebody else falls anywhere.

`CHECK_DEADLOCK FALSE` stands in the configurations of the strategy editor, the
research laboratory and the console only: there the operator's deeds are
bounded, and a console whose operator does nothing more and has nothing under
way stays as it is.

Every property of a passing run has a mutant in `PROJECT.json`: one definition
of the model replaced by a faulty variant, under which TLC finds the property
violated.

## 4. Fairness

- `PaperPipeline!FairSpec`: weak fairness of each worker's own steps, restarts
  included. A worker is one sequential loop that blocks only in calls, and
  `docker-compose.yml` restarts it (`restart: unless-stopped`). Publishing,
  the operator and faults are not fair.
- `Backfill!FairSpec`: weak fairness of the steps of a run, failing ones
  included: calls return. The HTTP client has no deadline, so this assumes an
  exchange that answers or a connection that breaks. Nobody has to resume a
  job.
- `StrategyEditor!FairSpec` and `ResearchLab!FairSpec`: a request of the
  browser ends, with an answer or with an error, and the handler that awaits it
  then runs on. Operators are not fair: nobody has to click.

The remaining specifications state safety only.

## 5. Proofs

`tlapm <module>` in this directory. No fact is assumed beyond the named
assumptions on constants, which TLC also evaluates on every instance.
`PROJECT.json` lists each theorem; the arguments are:

**`PaperPipeline_proofs`**, for any workers, candles, stream capacity, batch
size and fault budget. The inductive invariant (`CoreInvariant`) is `TypeOK /\
BusyWorkersHold /\ HeldOnce /\ ExclusiveRun /\ AckKnown /\ AckedWasBegun`. None
of the last is inductive alone: that two workers are not in one run needs that a
worker in a run holds a closed entry (`BusyWorkersHold`); that an acknowledged
entry was begun needs that a worker about to acknowledge a closed entry knows a
row of its candle (`AckKnown`), which a crash of another worker must not undo;
that entries are held once needs that batches are ranges below the group's
position (`TypeOK`). From it follow `TypeCorrect`, `EntriesHeldOnce`,
`RunsExclude`, `AckedOnlyBegun`, and, step by step, `CompletionIsFinal` (a step
that adds an effect or moves a row is of a worker in a run, whose row is
`processing`) and the refinement `PipelineKeepsRunLog`: the initial state is one
of `RunLog`, and each action is one of its actions or a stutter.
`StoryInvariant` adds what an attempt has made when its next call is a given
stage (`AtStage`, an exact set for each stage and verdict): a call adds its own
row to the attempt of its worker and to no other, since nobody else is in the
run, and a new attempt begins with nothing, since no row has a number above
`attempts`. `EffectsOrdered` and `CompletedAreWhole` read it off. Its other parts say what
attempts cost. `RefusedInv`: an attempt that was refused has traded nothing, and
its worker does nothing more than fail the run. `CostInv`: the attempts at a
candle that were not refused are at most one more than there were faults, since
a run is begun again only after it failed, and one that failed without being
refused took a fault. An attempt trades once, so `RepeatsCostFaults` counts
trades by including them among the attempts that were not refused.
`StuckRunsCostFaults` goes by the run log: a step of it changes the row and the
holders of one candle at most, so that a step adds at most one stuck candle; and
of the steps that leave a run only those that cost a fault leave it
`processing`. `WorkersComeToRest` is the part of
`WorkersDrainTheStream` that is no liveness: `Work(w)` weighs the entries nobody
was handed yet, the faults left, the rest of the worker's batch and the steps to
its next entry, so that reading is dearer than handling and a fault dearer than
the restart it causes. Every step of a worker, failures and restarts included,
makes its `Work` less, and nobody else makes it more unless an entry is added;
what fairness must add is only that a worker that can step does.

**`Backfill_proofs`**, for any runners, jobs, gaps, page size, attempts and
bounds. `CoverInvariant` is `TypeOK /\ NothingSkipped /\ RowsReached /\
CopiesCovered /\ PagesWhole /\ PagesStored /\ TriesLeft`. Rows are covered
because what a runner writes is: its copy is covered, the page it fetched has no
hole between the copy's progress and the page's newest candle (`PagesWhole`,
from a lemma about the oldest elements of a finite set), and the page is in the
table before its progress is saved. A backfill deletes no candle, so a stale
copy stays covered however late it is written. `RowsReached` (a row's progress
is where the job starts, or at most one past the exchange's clock) keeps a
candle that begins to form later from falling behind the progress. Hence
`BackfillTypes` and `ResumingIsSafe`. `ProgressInvariant` adds three parts.
`CountInv`: every row and every copy counts the candles before its progress; a
page is disjoint from them and together they are what is before the new
progress, so the cardinalities add up (`CountExact`). `WholeInv`: a page is what
the exchange answered at the clock remembered; an answer shorter than was asked
for is all there is, so each of the loop's three exits leaves a whole range
(`CompletionIsWhole`). `CopiesFresh`: a copy that nobody shared is not behind
its row, so that only shared jobs go back (`RegressionIsShared`). `RunsAreFinite`
is the part of `RunsReturn` that is no liveness: `Work(r)` counts the open times
between a run's copy and the end of its range, the calls its page still takes,
and the attempts left; a page moves the copy on (`PageShortens`), a failing call
uses up an attempt (`FewerCalls`), and no step of another run touches either
(`OthersWork`). The number depends on the range and on `maxAttempts` alone, not
on how often the job's row is written by others.

**`PaperLedger_proofs`**, for any executors, settings of engine and rules,
prices and bounds. `LedgerAssumption` asks for a fee of 0 to 100 percent, an
order amount, opening and reset balances that are not negative, and positive
prices; of the fill ratio and the limits of the rules nothing but that they are
numbers.

- `LedgerInvariant`: types, a solvent account, and of every executor that it
  holds what its stage needs, saw no debt, and can pay for what was approved
  (`CanPay`), in the account it read, however old that is. `NeverInDebt` follows
  although any executor may overwrite any other's balances: each saves what it
  computed from *some* solvent account that it could pay from
  (`FundedStaysSolvent`). `ApprovedIsFunded` compares the rules' check of an
  amount with the engine's, which are of different amounts, so that
  `ApprovedIsFilled` holds for all settings. `Drains`, the last part, counts what
  an executor may still place under the switch (`SwitchDrains`).
- `CapInvariant`: an executor that was admitted and has not stored its trade
  counts as if it had; then each admission adds one on a day the count it read
  was under the limit, and a stored trade changes nothing. `DailyCap` needs that
  there is no `cmd/execution` (`CliRuns = {}`), since that asks no risk rule.
- `AgreementInvariant`: a read that no save has overtaken is still the stored
  account (`ReadsInv`), a result is what its trade moves (`ResultsInv`), and the
  account is explained by the trades, or one executor is between its trade and
  its save and will settle, or two are, or one whose read is overtaken: the
  last two ways can only end in `parted` (`SettlingInv`). `BalancesExplained`
  assumes `ExactDivision`: remainders come from the model's integers, not from
  the code. A replay of one trade more is the replay, moved by it
  (`ReplayOfOneMore`), from the uniqueness and existence of replays
  (`ReplaysAgree`, `ReplayExists`).
- `OrdersAreApproved`: who is cleared to place an order holds an approval
  (`HoldsApproval`), and without `cmd/execution` holds it alone (`HoldsAlone`):
  decisions are only added, and each executor takes the one it has just saved.

**`Trading_proofs`, the chart**, for any zoom limits, plot width and loads.
`ChartInvariant` is `TypeOK /\ ScrollInv /\ ReadoutOnScreen`: a scroll offset, and
the one a drag began from, leave the newest candle they can reach to the left of
the border (`ScrollInv`), and the readout is one of the loaded candles. A blank
chart follows from the window this leaves (`BlankHasACause`); `ReadoutIsShown`
is the other property of the run.

**`RiskForm_proofs`**, for any consoles, fields and values. `FormInv` carries the
version each answer, form and save saw: as long as it is the row's, they agree
with the row (`GetsKnown`, `PutsKnown`, `FreshFormsAgree`). That a save takes the
open form along to the new version needs that nothing typed before it was
forgotten, and that in turn that a form is filled once (`FilledOnce`).
`FreshForms` is its last part; `SavesKeepTheRest` is the action property about
the inputs nobody touched.

**`Trading_proofs`, the desk**, for any commands, queries and bounds. `DeskInv` says that
whatever changes the block or the price makes the keyboard listener anew
(`ListenerIsFresh`), that its list is old only while the highlight is on the
first entry (`StaleOnlyAtTheTop`), and that the button of a hold is pressed until
the hold is excused (`HoldsAreHeld`). Hence `StaleAtTheTop`,
`ArmedFillsOldHolds` and `OrdersAreMeant`.

**`StrategyEditor_proofs`**, for any names, scripts and templates. In
`EditorInv`, that reference texts never come back from the table needs the lists
on their way (`RowsAreClean`), that a success is one needs the job that will be
reported (`OkParses`), and that the list keeps up needs the request that will
bring it up (`Covered`), whose answer is read after it was asked for
(`AnswersAreFresh`). Hence `ReferencesStayOut`, `SuccessesAreTrue` and
`ListIsUpToDate`.

**`ResearchLab_proofs`**, for any templates and parameter values. In `LabInv` a
job keeps its button disabled (`JobsAreBusy`), so a click never finds a job of
its kind; a request carries the window of its own form (`SentWithWindow`); and a
template is on screen only once the templates are loaded (`ChosenIsLoaded`), so
that the check for blocked ones sees it. Hence `ResultsBelong`, `BlockedStayOut`,
`OutcomesExclude` and `ShortingIsChosen`.

**`Readiness_proofs`**, for any number of lifecycle states, clicks and writes.
`ConsoleInv` has three parts. `PanelInv`: a fact has one answer, which is what
the backend holds until somebody writes it; each gate applied so far was refused,
shows its answer, or was toggled; and LIVE is the last to be applied, so that no
moment between two answers shows a panel ready without grounds. `Numbered`: no
two clicks are the same. `Chain`: the clicks under way ask for the state last
heard of or the one after it, in the order they were made, and the backend is at
one of the two. Hence `ReadyIsGrounded`, `LifecycleSettled` and `AdvancesByOne`.

Three theorems have hypotheses beyond the named assumptions. `CliRuns = {}`
(`DailyCap`) and `ExactDivision` (`AgreementInvariant`, `BalancesExplained`) hold
in the instances `ledger_limits` and `ledger_balances` that check the same
properties.

Only model-checked are the liveness properties `EveryCandleCompletes`,
`WorkersDrainTheStream`, `RunsReturn`, `CompilingEnds` and `SimulationsEnd`, since
TLAPS proves nothing about fairness and `ENABLED`. Every invariant and every
action property of the runs, and the refinement, is a theorem. That the orders
`desk_armed` finds exist is of course shown by its counterexample alone.

The induction theorems of the library take an operator as a parameter, which
none of the installed provers can instantiate. The proofs that count steps of a
sequence use an induction over a set of numbers instead (`NumbersBySteps`, from
the cardinality of finite sets): the set is the lengths for which a replay
exists and is unique. No module declares a RECURSIVE operator.

## 6. Where the code and its documentation part

The run `desk_armed` has a counterexample, which is the behaviour described:

- The toast of the execution block says "Execution Block ARMED. All orders
  rejected." (`dashboard-src/src/App.jsx:76`). The timer of a held button runs
  the action of the render in which the hold began (`TradingWorkspace.jsx:105`):
  a block that is armed during the two seconds, by the palette or by the answer
  of the load, is not seen, and the order is filled. `ArmedNeedsOlderHold` in
  `desk_actions` says that this is the only way.

The backend modules contain these without a run of their own; each was seen as
a counterexample to the quoted sentence while the module was written:

| Module | Documentation | The code |
|---|---|---|
| `PaperPipeline` | `docs/runbook.md` 144, 231: failed runs are marked failed and retried | the entry stays in the pending list, which nothing reads again; only a duplicate of the candle would retry it |
| `PaperPipeline` | ARCHITECTURE 28: operations are idempotent | a run that fails after its trade and is begun again by a duplicate trades again (`RepeatNeedsFault`: not without a fault) |
| `PaperLedger` | `docs/runbook.md` 290: an armed switch blocks paper orders | `cmd/execution` does not read it |
| `PaperLedger` | `docs/runbook.md` 187: position and exposure caps | the risk context never carries the position; each order is compared alone |
| `Backfill` | `docs/runbook.md` 230: failed writes mark the job failed | a failed progress write returns without `failJob` |
| `Backfill` | README 796: the backtest engine rejects unclosed candles | REST klines are all stored as closed, the forming one included, so it cannot tell |

The models also contain: a run that stays `processing` for ever after a failed
`Fail` or a lost answer of `Begin` (`StuckRunsNeedFaults`: not without a fault);
a run that fails for want of candles while every call works, ends its worker and
leaves its entry pending; `cmd/execution` executing one decision
again; a final candle overwritten by a forming one when two runs of a backfill
overlap; a chart that stays blank after the wheel was turned before candles
came (zoom 0) or after a drag over fewer candles than the zoom (negative
offset); a shorting switch that a native strategy inherits from the template
selected before it; a risk form saved before its answer came, which replaces
the row with the form's literals; a lifecycle that two consoles take back and
forth, since the state sent is stored whatever the row holds; and an Enter that
runs the first command of an older list (`StaleOnlyAtTheTop`: of no other
entry).

## 7. Not modelled

- Floating-point arithmetic: prices, averages, rounding of balances; and with
  it the mathematics of strategies, indicators, backtests and the optimizer.
- Slippage: the engine has the parameter, no caller sets it.
- Other writers of `candles` in `Backfill`: the persister and the aggregation,
  whose delete and rewrite of a range are two statements.
- The collector's reconnects: the duplicates they cause are inputs of
  `PaperPipeline`.
- Activation: settings, record and lifecycle are three writes; `Readiness` has
  the lifecycle row alone, and one row of it.
- Reconciliation's comparison: its outcome is a choice.
- The worker's copy of its settings, read once at its start: constants of
  `PaperLedger`.
- The exchange clients with retries and the disabled one: no command constructs
  them.
- Timestamps that nothing reads to decide (`started_at`, `completed_at`,
  `updated_at`), wording of reasons and errors, logs, metrics, audit rows,
  configuration parsing, migrations, the backtest agent.
- Redis trimming and loss: streams are never trimmed by the code.
- Cancellation in the middle of a call is a call that fails or a crash.
- Of the dashboard: drawing, indicators and prices; toasts and the session's
  audit lines; lists that are only displayed, the ones polled every four seconds
  included; the settings dialog, whose five inputs nothing reads to decide; the
  reset and cycle buttons, whose requests `PaperLedger` has as `ResetAccount`
  and manual cycles; the double effects of React's development mode; a second
  load, since a console loads once.
- Which strategy the lifecycle row belongs to: the panel reads the row of the
  strategy it was loaded for.

## 8. What could follow

- `CandleFeed` (collector, stream, persister and the backfill's writes to the
  same rows) and `CandleAggregation` (buckets against a reference definition;
  the delete and rewrite of a range with failures and readers).
- `Activation` with its three writes, in front of `Readiness`' lifecycle and
  the settings the executors read.
- `BacktestEngine` on integer prices: accounting identity and no look-ahead.
- An abstract ledger (one execution is one step) that `PaperLedger` implements
  as long as executions do not overlap, with `parted` as the way out of it.
- A variant like those of `RunsAreFinite` and `WorkersComeToRest` for the
  requests of the strategy editor and the research laboratory.
