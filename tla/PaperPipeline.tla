---------------------------- MODULE PaperPipeline ----------------------------
(***************************************************************************)
(* The paper-trading pipeline of cmd/worker: a Redis stream of candle      *)
(* events, the consumer group through which worker processes read it, the  *)
(* pipeline_runs table that makes a candle's run idempotent, and the       *)
(* sequence of PostgreSQL writes and Redis publications of one run.        *)
(*                                                                         *)
(* Every call that leaves the process is a step of its own, and can fail   *)
(* with or without having taken effect at the server. Reads that feed no   *)
(* decision of this module (candle lookback, price, balances, daily        *)
(* statistics) are folded into the write that follows them: their failure  *)
(* is that write failing without effect. Two of them also end a run while  *)
(* everything works, because the table holds too little (Refuse).          *)
(*                                                                         *)
(* refused is no part of the program: it records the attempts so ended.    *)
(***************************************************************************)
EXTENDS Naturals, Sequences, FiniteSets

CONSTANTS
  Workers,    \* worker processes sharing the consumer group
  Candles,    \* candles, one per idempotency key
  Kinds,      \* kinds of stream entry the producers may add
  Lookback,   \* candles the strategy needs besides those stored beforehand
  Strays,     \* workers whose strategy is set to another market
  BatchSize,  \* ConsumerConfig.Count, the most entries one read returns
  MaxEvents,  \* bound on the entries added to the stream
  MaxFaults   \* bound on failed calls and process crashes

EventKinds == {"closed", "open", "foreign", "malformed"}

ASSUME PipelineAssumption ==
  /\ Kinds \subseteq EventKinds
  /\ Lookback \in Nat
  /\ BatchSize \in Nat \ {0}
  /\ MaxEvents \in Nat
  /\ MaxFaults \in Nat

VARIABLES
  stream,     \* the entries of the market-data stream, oldest first
  delivered,  \* the group's last-delivered entry
  pending,    \* the group's pending entries: delivered, not acknowledged
  runs,       \* pipeline_runs.status of each candle's key
  attempts,   \* how often each candle's run has been begun
  refused,    \* memory: attempts ended for want of candles, by candle
  effects,    \* rows and publications made, by candle and attempt
  pc,         \* what each worker does next
  pos,        \* the entry a worker handles: first of its remaining batch
  end,        \* the last entry of a worker's batch
  verdict,    \* what the current run decided
  faults      \* failed calls and crashes so far

groupVars == <<delivered, pending>>
runVars == <<runs, attempts, refused>>
vars == <<stream, delivered, pending, runs, attempts, refused, effects,
          pc, pos, end, verdict, faults>>

-----------------------------------------------------------------------------

Event == [kind : EventKinds, candle : Candles]

RunStatus == {"none", "processing", "completed", "failed"}

\* What a run leaves behind, in the order a run that fills its order does it.
Effects == {"candle", "signal", "signalEvent", "decision", "decisionEvent",
            "order", "failedOrder", "trade", "orderEvents", "account",
            "executionEvent"}

\* A stage named after an effect is the call that makes it.
RunStages == Effects \cup {"safety", "complete", "fail"}

Stages == RunStages \cup {"stopped", "read", "ack"}

Verdicts == {"none", "approved", "rejected", "unfilled"}

\* The candle of the entry worker w is handling.
Current(w) == stream[pos[w]].candle

\* The row or publication e of the attempt worker w is running.
Made(w, e) == <<e, Current(w), attempts[Current(w)]>>

HasBatch(w) == pos[w] <= end[w]

InRun(w) == pc[w] \in RunStages

Goto(w, stage) == pc' = [pc EXCEPT ![w] = stage]

\* The handler returned an error: Consumer.Run returns it, main calls stop(),
\* and the process ends, forgetting the rest of its batch.
Exit(w) ==
  /\ pc' = [pc EXCEPT ![w] = "stopped"]
  /\ pos' = [pos EXCEPT ![w] = 1]
  /\ end' = [end EXCEPT ![w] = 0]
  /\ verdict' = [verdict EXCEPT ![w] = "none"]

Init ==
  /\ stream = <<>>
  /\ delivered = 0
  /\ pending = {}
  /\ runs = [c \in Candles |-> "none"]
  /\ attempts = [c \in Candles |-> 0]
  /\ refused = {}
  /\ effects = {}
  /\ pc = [w \in Workers |-> "stopped"]
  /\ pos = [w \in Workers |-> 1]
  /\ end = [w \in Workers |-> 0]
  /\ verdict = [w \in Workers |-> "none"]
  /\ faults = 0

-----------------------------------------------------------------------------
(* Environment: the collectors that fill the stream.                       *)

\* A collector appends an entry. A candle may be appended again: a publish
\* whose answer was lost is retried, and each worker process has a collector.
Publish ==
  /\ Len(stream) < MaxEvents
  /\ \E k \in Kinds, c \in Candles :
       stream' = Append(stream, [kind |-> k, candle |-> c])
  /\ UNCHANGED <<groupVars, runVars, effects, pc, pos, end, verdict, faults>>

-----------------------------------------------------------------------------
(* Consumer.Run.                                                           *)

\* The process starts (or is restarted) and creates the group at "0"; a group
\* that exists (BUSYGROUP) keeps its position and its pending entries.
Start(w) ==
  /\ pc[w] = "stopped"
  /\ Goto(w, "read")
  /\ UNCHANGED <<stream, groupVars, runVars, effects, pos, end, verdict,
                 faults>>

\* The entries one XREADGROUP ">" call returns: new ones only, never those
\* already pending.
LastOfBatch ==
  IF Len(stream) - delivered <= BatchSize THEN Len(stream)
                                          ELSE delivered + BatchSize

\* Faulty variant: a read waits until it can return a full batch.
DeliverFullBatches ==
  /\ delivered + BatchSize <= Len(stream)
  /\ delivered' = LastOfBatch
  /\ pending' = pending \cup (delivered + 1) .. LastOfBatch

Deliver ==
  /\ delivered < Len(stream)
  /\ delivered' = LastOfBatch
  /\ pending' = pending \cup (delivered + 1) .. LastOfBatch

Read(w) ==
  /\ pc[w] = "read" /\ ~HasBatch(w)
  /\ Deliver
  /\ pos' = [pos EXCEPT ![w] = delivered + 1]
  /\ end' = [end EXCEPT ![w] = LastOfBatch]
  /\ UNCHANGED <<stream, runVars, effects, pc, verdict, faults>>

\* The group has nothing new: the blocking read times out and is repeated.
Poll(w) ==
  /\ pc[w] = "read" /\ ~HasBatch(w)
  /\ delivered = Len(stream)
  /\ UNCHANGED vars

\* Faulty variant: open candles fall through the filters.
SkipForeignOnly(w) ==
  /\ pc[w] = "read" /\ HasBatch(w)
  /\ stream[pos[w]].kind = "foreign"
  /\ Goto(w, "ack")
  /\ UNCHANGED <<stream, groupVars, runVars, effects, pos, end, verdict,
                 faults>>

\* Entries the handler has nothing to do for: another type, an open candle.
Skip(w) ==
  /\ pc[w] = "read" /\ HasBatch(w)
  /\ stream[pos[w]].kind \in {"foreign", "open"}
  /\ Goto(w, "ack")
  /\ UNCHANGED <<stream, groupVars, runVars, effects, pos, end, verdict,
                 faults>>

\* An envelope or a candle that does not decode ends the consumer.
Reject(w) ==
  /\ pc[w] = "read" /\ HasBatch(w)
  /\ stream[pos[w]].kind = "malformed"
  /\ Exit(w)
  /\ UNCHANGED <<stream, groupVars, runVars, effects, faults>>

Ack(w) ==
  /\ pc[w] = "ack"
  /\ pending' = pending \ {pos[w]}
  /\ pos' = [pos EXCEPT ![w] = @ + 1]
  /\ Goto(w, "read")
  /\ UNCHANGED <<stream, delivered, runVars, effects, end, verdict, faults>>

-----------------------------------------------------------------------------
(* The idempotency record.                                                 *)

\* Faulty variants: the conflict clause restarts a run that is processing, or
\* one that is completed.
StartableUnlessCompleted(c) == runs[c] # "completed"

StartableUnlessProcessing(c) == runs[c] # "processing"

\* INSERT ... ON CONFLICT DO UPDATE ... WHERE status = 'failed'.
Startable(c) == runs[c] \in {"none", "failed"}

BeginRun(c) ==
  /\ Startable(c)
  /\ runs' = [runs EXCEPT ![c] = "processing"]
  /\ attempts' = [attempts EXCEPT ![c] = @ + 1]
  /\ UNCHANGED refused

CompleteRun(c) == runs' = [runs EXCEPT ![c] = "completed"]

FailRun(c) == runs' = [runs EXCEPT ![c] = "failed"]

-----------------------------------------------------------------------------
(* Orchestrator.Handle and Orchestrator.run.                               *)

HandlesClosed(w) ==
  /\ pc[w] = "read" /\ HasBatch(w)
  /\ stream[pos[w]].kind = "closed"

Begin(w) ==
  /\ HandlesClosed(w)
  /\ BeginRun(Current(w))
  /\ Goto(w, "candle")
  /\ UNCHANGED <<stream, groupVars, effects, pos, end, verdict, faults>>

\* Begin found a run that is processing or completed: the entry is
\* acknowledged without a run.
AlreadyBegun(w) ==
  /\ HandlesClosed(w)
  /\ ~Startable(Current(w))
  /\ Goto(w, "ack")
  /\ UNCHANGED <<stream, groupVars, runVars, effects, pos, end, verdict,
                 faults>>

\* A call of the run that makes effect e and goes on to the stage next.
Call(w, e, next) ==
  /\ pc[w] = e
  /\ effects' = effects \cup {Made(w, e)}
  /\ Goto(w, next)
  /\ UNCHANGED <<stream, groupVars, runVars, pos, end, faults>>

PersistCandle(w) == Call(w, "candle", "signal") /\ UNCHANGED verdict

\* The candles that runs have stored.
Stored == {r[2] : r \in {q \in effects : q[1] = "candle"}}

\* The run ends with an error no call made: too few candles for the strategy's
\* window, which others (the persister, a backfill) may have filled or not, or
\* no candle of the market the strategy is set to, for a price.
Refuse(w) ==
  /\ \/ pc[w] = "signal" /\ Cardinality(Stored) < Lookback
     \/ pc[w] = "decision" /\ w \in Strays
  /\ refused' = refused \cup {<<Current(w), attempts[Current(w)]>>}
  /\ Goto(w, "fail")
  /\ UNCHANGED <<stream, groupVars, runs, attempts, effects, pos, end, verdict,
                 faults>>

\* The strategy's verdict on the candles, whatever it is, is saved.
SaveSignal(w) == Call(w, "signal", "signalEvent") /\ UNCHANGED verdict

PublishSignal(w) == Call(w, "signalEvent", "decision") /\ UNCHANGED verdict

SaveDecision(w) ==
  /\ Call(w, "decision", "decisionEvent")
  /\ \E v \in {"approved", "rejected"} : verdict' = [verdict EXCEPT ![w] = v]

PublishDecision(w) ==
  /\ Call(w, "decisionEvent",
          IF verdict[w] = "approved" THEN "safety" ELSE "complete")
  /\ UNCHANGED verdict

\* The kill switch is read once, before the engine runs: an armed one ends the
\* run. The engine fills the order, or rejects it and the run records a failed
\* order. Who arms the switch when is PaperLedger's.
CheckSafety(w) ==
  /\ pc[w] = "safety"
  /\ \/ Goto(w, "complete") /\ UNCHANGED verdict
     \/ Goto(w, "order") /\ UNCHANGED verdict
     \/ Goto(w, "failedOrder") /\ verdict' = [verdict EXCEPT ![w] = "unfilled"]
  /\ UNCHANGED <<stream, groupVars, runVars, effects, pos, end, faults>>

-----------------------------------------------------------------------------
(* execution.Repository.Save: three kinds of insert, no transaction.       *)

SaveOrder(w) == Call(w, "order", "trade") /\ UNCHANGED verdict

SaveFailedOrder(w) == Call(w, "failedOrder", "orderEvents") /\ UNCHANGED verdict

\* Faulty variant: the account is saved before the order's events.
SaveTradeSkippingEvents(w) == Call(w, "trade", "account") /\ UNCHANGED verdict

SaveTrade(w) == Call(w, "trade", "orderEvents") /\ UNCHANGED verdict

SaveOrderEvents(w) ==
  /\ Call(w, "orderEvents",
          IF verdict[w] = "approved" THEN "account" ELSE "executionEvent")
  /\ UNCHANGED verdict

\* Faulty variant: the fill is not announced.
SaveAccountSilently(w) == Call(w, "account", "complete") /\ UNCHANGED verdict

SaveAccount(w) == Call(w, "account", "executionEvent") /\ UNCHANGED verdict

PublishExecution(w) ==
  Call(w, "executionEvent", "complete") /\ UNCHANGED verdict

Complete(w) ==
  /\ pc[w] = "complete"
  /\ CompleteRun(Current(w))
  /\ Goto(w, "ack")
  /\ verdict' = [verdict EXCEPT ![w] = "none"]
  /\ UNCHANGED <<stream, groupVars, attempts, refused, effects, pos, end,
                 faults>>

\* Faulty variant: the error is returned before the run is marked failed.
FailUnmarked(w) ==
  /\ pc[w] = "fail"
  /\ Exit(w)
  /\ UNCHANGED <<stream, groupVars, runVars, effects, faults>>

\* run() returned an error: mark the run failed, return the error.
Fail(w) ==
  /\ pc[w] = "fail"
  /\ FailRun(Current(w))
  /\ Exit(w)
  /\ UNCHANGED <<stream, groupVars, attempts, refused, effects, faults>>

-----------------------------------------------------------------------------
(* Faults: a call fails, or the process dies. Each costs one fault.        *)

Fault ==
  /\ faults < MaxFaults
  /\ faults' = faults + 1

\* XREADGROUP moved the group on but the answer was lost: the consumer waits
\* and reads again, and never sees those entries.
ReadLost(w) ==
  /\ Fault
  /\ pc[w] = "read" /\ ~HasBatch(w)
  /\ Deliver
  /\ UNCHANGED <<stream, runVars, effects, pc, pos, end, verdict>>

\* Faulty variant: an error of Begin is taken for "not started".
BeginErrorSwallowed(w) ==
  /\ Fault
  /\ HandlesClosed(w)
  /\ Goto(w, "ack")
  /\ UNCHANGED <<stream, groupVars, runVars, effects, pos, end, verdict>>

BeginFails(w) ==
  /\ Fault
  /\ HandlesClosed(w)
  /\ BeginRun(Current(w)) \/ UNCHANGED runVars
  /\ Exit(w)
  /\ UNCHANGED <<stream, groupVars, effects>>

\* A call of the run fails, after or without its effect.
CallFails(w) ==
  /\ Fault
  /\ pc[w] \in Effects \cup {"safety"}
  /\ \/ UNCHANGED effects
     \/ pc[w] \in Effects /\ effects' = effects \cup {Made(w, pc[w])}
  /\ Goto(w, "fail")
  /\ UNCHANGED <<stream, groupVars, runVars, pos, end, verdict>>

CompleteFails(w) ==
  /\ Fault
  /\ pc[w] = "complete"
  /\ CompleteRun(Current(w)) \/ UNCHANGED runs
  /\ Exit(w)
  /\ UNCHANGED <<stream, groupVars, attempts, refused, effects>>

\* The error of Idempotency.Fail is discarded: the run stays 'processing'.
FailFails(w) ==
  /\ Fault
  /\ pc[w] = "fail"
  /\ Exit(w)
  /\ UNCHANGED <<stream, groupVars, runVars, effects>>

AckFails(w) ==
  /\ Fault
  /\ pc[w] = "ack"
  /\ pending' = pending \ {pos[w]} \/ UNCHANGED pending
  /\ Exit(w)
  /\ UNCHANGED <<stream, delivered, runVars, effects>>

\* The process dies, or is told to stop: main returns at once, and calls made
\* with the cancelled context, Idempotency.Fail among them, do nothing.
Crash(w) ==
  /\ Fault
  /\ pc[w] # "stopped"
  /\ Exit(w)
  /\ UNCHANGED <<stream, groupVars, runVars, effects>>

-----------------------------------------------------------------------------

RunStep(w) ==
  \/ Begin(w) \/ AlreadyBegun(w)
  \/ PersistCandle(w) \/ Refuse(w) \/ SaveSignal(w) \/ PublishSignal(w)
  \/ SaveDecision(w) \/ PublishDecision(w) \/ CheckSafety(w)
  \/ SaveOrder(w) \/ SaveFailedOrder(w) \/ SaveTrade(w) \/ SaveOrderEvents(w)
  \/ SaveAccount(w) \/ PublishExecution(w) \/ Complete(w) \/ Fail(w)

WorkerStep(w) ==
  \/ Start(w) \/ Read(w) \/ Skip(w) \/ Reject(w) \/ Ack(w)
  \/ RunStep(w)

FaultStep(w) ==
  \/ ReadLost(w) \/ BeginFails(w) \/ CallFails(w) \/ CompleteFails(w)
  \/ FailFails(w) \/ AckFails(w) \/ Crash(w)

Next ==
  \/ Publish
  \/ \E w \in Workers : WorkerStep(w) \/ Poll(w) \/ FaultStep(w)

Spec == Init /\ [][Next]_vars

\* A process that can take a step takes it, and a stopped one is restarted
\* (docker-compose.yml: restart: unless-stopped). Nothing makes a collector
\* publish, or a call fail.
FairSpec == Spec /\ \A w \in Workers : WF_vars(WorkerStep(w))

-----------------------------------------------------------------------------
(* Properties.                                                             *)

Row(e, c, n) == <<e, c, n>> \in effects

Holds(w, i) == i \in pos[w] .. end[w]

\* Every variable stays in its type; a worker's batch and the group's position
\* stay within the stream.
TypeOK ==
  /\ stream \in Seq(Event)
  /\ delivered \in 0 .. Len(stream)
  /\ pending \subseteq 1 .. delivered
  /\ runs \in [Candles -> RunStatus]
  /\ attempts \in [Candles -> Nat]
  /\ refused \subseteq Candles \X Nat
  /\ effects \subseteq Effects \X Candles \X Nat
  /\ pc \in [Workers -> Stages]
  /\ pos \in [Workers -> Nat \ {0}]
  /\ end \in [Workers -> 0 .. delivered]
  /\ verdict \in [Workers -> Verdicts]
  /\ faults \in 0 .. MaxFaults

\* Consumer group: an entry is in the hands of at most one worker, and stays
\* pending for as long as that worker has not acknowledged it.
HeldOnce ==
  \A w \in Workers : \A i \in pos[w] .. end[w] :
    /\ i \in pending
    /\ \A v \in Workers : Holds(v, i) => v = w

\* Consumer.Run: a worker that handles or acknowledges an entry holds it, runs
\* only closed candles, and a stopped process holds nothing.
BusyWorkersHold ==
  \A w \in Workers :
    /\ pc[w] \notin {"stopped", "read"} => HasBatch(w)
    /\ pc[w] = "stopped" => ~HasBatch(w)
    /\ InRun(w) => stream[pos[w]].kind = "closed"

\* Idempotency.Begin: however often a candle is in the stream, at most one
\* worker runs it at a time, and its record says 'processing' meanwhile.
ExclusiveRun ==
  \A w \in Workers : InRun(w) =>
    /\ runs[Current(w)] = "processing"
    /\ \A v \in Workers \ {w} : InRun(v) => Current(v) # Current(w)

\* Orchestrator.run, in every attempt and wherever it was cut off: no trade
\* without its order, no balance update without the trade and its order's
\* history, nothing executed that was not decided and announced before, and no
\* fill announced before the balances are saved.
EffectsInOrder ==
  \A c \in Candles : \A n \in 1 .. attempts[c] :
    /\ Row("signal", c, n) => Row("candle", c, n)
    /\ Row("decision", c, n) => Row("signalEvent", c, n)
    /\ Row("order", c, n) \/ Row("failedOrder", c, n) => Row("decisionEvent", c, n)
    /\ Row("order", c, n) => ~Row("failedOrder", c, n)
    /\ Row("trade", c, n) => Row("order", c, n)
    /\ Row("account", c, n) => Row("trade", c, n) /\ Row("orderEvents", c, n)
    /\ Row("executionEvent", c, n) =>
         \/ Row("account", c, n)
         \/ Row("failedOrder", c, n) /\ Row("orderEvents", c, n)

\* Orchestrator.Handle: a run is only marked completed when its last attempt
\* announced its signal and its decision, and, if it placed an order, recorded
\* the outcome, applied it to the account and announced it.
CompletedRunsAreWhole ==
  \A c \in Candles : runs[c] = "completed" =>
    LET n == attempts[c] IN
    /\ Row("signalEvent", c, n) /\ Row("decisionEvent", c, n)
    /\ Row("order", c, n) => Row("trade", c, n) /\ Row("account", c, n)
    /\ Row("order", c, n) \/ Row("failedOrder", c, n)
         => Row("executionEvent", c, n)

\* The workers in the run of candle c.
Holders(c) == {w \in Workers : InRun(w) /\ Current(w) = c}

\* The candles whose record says 'processing' with nobody in the run, so that no
\* later delivery begins it.
Stuck == {c \in Candles : runs[c] = "processing" /\ Holders(c) = {}}

\* Orchestrator.Handle: no more candles get stuck than calls failed or processes
\* died. A run that ends with an error of its own is marked failed.
StuckRunsNeedFaults == Cardinality(Stuck) <= faults

\* The attempts at candle c that traded, each once.
Trades(c) == {n \in 1 .. attempts[c] : Row("trade", c, n)}

\* Each trade of a candle after its first costs a fault: duplicate deliveries
\* and refused runs alone never trade a candle twice.
RepeatNeedsFault == \A c \in Candles : Cardinality(Trades(c)) <= faults + 1

\* Consumer.Run: a closed candle's entry leaves the pending list only after a
\* run of that candle has been begun.
AckedWasBegun ==
  \A i \in 1 .. delivered :
    i \notin pending /\ stream[i].kind = "closed" => runs[stream[i].candle] # "none"

\* Once a candle's run is completed it stays completed, and no later delivery
\* of the candle adds a row or a publication to it.
NothingAfterCompletion ==
  [][\A c \in Candles : runs[c] = "completed" =>
       /\ runs'[c] = "completed"
       /\ \A r \in effects' \ effects : r[2] # c]_vars

ClosedAt(i) == i <= Len(stream) /\ stream[i].kind = "closed"

\* Entries that end the worker they are handed to: they do not decode, or a run
\* of their candle was refused.
Fatal(i) ==
  /\ i <= Len(stream)
  /\ \/ stream[i].kind = "malformed"
     \/ stream[i].kind = "closed" /\ \E r \in refused : r[1] = stream[i].candle

\* As long as no call fails, the run of every closed candle that enters the
\* stream completes, unless its entry, or one before it and perhaps in its
\* batch, ended the worker.
EveryCandleCompletes ==
  \A i \in 1 .. MaxEvents :
    ClosedAt(i) ~>
      \/ ClosedAt(i) /\ runs[stream[i].candle] = "completed"
      \/ faults > 0
      \/ \E j \in 1 .. i : Fatal(j)

\* Whatever fails, the workers come back and drain the group.
WorkersDrainTheStream ==
  <>[](/\ delivered = Len(stream)
       /\ \A w \in Workers : pc[w] = "read" /\ ~HasBatch(w))

-----------------------------------------------------------------------------
(* What a run record is for, without streams, calls and faults.            *)

Log == INSTANCE RunLog WITH
         status <- runs,
         holder <- [c \in Candles |-> Holders(c)],
         made <- effects

\* Orchestrator.Handle over the idempotency records, the consumer group and
\* every fault of them, is a run log: whatever is redelivered, cut off or
\* answered with an error, a candle is worked on by one worker at a time, only
\* in a run begun for it, and never after its run is completed.
KeepsRunLog == Log!Spec

=============================================================================
