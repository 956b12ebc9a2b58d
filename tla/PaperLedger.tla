----------------------------- MODULE PaperLedger -----------------------------
(***************************************************************************)
(* Everything that trades on the one paper account: the runs of the worker *)
(* processes, the manual cycles of the API, the one-shot cmd/execution     *)
(* (fed by cmd/risk), and the operator's account reset and kill switch.    *)
(* They share PostgreSQL rows and no lock: each reads the balances, decides *)
(* in memory, and later saves the balances it computed over whatever is    *)
(* stored by then.  The engine and the risk rules are those of PaperEngine *)
(* and RiskRules.  Signals, publications and order events are left out     *)
(* (PaperPipeline has them); a read of the price is folded into the read   *)
(* of the account.                                                         *)
(***************************************************************************)
EXTENDS Integers, Sequences, FiniteSets, FiniteSetsExt, PaperEngine, RiskRules

CONSTANTS
  Workers,    \* worker processes, one run at a time each
  Cycles,     \* concurrent requests for a manual cycle
  CliRuns,    \* concurrent processes of cmd/execution
  Engine,     \* execution.Config
  Risk,       \* risk.Config, the same for workers and cycles
  Symbol,     \* the symbol all of them trade
  Strength,   \* the strength of every signal
  Prices,     \* closing prices of the latest candle
  Opening,    \* the account at the start
  Resets,     \* the accounts an operator may reset to
  Idleness,   \* times since the last trade, as the cooldown rule sees them
  MaxRuns,    \* bound on the executions started
  MaxDays,    \* bound on the days
  MaxResets,  \* bound on resets of the account
  MaxFaults   \* bound on failures

Graded == Workers \cup Cycles       \* executors that evaluate risk themselves
Executors == Graded \cup CliRuns

Balances == [quote : Int, base : Int]

ASSUME LedgerAssumption ==
  /\ Workers \cap Cycles = {} /\ Graded \cap CliRuns = {}
  /\ IsFiniteSet(Executors)
  /\ Engine.feeRate \in 0 .. 100 /\ Engine.quoteOrderAmount \in Nat
  /\ Engine.fillRatio \in Int
  /\ Risk.maxDailyTrades \in Int
  /\ Prices \subseteq Nat \ {0}
  /\ Resets \cup {Opening} \subseteq [quote : Nat, base : Nat]
  /\ {MaxRuns, MaxDays, MaxResets, MaxFaults} \subseteq Nat

VARIABLES
  account,     \* paper_accounts: the balances
  version,     \* paper_accounts.updated_at: how often the row was saved
  trades,      \* paper_trades
  decisions,   \* risk_decisions, in the order of evaluation
  orders,      \* paper_orders: the decision each order executes
  killSwitch,  \* safety_status.kill_switch_active
  day,         \* the current UTC day
  pc,          \* what each executor does next
  side,        \* the side of its signal or decision
  price,       \* the price it read
  seen,        \* the account it read
  seenAt,      \* the version of that account
  decision,    \* its risk decision
  result,      \* the trade and the account the engine returned to it
  started,     \* executions started
  resets,      \* resets so far
  faults,      \* failures so far
  armedOrders, \* memory: orders each executor placed since the switch was armed
  lastReset,   \* memory: the last reset's account, and the trades before it
  parted       \* memory: since then a trade was not carried into the account

tables == <<trades, decisions, orders>>
local == <<side, price, seen, seenAt, decision, result>>
counters == <<started, resets, faults>>
memory == <<armedOrders, lastReset, parted>>
vars == <<account, version, tables, killSwitch, day, pc, local, counters, memory>>

NoAccount == [quote |-> 0, base |-> 0]

NoResult ==
  [trade |-> [side |-> "hold", quantity |-> 0, price |-> 0, fee |-> 0, day |-> 0],
   account |-> NoAccount]

Init ==
  /\ account = Opening /\ version = 0
  /\ trades = <<>> /\ decisions = <<>> /\ orders = <<>>
  /\ killSwitch = FALSE
  /\ day = 1
  /\ pc = [x \in Executors |-> "idle"]
  /\ side = [x \in Executors |-> "hold"]
  /\ price = [x \in Executors |-> 0]
  /\ seen = [x \in Executors |-> NoAccount]
  /\ seenAt = [x \in Executors |-> 0]
  /\ decision = [x \in Executors |-> 0]
  /\ result = [x \in Executors |-> NoResult]
  /\ started = 0 /\ resets = 0 /\ faults = 0
  /\ armedOrders = [x \in Executors |-> 0]
  /\ lastReset = [account |-> Opening, trades |-> 0]
  /\ parted = FALSE

-----------------------------------------------------------------------------
(* The run of a worker and the manual cycle.                               *)

Goto(x, stage) == pc' = [pc EXCEPT ![x] = stage]

\* The execution ends, with a result or an error.
Finish(x) ==
  /\ Goto(x, "idle")
  /\ side' = [side EXCEPT ![x] = "hold"]
  /\ price' = [price EXCEPT ![x] = 0]
  /\ seen' = [seen EXCEPT ![x] = NoAccount]
  /\ seenAt' = [seenAt EXCEPT ![x] = 0]
  /\ decision' = [decision EXCEPT ![x] = 0]
  /\ result' = [result EXCEPT ![x] = NoResult]

\* The latest price and the account, before a signal's side s is executed.
Begin(x, s, stage) ==
  /\ pc[x] = "idle"
  /\ started < MaxRuns
  /\ started' = started + 1
  /\ side' = [side EXCEPT ![x] = s]
  /\ \E p \in Prices : price' = [price EXCEPT ![x] = p]
  /\ seen' = [seen EXCEPT ![x] = account]
  /\ seenAt' = [seenAt EXCEPT ![x] = version]
  /\ Goto(x, stage)

\* executionContext; a signal to hold needs none and is rejected.
ReadAccount(x) ==
  /\ \E s \in Sides : Begin(x, s, "risk")
  /\ UNCHANGED <<account, version, tables, killSwitch, day, decision, result,
                 resets, faults, memory>>

\* The quote a trade moves, as the daily statistics count it.
CashFlow(t) ==
  IF t.side = "buy" THEN -(t.quantity * t.price + t.fee)
                    ELSE t.quantity * t.price - t.fee

TradesOn(d) == {i \in 1 .. Len(trades) : trades[i].day = d}

\* Repository.DailyStats: only a negative sum is a loss.
DailyLoss(d) ==
  LET net == MapThenSumSet(LAMBDA i : CashFlow(trades[i]), TradesOn(d))
  IN  IF net < 0 THEN -net ELSE 0

\* What an executor tells the risk rules: never its open positions or its
\* exposures, and no statistics when they could not be read.
RiskContext(x, withStats, idle) ==
  LET known ==
        [EmptyContext EXCEPT !.quoteAmount = Engine.quoteOrderAmount,
           !.price = price[x], !.base = seen[x].base, !.quote = seen[x].quote]
  IN  IF withStats
      THEN [known EXCEPT !.dailyTrades = Cardinality(TradesOn(day)),
              !.dailyLoss = DailyLoss(day), !.traded = TradesOn(day) # {},
              !.sinceTrade = idle]
      ELSE known

Signal(s) == [symbol |-> Symbol, side |-> s, strength |-> Strength]

\* Faulty variant: the decision is used without being stored.
LoseDecision(s, approved) == UNCHANGED decisions

SaveDecision(s, approved) ==
  decisions' = Append(decisions, [side |-> s, approved |-> approved])

\* Evaluate the risk and save the decision. An error of the statistics is
\* swallowed.
Decide(x) ==
  /\ pc[x] = "risk"
  /\ \E stats \in BOOLEAN, idle \in Idleness :
       LET approved ==
             Approves(Risk, Signal(side[x]), RiskContext(x, stats, idle))
       IN  /\ stats \/ faults < MaxFaults
           /\ faults' = IF stats THEN faults ELSE faults + 1
           /\ SaveDecision(side[x], approved)
           /\ \/ /\ approved
                 /\ decision' = [decision EXCEPT ![x] = Len(decisions) + 1]
                 /\ Goto(x, "safety")
                 /\ UNCHANGED <<side, price, seen, seenAt, result>>
              \/ ~approved /\ Finish(x)
  /\ UNCHANGED <<account, version, trades, orders, killSwitch, day, started,
                 resets, memory>>

\* Faulty variant: the safety status is not read.
IgnoreSafety(x) ==
  /\ pc[x] = "safety"
  /\ Goto(x, "order") /\ UNCHANGED local
  /\ UNCHANGED <<account, version, tables, killSwitch, day, counters, memory>>

CheckSafety(x) ==
  /\ pc[x] = "safety"
  /\ IF killSwitch THEN Finish(x) ELSE Goto(x, "order") /\ UNCHANGED local
  /\ UNCHANGED <<account, version, tables, killSwitch, day, counters, memory>>

\* Engine.Execute, in memory, then the insert of the order.
PlaceOrder(x) ==
  /\ pc[x] = "order"
  /\ Executable(Engine, side[x], price[x], seen[x])
  /\ result' = [result EXCEPT ![x] =
                  [trade |-> TradeOf(Engine, side[x], price[x], day),
                   account |-> AccountAfter(Engine, side[x], price[x], seen[x])]]
  /\ orders' = Append(orders, decision[x])
  /\ armedOrders' = [armedOrders EXCEPT ![x] = @ + 1]
  /\ Goto(x, "trade")
  /\ UNCHANGED <<account, version, trades, decisions, killSwitch, day, side,
                 price, seen, seenAt, decision, counters, lastReset, parted>>

\* The engine refuses and the executor returns. The failed row a worker's run
\* inserts first is left out of orders, which holds the orders that execute a
\* decision: no executor reads a failed one, and it moves no balance.
Refused(x) ==
  /\ pc[x] = "order"
  /\ ~Executable(Engine, side[x], price[x], seen[x])
  /\ Finish(x)
  /\ UNCHANGED <<account, version, tables, killSwitch, day, counters, memory>>

SaveTrade(x) ==
  /\ pc[x] = "trade"
  /\ trades' = Append(trades, result[x].trade)
  /\ Goto(x, "account")
  /\ UNCHANGED <<account, version, decisions, orders, killSwitch, day, local,
                 counters, memory>>

\* UPDATE paper_accounts SET both balances, over whatever they are by now.
SaveAccount(x) ==
  /\ pc[x] = "account"
  /\ account' = result[x].account
  /\ version' = version + 1
  /\ parted' = (parted \/ version # seenAt[x])
  /\ Finish(x)
  /\ UNCHANGED <<tables, killSwitch, day, counters, armedOrders, lastReset>>

\* A call fails or the process dies, before or after its effect: what was
\* written stays, nothing is undone, and no one takes the execution up again.
Abandon(x) ==
  /\ pc[x] # "idle"
  /\ faults < MaxFaults
  /\ faults' = faults + 1
  /\ parted' = (parted \/ pc[x] = "account")
  /\ Finish(x)
  /\ UNCHANGED <<account, version, tables, killSwitch, day, started, resets,
                 armedOrders, lastReset>>

-----------------------------------------------------------------------------
(* cmd/risk and cmd/execution.                                             *)

\* risk.Runner evaluates the latest signal without any context.
RiskOnce ==
  /\ CliRuns # {}
  /\ Len(decisions) < MaxRuns
  /\ \E s \in Sides : SaveDecision(s, Approves(Risk, Signal(s), EmptyContext))
  /\ UNCHANGED <<account, version, trades, orders, killSwitch, day, pc, local,
                 counters, memory>>

LatestApproved ==
  {i \in 1 .. Len(decisions) :
     /\ decisions[i].approved
     /\ \A j \in i + 1 .. Len(decisions) : ~decisions[j].approved}

\* execution.Runner takes the latest approved decision, whoever made it and
\* whatever became of it, to the engine.
ExecuteOnce(x) ==
  /\ \E i \in LatestApproved :
       /\ Begin(x, decisions[i].side, "order")
       /\ decision' = [decision EXCEPT ![x] = i]
  /\ UNCHANGED <<account, version, tables, killSwitch, day, result, resets,
                 faults, memory>>

-----------------------------------------------------------------------------
(* The operator and the clock.                                             *)

\* Any balances that are not negative; trades and orders are kept.
ResetAccount ==
  /\ resets < MaxResets
  /\ resets' = resets + 1
  /\ \E a \in Resets :
       /\ account' = a
       /\ lastReset' = [account |-> a, trades |-> Len(trades)]
  /\ version' = version + 1
  /\ parted' = FALSE
  /\ UNCHANGED <<tables, killSwitch, day, pc, local, started, faults,
                 armedOrders>>

SetKillSwitch ==
  /\ killSwitch' = ~killSwitch
  /\ armedOrders' = [x \in Executors |-> 0]
  /\ UNCHANGED <<account, version, tables, day, pc, local, counters, lastReset,
                 parted>>

Midnight ==
  /\ day < MaxDays
  /\ day' = day + 1
  /\ UNCHANGED <<account, version, tables, killSwitch, pc, local, counters,
                 memory>>

Next ==
  \/ \E x \in Graded : ReadAccount(x) \/ Decide(x) \/ CheckSafety(x)
  \/ \E x \in CliRuns : ExecuteOnce(x)
  \/ \E x \in Executors :
       \/ PlaceOrder(x) \/ Refused(x) \/ SaveTrade(x) \/ SaveAccount(x)
       \/ Abandon(x)
  \/ RiskOnce
  \/ ResetAccount
  \/ SetKillSwitch
  \/ Midnight

Spec == Init /\ [][Next]_vars

-----------------------------------------------------------------------------
(* Properties.                                                             *)

Stages == {"idle", "risk", "safety", "order", "trade", "account"}

Trade == [side : Sides, quantity : Nat, price : Nat, fee : Nat, day : Nat \ {0}]

TypeOK ==
  /\ account \in Balances /\ version \in Nat
  /\ trades \in Seq(Trade)
  /\ decisions \in Seq([side : Sides, approved : BOOLEAN])
  /\ orders \in Seq(1 .. Len(decisions))
  /\ killSwitch \in BOOLEAN
  /\ day \in 1 .. MaxDays \cup {1}
  /\ pc \in [Executors -> Stages]
  /\ side \in [Executors -> Sides \cup {"hold"}]
  /\ price \in [Executors -> Nat]
  /\ seen \in [Executors -> Balances]
  /\ seenAt \in [Executors -> 0 .. version]
  /\ decision \in [Executors -> 0 .. Len(decisions)]
  /\ result \in [Executors -> {NoResult} \cup [trade : Trade, account : Balances]]
  /\ started \in 0 .. MaxRuns /\ resets \in 0 .. MaxResets
  /\ faults \in 0 .. MaxFaults
  /\ armedOrders \in [Executors -> Nat]
  /\ lastReset \in [account : Balances, trades : 0 .. Len(trades)]
  /\ parted \in BOOLEAN

\* PaperEngine and AccountRepository.Save: however executions and resets
\* overlap, and whichever save is the last, the stored balances are never
\* negative.
BalancesNeverNegative == account.quote >= 0 /\ account.base >= 0

\* Balances a after trade t: what it moved is worked out from its row, not from
\* the engine.
Moved(a, t) ==
  [quote |-> a.quote + CashFlow(t),
   base |-> a.base + (IF t.side = "buy" THEN t.quantity ELSE -t.quantity)]

\* Balances a after the trades of ts that follow the first k.
Replayed(a, k, ts) ==
  LET after[n \in 0 .. Len(ts)] ==
        IF n <= k THEN a ELSE Moved(after[n - 1], ts[n])
  IN  after[Len(ts)]

\* The account the trades since the last reset explain.
Explained == Replayed(lastReset.account, lastReset.trades, trades)

\* The balances and the trades since the last reset agree between executions,
\* unless one saved balances computed from an account that had been saved by
\* another meanwhile, or was cut off between its trade and its account.
BalancesAgreeWithTrades ==
  ~parted /\ (\A x \in Executors : pc[x] # "account") => account = Explained

\* MaxDailyTrades is checked against trades already stored, so a day exceeds
\* it by at most the executions under way beside the last one admitted, and by
\* those admitted when the statistics could not be read.
DailyTradesBounded ==
  Risk.maxDailyTrades > 0 =>
    \A d \in 1 .. day :
      Cardinality(TradesOn(d))
        <= Risk.maxDailyTrades + Cardinality(Graded) - 1 + faults

\* docs/runbook.md:290, for runs and cycles: once the kill switch is armed, each
\* places at most the one order it was cleared for before.
KillSwitchDrains ==
  killSwitch => \A x \in Graded : armedOrders[x] <= 1

Approved == {i \in 1 .. Len(decisions) : decisions[i].approved}

\* Whatever is executed was approved, and runs and cycles, which hold their
\* decision in memory between two tables, execute one decision once; only
\* cmd/execution takes up an approval again.
OrdersFollowApproval ==
  /\ \A i \in 1 .. Len(orders) : orders[i] \in Approved
  /\ CliRuns = {} =>
       \A i, j \in 1 .. Len(orders) : orders[i] = orders[j] => i = j

\* Risk rules and engine agree: what the rules approve for a run or a cycle the
\* engine never refuses for lack of funds.
ApprovedOrdersFill ==
  \A x \in Graded :
    pc[x] \in {"safety", "order"} => Funded(Engine, side[x], price[x], seen[x])

=============================================================================
