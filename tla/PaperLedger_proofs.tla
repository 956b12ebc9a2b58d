-------------------------- MODULE PaperLedger_proofs --------------------------
(***************************************************************************)
(* Proofs, for any executors, any settings of the engine and of the risk   *)
(* rules, any prices, resets and bounds, of what holds of the one paper    *)
(* account although nothing locks it.                                      *)
(***************************************************************************)
EXTENDS PaperLedger, FiniteSetTheorems, TLAPS

(***************************************************************************)
(* The inductive invariant: the types; the stored account is not in debt;  *)
(* and of every executor, that it holds what its stage needs, has read and *)
(* will save accounts that are not in debt, and, when it evaluates risk    *)
(* itself, can pay for what was approved and has placed no order under the *)
(* armed switch if it may still place one.                                 *)
(***************************************************************************)
Outcomes == [trade : Trade, account : Balances]

\* A side and a price, then a decision, then a result.
HoldsWhatItNeeds(x) ==
  /\ pc[x] # "idle" => side[x] \in Sides /\ price[x] \in Prices
  /\ pc[x] \in {"safety", "order"} => decision[x] # 0
  /\ pc[x] \in {"trade", "account"} => result[x] \in Outcomes

Solvent(a) == a.quote >= 0 /\ a.base >= 0

SeesNoDebt(x) == Solvent(seen[x]) /\ Solvent(result[x].account)

CanPay(x) ==
  x \in Graded /\ pc[x] \in {"safety", "order"}
    => Funded(Engine, side[x], price[x], seen[x])

Drains(x) ==
  x \in Graded /\ killSwitch
    => armedOrders[x] <= 1 /\ (pc[x] = "order" => armedOrders[x] = 0)

ExecutorInv(x) ==
  HoldsWhatItNeeds(x) /\ SeesNoDebt(x) /\ CanPay(x) /\ Drains(x)

LedgerInv ==
  TypeOK /\ Solvent(account) /\ \A x \in Executors : ExecutorInv(x)

(***************************************************************************)
(* For the daily cap, without cmd/execution: whoever was admitted and has  *)
(* not stored its trade yet counts as if it had.                           *)
(***************************************************************************)
DatesInv ==
  /\ \A i \in 1 .. Len(trades) : trades[i].day \in 1 .. day
  /\ \A x \in Executors : pc[x] = "trade" => result[x].trade.day \in 1 .. day

Admitted(d) ==
  {x \in Graded : \/ d = day /\ pc[x] \in {"safety", "order"}
                  \/ pc[x] = "trade" /\ result[x].trade.day = d}

Capped(d) ==
  Cardinality(TradesOn(d)) + Cardinality(Admitted(d))
    <= Risk.maxDailyTrades + Cardinality(Graded) - 1 + faults

CapInv ==
  CliRuns = {} /\ Risk.maxDailyTrades > 0 => \A d \in 1 .. day : Capped(d)

(***************************************************************************)
(* For orders and approvals: who is cleared to place an order holds an     *)
(* approval, and, without cmd/execution, one that nobody else holds and    *)
(* that no order executes yet.                                             *)
(***************************************************************************)
Cleared(x) == pc[x] \in {"safety", "order"}

HoldsApproval(x) == Cleared(x) => decision[x] \in Approved

HoldsAlone(x) ==
  Cleared(x) =>
    /\ \A i \in 1 .. Len(orders) : orders[i] # decision[x]
    /\ \A y \in Executors \ {x} : Cleared(y) => decision[y] # decision[x]

ApprovalInv ==
  OrdersFollowApproval /\ \A x \in Executors :
    HoldsApproval(x) /\ (CliRuns = {} => HoldsAlone(x))

(***************************************************************************)
(* For the agreement of balances and trades. No division of the engine     *)
(* leaves a remainder; what it returns is then what the trade moves.       *)
(***************************************************************************)
ExactDivision ==
  \A p \in Prices :
    (FilledQuote(Engine) - Fee(Engine)) % p = 0 /\ FilledQuote(Engine) % p = 0

\* A read that no save has overtaken is still the stored account.
ReadsInv ==
  \A x \in Executors : pc[x] # "idle" /\ seenAt[x] = version => seen[x] = account

ResultsInv ==
  \A x \in Executors :
    pc[x] \in {"trade", "account"}
      => result[x].account = Moved(seen[x], result[x].trade)

\* Executors whose trade is stored and whose account is not.
Settling == {x \in Executors : pc[x] = "account"}

\* Unless the balances parted from the trades: no one settles, and they agree;
\* one settles, and will make them agree; or two settle, or one late, and the
\* last of them will part them.
SettlingInv ==
  \/ parted
  \/ Settling = {} /\ account = Explained
  \/ \E x \in Settling :
       /\ Settling = {x} /\ seenAt[x] = version
       /\ Explained = Moved(account, result[x].trade)
  \/ \E x, y \in Settling : x # y
  \/ \E x \in Settling : seenAt[x] # version

AgreementInv == ReadsInv /\ ResultsInv /\ SettlingInv

-----------------------------------------------------------------------------
(* What the engine returns.                                                *)

\* A part in a hundred of an amount is no more than the amount.
LEMMA PartOfAmount ==
  ASSUME NEW q \in Nat, NEW r \in 0 .. 100
  PROVE  (q * r) \div 100 \in 0 .. q
<1>1. q * r \in Nat /\ q * r <= q * 100
  <2>1. PICK d \in Nat : r + d = 100
    OBVIOUS
  <2>2. q * d \in Nat /\ q * r \in Nat /\ q * 100 = q * r + q * d
    BY <2>1
  <2>3. QED
    BY <2>2
<1>2. QED
  BY <1>1

\* What is divided out fits into what covers the whole.
LEMMA QuotientBelow ==
  ASSUME NEW q \in Nat, NEW p \in Nat \ {0}, NEW b \in Nat, b * p >= q
  PROVE  q \div p <= b
<1> DEFINE n == q \div p
<1>1. n \in Nat /\ p * n <= q
  OBVIOUS
<1>2. ASSUME n > b PROVE FALSE
  <2>1. PICK d \in Nat \ {0} : n = b + d
    BY <1>1, <1>2
  <2>2. d * p > 0 /\ p * n = b * p + d * p
    BY <2>1
  <2>3. QED
    BY <1>1, <2>2
<1>3. QED
  BY <1>1, <1>2

\* What is filled is part of the order, and the fee part of what is filled.
LEMMA EngineAmounts ==
  /\ FilledQuote(Engine) \in 0 .. Engine.quoteOrderAmount
  /\ Fee(Engine) \in 0 .. FilledQuote(Engine)
<1>1. FillRatio(Engine) \in 0 .. 100
  BY LedgerAssumption DEF FillRatio
<1>2. FilledQuote(Engine) \in 0 .. Engine.quoteOrderAmount
  BY <1>1, LedgerAssumption, PartOfAmount DEF FilledQuote
<1>3. FilledQuote(Engine) \in Nat
  BY <1>2, LedgerAssumption
<1>4. QED
  BY <1>2, <1>3, LedgerAssumption, PartOfAmount DEF Fee

LEMMA QuantityIsNat ==
  ASSUME NEW s, NEW p \in Nat \ {0}
  PROVE  Quantity(Engine, s, p) \in Nat
<1>1. FilledQuote(Engine) \in Nat /\ FilledQuote(Engine) - Fee(Engine) \in Nat
  BY EngineAmounts, LedgerAssumption
<1>2. QED
  BY <1>1 DEF Quantity

\* A trade as the engine returns it has a trade's type.
LEMMA TradeIsTyped ==
  ASSUME NEW s \in Sides, NEW p \in Nat \ {0}, NEW d \in Nat \ {0}
  PROVE  TradeOf(Engine, s, p, d) \in Trade
<1>1. Quantity(Engine, s, p) \in Nat /\ Fee(Engine) \in Nat
  BY QuantityIsNat, EngineAmounts, LedgerAssumption
<1>2. QED
  BY <1>1 DEF TradeOf, Trade

\* An account that can pay stays out of debt.
LEMMA FundedStaysSolvent ==
  ASSUME NEW s \in Sides, NEW p \in Nat \ {0}, NEW a \in Balances,
         Solvent(a), Funded(Engine, s, p, a)
  PROVE  /\ AccountAfter(Engine, s, p, a) \in Balances
         /\ Solvent(AccountAfter(Engine, s, p, a))
<1>1. /\ FilledQuote(Engine) \in Nat /\ Fee(Engine) \in Nat
      /\ FilledQuote(Engine) - Fee(Engine) \in Nat
      /\ Quantity(Engine, s, p) \in Nat
  BY QuantityIsNat, EngineAmounts, LedgerAssumption
<1>2. a.quote \in Nat /\ a.base \in Nat
  BY DEF Balances, Solvent
<1>3. QED
  BY <1>1, <1>2 DEF AccountAfter, Funded, Balances, Solvent, Sides

\* What the rules do not reject for lack of funds, the engine can fill.
LEMMA ApprovedIsFunded ==
  ASSUME NEW s \in Sides, NEW p \in Nat \ {0}, NEW a \in Balances, Solvent(a),
         NEW c, c.quoteAmount = Engine.quoteOrderAmount, c.price = p,
         c.base = a.base, c.quote = a.quote, ~Unfunded(Signal(s), c)
  PROVE  Funded(Engine, s, p, a)
<1> DEFINE q == FilledQuote(Engine)
<1>1. /\ q \in Nat /\ q <= Engine.quoteOrderAmount /\ Engine.quoteOrderAmount \in Nat
      /\ a.quote \in Nat /\ a.base \in Nat
  BY EngineAmounts, LedgerAssumption DEF Balances, Solvent
<1>2. Signal(s).side = s
  BY DEF Signal
<1>3. CASE s = "buy"
  <2>1. a.quote >= q
    BY <1>1, <1>2, <1>3 DEF Unfunded
  <2>2. QED
    BY <1>3, <2>1 DEF Funded
<1>4. CASE s = "sell"
  <2>1. a.base * p >= q
    <3>1. CASE Engine.quoteOrderAmount = 0
      <4>1. q = 0 /\ a.base * p \in Nat
        BY <1>1, <3>1
      <4>2. QED
        BY <4>1
    <3>2. CASE Engine.quoteOrderAmount # 0
      BY <1>1, <1>2, <1>4, <3>2 DEF Unfunded
    <3>3. QED
      BY <3>1, <3>2
  <2>2. q \div p <= a.base
    BY <1>1, <2>1, QuotientBelow
  <2>3. QED
    BY <1>4, <2>2 DEF Funded, Quantity
<1>5. QED
  BY <1>3, <1>4 DEF Sides

-----------------------------------------------------------------------------
(* Types.                                                                  *)

Decision == [side : Sides, approved : BOOLEAN]

\* A price is one of the engine's prices.
LEMMA PriceFacts == Prices \subseteq Nat \ {0}
BY LedgerAssumption

LEMMA SolventResets ==
  \A a \in Resets \cup {Opening} : a \in Balances /\ Solvent(a)
BY LedgerAssumption DEF Balances, Solvent

\* One more row leaves the earlier ones.
LEMMA AppendFacts ==
  ASSUME NEW S, NEW s \in Seq(S), NEW e
  PROVE  /\ Append(s, e) \in Seq(S \cup {e})
         /\ e \in S => Append(s, e) \in Seq(S)
         /\ Len(s) \in Nat /\ Len(Append(s, e)) = Len(s) + 1
         /\ \A i \in 1 .. Len(s) : Append(s, e)[i] = s[i] /\ s[i] \in S
         /\ Append(s, e)[Len(s) + 1] = e
OBVIOUS

\* Orders refer to decisions, which are only added.
LEMMA OrdersRefer ==
  ASSUME NEW s, NEW m \in Nat, NEW n \in Nat, m <= n, s \in Seq(1 .. m)
  PROVE  s \in Seq(1 .. n)
<1>1. 1 .. m \subseteq 1 .. n
  OBVIOUS
<1>2. QED
  BY <1>1

TablesTyped ==
  /\ account \in Balances /\ version \in Nat
  /\ trades \in Seq(Trade) /\ decisions \in Seq(Decision)
  /\ orders \in Seq(1 .. Len(decisions))

LocalsTyped ==
  /\ pc \in [Executors -> Stages]
  /\ side \in [Executors -> Sides \cup {"hold"}]
  /\ price \in [Executors -> Nat]
  /\ seen \in [Executors -> Balances]
  /\ seenAt \in [Executors -> 0 .. version]
  /\ decision \in [Executors -> 0 .. Len(decisions)]
  /\ result \in [Executors -> {NoResult} \cup Outcomes]

CountsTyped ==
  /\ day \in 1 .. MaxDays \cup {1}
  /\ started \in 0 .. MaxRuns /\ resets \in 0 .. MaxResets
  /\ faults \in 0 .. MaxFaults
  /\ armedOrders \in [Executors -> Nat]
  /\ lastReset \in [account : Balances, trades : 0 .. Len(trades)]

FlagsTyped == killSwitch \in BOOLEAN /\ parted \in BOOLEAN

LEMMA TypeParts ==
  /\ TypeOK <=> TablesTyped /\ LocalsTyped /\ CountsTyped /\ FlagsTyped
  /\ TypeOK' <=> TablesTyped' /\ LocalsTyped' /\ CountsTyped' /\ FlagsTyped'
BY DEF TypeOK, TablesTyped, LocalsTyped, CountsTyped, FlagsTyped, Decision, Outcomes

LEMMA InitTypes == Init => TypeOK
<1>1. SUFFICES ASSUME Init PROVE TypeOK
  OBVIOUS
<1>2. account \in Balances /\ NoAccount \in Balances
  BY <1>1, SolventResets DEF Init, NoAccount, Balances
<1>3. MaxRuns \in Nat /\ MaxDays \in Nat /\ MaxResets \in Nat /\ MaxFaults \in Nat
  BY LedgerAssumption
<1>4. /\ version = 0 /\ day = 1 /\ started = 0 /\ resets = 0 /\ faults = 0
      /\ trades = <<>> /\ decisions = <<>> /\ orders = <<>>
  BY <1>1, Zenon DEF Init
<1>5. TablesTyped
  BY <1>2, <1>4 DEF TablesTyped
<1>6. LocalsTyped
  <2>1. /\ seenAt \in [Executors -> 0 .. version]
        /\ decision \in [Executors -> 0 .. Len(decisions)]
    BY <1>1, <1>4 DEF Init
  <2>2. QED
    BY <1>1, <1>2, <2>1 DEF LocalsTyped, Init, Stages
<1>7. CountsTyped
  <2>1. armedOrders \in [Executors -> Nat]
    BY <1>1 DEF Init
  <2>2. lastReset \in [account : Balances, trades : 0 .. Len(trades)]
    BY <1>1, <1>2, <1>4 DEF Init
  <2>3. QED
    BY <1>3, <1>4, <2>1, <2>2 DEF CountsTyped
<1>8. FlagsTyped
  BY <1>1, Zenon DEF Init, FlagsTyped
<1>9. QED
  BY <1>5, <1>6, <1>7, <1>8, TypeParts

\* Versions and decisions only grow.
LEMMA LocalsStayTyped ==
  ASSUME LocalsTyped, version \in Nat, Len(decisions) \in Nat,
         UNCHANGED <<pc, local>>,
         version' \in Nat, version <= version',
         Len(decisions') \in Nat, Len(decisions) <= Len(decisions')
  PROVE  LocalsTyped'
<1>1. 0 .. version \subseteq 0 .. version'
  OBVIOUS
<1>2. 0 .. Len(decisions) \subseteq 0 .. Len(decisions')
  OBVIOUS
<1>3. /\ seenAt' \in [Executors -> 0 .. version']
      /\ decision' \in [Executors -> 0 .. Len(decisions')]
  BY <1>1, <1>2 DEF LocalsTyped, local
<1>4. QED
  BY <1>3 DEF LocalsTyped, local

LEMMA FinishStaysTyped ==
  ASSUME LocalsTyped, NEW x \in Executors, Finish(x),
         version' \in Nat, version \in Nat, version <= version',
         Len(decisions) \in Nat, Len(decisions') \in Nat,
         Len(decisions) <= Len(decisions')
  PROVE  LocalsTyped'
<1>1. NoAccount \in Balances
  BY DEF NoAccount, Balances
<1>2. seenAt' \in [Executors -> 0 .. version']
  <2>1. 0 \in 0 .. version' /\ 0 .. version \subseteq 0 .. version'
    OBVIOUS
  <2>2. QED
    BY <2>1 DEF LocalsTyped, Finish
<1>3. decision' \in [Executors -> 0 .. Len(decisions')]
  <2>1. 0 \in 0 .. Len(decisions') /\ 0 .. Len(decisions) \subseteq 0 .. Len(decisions')
    OBVIOUS
  <2>2. QED
    BY <2>1 DEF LocalsTyped, Finish
<1>4. QED
  BY <1>1, <1>2, <1>3 DEF LocalsTyped, Finish, Goto, Stages

\* What the types say of the tables and of one executor.
LEMMA LedgerFacts ==
  ASSUME TypeOK
  PROVE  /\ account \in Balances /\ version \in Nat /\ Len(decisions) \in Nat
         /\ trades \in Seq(Trade) /\ decisions \in Seq(Decision)
         /\ Len(trades) \in Nat /\ day \in Nat \ {0} /\ faults \in Nat
         /\ \A x \in Executors :
              /\ pc[x] \in Stages /\ side[x] \in Sides \cup {"hold"}
              /\ seen[x] \in Balances /\ seenAt[x] \in 0 .. version
              /\ decision[x] \in 0 .. Len(decisions) /\ armedOrders[x] \in Nat
              /\ result[x] \in {NoResult} \cup Outcomes
<1>1. TablesTyped /\ LocalsTyped /\ CountsTyped
  BY TypeParts
<1>2. day \in Nat \ {0} /\ faults \in Nat
  BY <1>1, LedgerAssumption DEF CountsTyped
<1>3. QED
  BY <1>1, <1>2 DEF TablesTyped, LocalsTyped, CountsTyped

\* The first part of an execution, of a run or of cmd/execution.
LEMMA BeginTyped ==
  ASSUME TypeOK, NEW x \in Executors, NEW s \in Sides, NEW stage \in Stages,
         Begin(x, s, stage)
  PROVE  /\ pc' \in [Executors -> Stages]
         /\ side' \in [Executors -> Sides \cup {"hold"}]
         /\ price' \in [Executors -> Nat]
         /\ seen' \in [Executors -> Balances]
         /\ seenAt' \in [Executors -> 0 .. version]
         /\ started' \in 0 .. MaxRuns
<1>1. TablesTyped /\ LocalsTyped /\ CountsTyped /\ MaxRuns \in Nat
  BY TypeParts, LedgerAssumption
<1>2. price' \in [Executors -> Nat]
  <2>1. PICK p \in Prices : price' = [price EXCEPT ![x] = p]
    BY Zenon DEF Begin
  <2>2. QED
    BY <1>1, <2>1, PriceFacts DEF LocalsTyped
<1>3. version \in 0 .. version
  BY <1>1 DEF TablesTyped
<1>4. started' \in 0 .. MaxRuns
  BY <1>1 DEF Begin, CountsTyped
<1>5. QED
  BY <1>1, <1>2, <1>3, <1>4 DEF Begin, Goto, LocalsTyped, TablesTyped

LEMMA ReadAccountTyped ==
  ASSUME TypeOK, NEW x \in Graded, ReadAccount(x)
  PROVE  TypeOK'
<1>1. TablesTyped /\ LocalsTyped /\ CountsTyped /\ FlagsTyped /\ x \in Executors
  BY TypeParts DEF Executors
<1>2. PICK s \in Sides : Begin(x, s, "risk")
  BY Zenon DEF ReadAccount
<1>3. /\ UNCHANGED <<account, version, tables, killSwitch, day, decision, result>>
      /\ UNCHANGED <<resets, faults, armedOrders, lastReset, parted>>
  BY DEF ReadAccount, memory
<1>4. "risk" \in Stages
  BY DEF Stages
<1>5. LocalsTyped' /\ started' \in 0 .. MaxRuns
  BY <1>1, <1>2, <1>3, <1>4, BeginTyped DEF LocalsTyped, tables
<1>6. TablesTyped' /\ CountsTyped' /\ FlagsTyped'
  BY <1>1, <1>3, <1>5 DEF TablesTyped, CountsTyped, FlagsTyped, tables
<1>7. QED
  BY <1>5, <1>6, TypeParts

LEMMA ExecuteOnceTyped ==
  ASSUME TypeOK, NEW x \in CliRuns, ExecuteOnce(x)
  PROVE  TypeOK'
<1>1. TablesTyped /\ LocalsTyped /\ CountsTyped /\ FlagsTyped /\ x \in Executors
  BY TypeParts DEF Executors
<1>2. PICK i \in LatestApproved :
        /\ Begin(x, decisions[i].side, "order")
        /\ decision' = [decision EXCEPT ![x] = i]
  BY Zenon DEF ExecuteOnce
<1>3. /\ UNCHANGED <<account, version, tables, killSwitch, day, result>>
      /\ UNCHANGED <<resets, faults, armedOrders, lastReset, parted>>
  BY DEF ExecuteOnce, memory
<1>4. i \in 1 .. Len(decisions) /\ decisions[i].side \in Sides /\ "order" \in Stages
  <2>1. i \in 1 .. Len(decisions)
    BY <1>2, Zenon DEF LatestApproved
  <2>2. decisions[i] \in Decision
    BY <1>1, <2>1 DEF TablesTyped
  <2>3. QED
    BY <2>1, <2>2 DEF Decision, Stages
<1>5. LocalsTyped' /\ started' \in 0 .. MaxRuns
  <2>1. decision' \in [Executors -> 0 .. Len(decisions)]
    BY <1>1, <1>2, <1>4 DEF LocalsTyped
  <2>2. QED
    BY <1>1, <1>2, <1>3, <1>4, <2>1, BeginTyped DEF LocalsTyped, tables
<1>6. TablesTyped' /\ CountsTyped' /\ FlagsTyped'
  BY <1>1, <1>3, <1>5 DEF TablesTyped, CountsTyped, FlagsTyped, tables
<1>7. QED
  BY <1>5, <1>6, TypeParts

\* A decision is stored.
LEMMA SaveDecisionTyped ==
  ASSUME TypeOK, NEW s \in Sides, NEW approved \in BOOLEAN,
         SaveDecision(s, approved), UNCHANGED <<account, version, trades, orders>>
  PROVE  /\ TablesTyped' /\ Len(decisions') = Len(decisions) + 1
         /\ \A i \in 1 .. Len(decisions) : decisions'[i] = decisions[i]
<1>1. TablesTyped /\ [side |-> s, approved |-> approved] \in Decision
  BY TypeParts DEF Decision
<1>2. /\ decisions' \in Seq(Decision) /\ Len(decisions') = Len(decisions) + 1
      /\ Len(decisions) \in Nat
      /\ \A i \in 1 .. Len(decisions) : decisions'[i] = decisions[i]
  BY <1>1, AppendFacts DEF TablesTyped, SaveDecision
<1>3. orders' \in Seq(1 .. Len(decisions'))
  BY <1>1, <1>2, OrdersRefer DEF TablesTyped
<1>4. QED
  BY <1>1, <1>2, <1>3 DEF TablesTyped

LEMMA RiskOnceTyped ==
  ASSUME TypeOK, RiskOnce
  PROVE  TypeOK'
<1>1. TablesTyped /\ LocalsTyped /\ CountsTyped /\ FlagsTyped
  BY TypeParts
<1>2. PICK s \in Sides : SaveDecision(s, Approves(Risk, Signal(s), EmptyContext))
  BY Zenon DEF RiskOnce
<1>3. Approves(Risk, Signal(s), EmptyContext) \in BOOLEAN
  BY Zenon DEF Approves
<1>4. /\ UNCHANGED <<account, version, trades, orders, killSwitch, day, pc, local>>
      /\ UNCHANGED <<started, resets, faults, armedOrders, lastReset, parted>>
  BY DEF RiskOnce, memory, counters
<1>5. TablesTyped' /\ Len(decisions') = Len(decisions) + 1
  BY <1>2, <1>3, <1>4, SaveDecisionTyped
<1>6. LocalsTyped'
  BY <1>1, <1>4, <1>5, LocalsStayTyped, LedgerFacts
<1>7. CountsTyped' /\ FlagsTyped'
  BY <1>1, <1>4 DEF CountsTyped, FlagsTyped
<1>8. QED
  BY <1>5, <1>6, <1>7, TypeParts

LEMMA DecideTyped ==
  ASSUME TypeOK, NEW x \in Graded, HoldsWhatItNeeds(x), Decide(x)
  PROVE  TypeOK'
<1>1. TablesTyped /\ LocalsTyped /\ CountsTyped /\ FlagsTyped /\ x \in Executors
  BY TypeParts DEF Executors
<1>2. side[x] \in Sides
  BY DEF Decide, HoldsWhatItNeeds
<1>3. PICK stats \in BOOLEAN, idle \in Idleness :
        LET approved ==
              Approves(Risk, Signal(side[x]), RiskContext(x, stats, idle))
        IN  /\ stats \/ faults < MaxFaults
            /\ faults' = IF stats THEN faults ELSE faults + 1
            /\ SaveDecision(side[x], approved)
            /\ \/ /\ approved
                  /\ decision' = [decision EXCEPT ![x] = Len(decisions) + 1]
                  /\ Goto(x, "safety")
                  /\ UNCHANGED <<side, price, seen, seenAt, result>>
               \/ ~approved /\ Finish(x)
  BY Zenon DEF Decide
<1> DEFINE approved ==
             Approves(Risk, Signal(side[x]), RiskContext(x, stats, idle))
<1>4. approved \in BOOLEAN
  BY Zenon DEF Approves
<1>5. /\ UNCHANGED <<account, version, trades, orders, killSwitch, day>>
      /\ UNCHANGED <<started, resets, armedOrders, lastReset, parted>>
  BY DEF Decide, memory
<1>6. TablesTyped' /\ Len(decisions') = Len(decisions) + 1
  BY <1>2, <1>3, <1>4, <1>5, SaveDecisionTyped
<1>7. LocalsTyped'
  <2>1. CASE Finish(x)
    BY <1>1, <1>5, <1>6, <2>1, FinishStaysTyped, LedgerFacts
  <2>2. CASE /\ decision' = [decision EXCEPT ![x] = Len(decisions) + 1]
             /\ Goto(x, "safety")
             /\ UNCHANGED <<side, price, seen, seenAt, result>>
    <3>1. Len(decisions) \in Nat
      BY LedgerFacts
    <3>2. decision' \in [Executors -> 0 .. Len(decisions')]
      BY <1>1, <1>6, <2>2, <3>1 DEF LocalsTyped
    <3>3. QED
      BY <1>1, <1>5, <2>2, <3>2 DEF LocalsTyped, Goto, Stages
  <2>3. QED
    BY <1>3, <2>1, <2>2
<1>8. faults' \in 0 .. MaxFaults
  BY <1>1, <1>3, LedgerAssumption DEF CountsTyped
<1>9. CountsTyped' /\ FlagsTyped'
  BY <1>1, <1>5, <1>8 DEF CountsTyped, FlagsTyped
<1>10. QED
  BY <1>6, <1>7, <1>9, TypeParts

\* An execution that ends without leaving a trace in the tables.
LEMMA FinishTyped ==
  ASSUME TypeOK, NEW x \in Executors, Finish(x),
         UNCHANGED <<account, version, tables, killSwitch, day>>,
         UNCHANGED <<started, resets, armedOrders, lastReset>>,
         faults' \in 0 .. MaxFaults, parted' \in BOOLEAN
  PROVE  TypeOK'
<1>1. TablesTyped /\ LocalsTyped /\ CountsTyped /\ FlagsTyped
  BY TypeParts
<1>2. TablesTyped'
  BY <1>1 DEF TablesTyped, tables
<1>3. LocalsTyped'
  BY <1>1, FinishStaysTyped, LedgerFacts DEF tables
<1>4. CountsTyped' /\ FlagsTyped'
  BY <1>1 DEF CountsTyped, FlagsTyped, tables
<1>5. QED
  BY <1>2, <1>3, <1>4, TypeParts

LEMMA CheckSafetyTyped ==
  ASSUME TypeOK, NEW x \in Graded, CheckSafety(x)
  PROVE  TypeOK'
<1>1. /\ TablesTyped /\ LocalsTyped /\ CountsTyped /\ FlagsTyped /\ x \in Executors
      /\ UNCHANGED <<account, version, tables, killSwitch, day, counters, memory>>
  BY TypeParts DEF Executors, CheckSafety
<1>2. CASE Finish(x)
  BY <1>1, <1>2, FinishTyped DEF CountsTyped, FlagsTyped, counters, memory
<1>3. CASE Goto(x, "order") /\ UNCHANGED local
  <2>1. LocalsTyped'
    BY <1>1, <1>3 DEF LocalsTyped, Goto, local, Stages, tables
  <2>2. TablesTyped' /\ CountsTyped' /\ FlagsTyped'
    BY <1>1 DEF TablesTyped, CountsTyped, FlagsTyped, tables, counters, memory
  <2>3. QED
    BY <2>1, <2>2, TypeParts
<1>4. QED
  BY <1>2, <1>3 DEF CheckSafety

LEMMA RefusedTyped ==
  ASSUME TypeOK, NEW x \in Executors, Refused(x)
  PROVE  TypeOK'
<1>1. /\ CountsTyped /\ FlagsTyped /\ Finish(x)
      /\ UNCHANGED <<account, version, tables, killSwitch, day, counters, memory>>
  BY TypeParts DEF Refused
<1>2. QED
  BY <1>1, FinishTyped DEF CountsTyped, FlagsTyped, counters, memory

LEMMA AbandonTyped ==
  ASSUME TypeOK, NEW x \in Executors, Abandon(x)
  PROVE  TypeOK'
<1>1. CountsTyped /\ FlagsTyped /\ MaxFaults \in Nat
  BY TypeParts, LedgerAssumption
<1>2. faults' \in 0 .. MaxFaults
  BY <1>1 DEF Abandon, CountsTyped
<1>3. parted' \in BOOLEAN
  BY Zenon DEF Abandon
<1>4. QED
  BY <1>2, <1>3, FinishTyped DEF Abandon

\* The order's result, and the row that refers to its decision.
LEMMA PlaceOrderTyped ==
  ASSUME TypeOK, NEW x \in Executors, HoldsWhatItNeeds(x), SeesNoDebt(x),
         PlaceOrder(x)
  PROVE  /\ TypeOK'
         /\ result'[x] \in Outcomes
         /\ Solvent(result'[x].account)
<1>1. TablesTyped /\ LocalsTyped /\ CountsTyped /\ FlagsTyped
  BY TypeParts
<1>2. /\ side[x] \in Sides /\ price[x] \in Nat \ {0} /\ seen[x] \in Balances
      /\ Solvent(seen[x]) /\ Funded(Engine, side[x], price[x], seen[x])
      /\ day \in Nat \ {0}
  BY PriceFacts, LedgerFacts
     DEF PlaceOrder, Executable, HoldsWhatItNeeds, SeesNoDebt
<1> DEFINE t == TradeOf(Engine, side[x], price[x], day)
           a == AccountAfter(Engine, side[x], price[x], seen[x])
<1>3. t \in Trade /\ a \in Balances /\ Solvent(a)
  BY <1>2, TradeIsTyped, FundedStaysSolvent
<1>4. /\ result' = [result EXCEPT ![x] = [trade |-> t, account |-> a]]
      /\ orders' = Append(orders, decision[x])
      /\ armedOrders' = [armedOrders EXCEPT ![x] = @ + 1]
      /\ Goto(x, "trade")
      /\ UNCHANGED <<account, version, trades, decisions, killSwitch, day, side,
                     price, seen, seenAt, decision, started, resets, faults,
                     lastReset, parted>>
  BY DEF PlaceOrder, counters
<1> HIDE DEF t, a
<1>5. /\ [trade |-> t, account |-> a] \in Outcomes
      /\ result'[x] = [trade |-> t, account |-> a]
  BY <1>1, <1>3, <1>4 DEF Outcomes, LocalsTyped
<1>6. LocalsTyped'
  BY <1>1, <1>4, <1>5 DEF LocalsTyped, Goto, Stages
<1>7. TablesTyped'
  <2>1. decision[x] \in 1 .. Len(decisions)
    BY LedgerFacts DEF HoldsWhatItNeeds, PlaceOrder
  <2>2. orders' \in Seq(1 .. Len(decisions))
    BY <1>1, <1>4, <2>1, AppendFacts DEF TablesTyped
  <2>3. QED
    BY <1>1, <1>4, <2>2 DEF TablesTyped
<1>8. CountsTyped' /\ FlagsTyped'
  BY <1>1, <1>4 DEF CountsTyped, FlagsTyped
<1>9. QED
  BY <1>3, <1>5, <1>6, <1>7, <1>8, TypeParts

LEMMA SaveTradeTyped ==
  ASSUME TypeOK, NEW x \in Executors, HoldsWhatItNeeds(x), SaveTrade(x)
  PROVE  TypeOK'
<1>1. TablesTyped /\ LocalsTyped /\ CountsTyped /\ FlagsTyped
  BY TypeParts
<1>2. result[x].trade \in Trade
  BY DEF HoldsWhatItNeeds, SaveTrade, Outcomes
<1>3. /\ trades' = Append(trades, result[x].trade)
      /\ Goto(x, "account")
      /\ UNCHANGED <<account, version, decisions, orders, killSwitch, day>>
      /\ UNCHANGED <<local, started, resets, faults, armedOrders, lastReset, parted>>
  BY DEF SaveTrade, counters, memory
<1>4. /\ trades' \in Seq(Trade) /\ Len(trades') = Len(trades) + 1
      /\ Len(trades) \in Nat
  BY <1>1, <1>2, <1>3, AppendFacts DEF TablesTyped
<1>5. TablesTyped' /\ LocalsTyped'
  BY <1>1, <1>3, <1>4 DEF TablesTyped, LocalsTyped, Goto, Stages, local
<1>6. CountsTyped' /\ FlagsTyped'
  <2>1. 0 .. Len(trades) \subseteq 0 .. Len(trades')
    BY <1>4
  <2>2. QED
    BY <1>1, <1>3, <2>1 DEF CountsTyped, FlagsTyped
<1>7. QED
  BY <1>5, <1>6, TypeParts

LEMMA SaveAccountTyped ==
  ASSUME TypeOK, NEW x \in Executors, HoldsWhatItNeeds(x), SaveAccount(x)
  PROVE  TypeOK'
<1>1. TablesTyped /\ LocalsTyped /\ CountsTyped /\ FlagsTyped
  BY TypeParts
<1>2. result[x].account \in Balances
  BY DEF HoldsWhatItNeeds, SaveAccount, Outcomes
<1>3. /\ account' = result[x].account /\ version' = version + 1 /\ Finish(x)
      /\ UNCHANGED <<trades, decisions, orders, killSwitch, day>>
      /\ UNCHANGED <<started, resets, faults, armedOrders, lastReset>>
  BY DEF SaveAccount, tables, counters
<1>4. parted' \in BOOLEAN
  BY Zenon DEF SaveAccount
<1>5. TablesTyped' /\ version \in Nat
  BY <1>1, <1>2, <1>3 DEF TablesTyped
<1>6. LocalsTyped'
  BY <1>1, <1>3, <1>5, FinishStaysTyped, LedgerFacts
<1>7. CountsTyped' /\ FlagsTyped'
  BY <1>1, <1>3, <1>4 DEF CountsTyped, FlagsTyped
<1>8. QED
  BY <1>5, <1>6, <1>7, TypeParts

LEMMA ResetAccountTyped ==
  ASSUME TypeOK, ResetAccount
  PROVE  TypeOK'
<1>1. TablesTyped /\ LocalsTyped /\ CountsTyped /\ FlagsTyped
  BY TypeParts
<1>2. PICK a \in Resets :
        account' = a /\ lastReset' = [account |-> a, trades |-> Len(trades)]
  BY Zenon DEF ResetAccount
<1>3. /\ a \in Balances /\ version \in Nat /\ Len(trades) \in Nat
      /\ Len(decisions) \in Nat /\ MaxResets \in Nat
  BY SolventResets, LedgerFacts, LedgerAssumption
<1>4. /\ version' = version + 1 /\ parted' = FALSE /\ resets < MaxResets
      /\ resets' = resets + 1
      /\ UNCHANGED <<trades, decisions, orders, killSwitch, day, pc, local>>
      /\ UNCHANGED <<started, faults, armedOrders>>
  BY DEF ResetAccount, tables
<1>5. TablesTyped'
  BY <1>1, <1>2, <1>3, <1>4 DEF TablesTyped
<1>6. LocalsTyped'
  BY <1>1, <1>3, <1>4, LocalsStayTyped
<1>7. CountsTyped'
  BY <1>1, <1>2, <1>3, <1>4 DEF CountsTyped
<1>8. FlagsTyped'
  BY <1>1, <1>4 DEF FlagsTyped
<1>9. QED
  BY <1>5, <1>6, <1>7, <1>8, TypeParts

LEMMA SetKillSwitchTyped ==
  ASSUME TypeOK, SetKillSwitch
  PROVE  TypeOK'
<1>1. TablesTyped /\ LocalsTyped /\ CountsTyped /\ FlagsTyped
  BY TypeParts
<1>2. /\ armedOrders' = [x \in Executors |-> 0]
      /\ UNCHANGED <<account, version, trades, decisions, orders, day, pc, local>>
      /\ UNCHANGED <<started, resets, faults, lastReset, parted>>
  BY DEF SetKillSwitch, tables, counters
<1>3. killSwitch' \in BOOLEAN
  BY Zenon DEF SetKillSwitch
<1>4. TablesTyped' /\ LocalsTyped' /\ CountsTyped' /\ FlagsTyped'
  BY <1>1, <1>2, <1>3
     DEF TablesTyped, LocalsTyped, CountsTyped, FlagsTyped, local
<1>5. QED
  BY <1>4, TypeParts

LEMMA MidnightTyped ==
  ASSUME TypeOK, Midnight
  PROVE  TypeOK'
<1>1. TablesTyped /\ LocalsTyped /\ CountsTyped /\ FlagsTyped /\ MaxDays \in Nat
  BY TypeParts, LedgerAssumption
<1>2. /\ day < MaxDays /\ day' = day + 1
      /\ UNCHANGED <<account, version, trades, decisions, orders, killSwitch, pc, local>>
      /\ UNCHANGED <<started, resets, faults, armedOrders, lastReset, parted>>
  BY DEF Midnight, tables, counters, memory
<1>3. day' \in 1 .. MaxDays \cup {1}
  BY <1>1, <1>2 DEF CountsTyped
<1>4. TablesTyped' /\ LocalsTyped' /\ CountsTyped' /\ FlagsTyped'
  BY <1>1, <1>2, <1>3
     DEF TablesTyped, LocalsTyped, CountsTyped, FlagsTyped, local
<1>5. QED
  BY <1>4, TypeParts

-----------------------------------------------------------------------------
(* Who changes what.                                                       *)

\* A step of executor x.
Acts(x) ==
  \/ x \in Graded /\ (ReadAccount(x) \/ Decide(x) \/ CheckSafety(x))
  \/ x \in CliRuns /\ ExecuteOnce(x)
  \/ PlaceOrder(x) \/ Refused(x) \/ SaveTrade(x) \/ SaveAccount(x) \/ Abandon(x)

LEMMA NextIsOne ==
  Next => \/ \E x \in Executors : Acts(x)
          \/ RiskOnce \/ ResetAccount \/ SetKillSwitch \/ Midnight
BY DEF Next, Acts, Executors

Untouched(y) ==
  /\ pc'[y] = pc[y] /\ side'[y] = side[y] /\ price'[y] = price[y]
  /\ seen'[y] = seen[y] /\ seenAt'[y] = seenAt[y]
  /\ decision'[y] = decision[y] /\ result'[y] = result[y]

LEMMA FinishClears ==
  ASSUME TypeOK, NEW x \in Executors, Finish(x)
  PROVE  /\ pc'[x] = "idle" /\ seen'[x] = NoAccount /\ result'[x] = NoResult
         /\ side'[x] = "hold" /\ price'[x] = 0 /\ seenAt'[x] = 0 /\ decision'[x] = 0
         /\ \A y \in Executors \ {x} : Untouched(y)
<1>1. LocalsTyped
  BY TypeParts
<1>2. QED
  BY <1>1 DEF LocalsTyped, Finish, Goto, Untouched

LEMMA BeginSets ==
  ASSUME TypeOK, NEW x \in Executors, NEW s, NEW stage, Begin(x, s, stage)
  PROVE  /\ pc[x] = "idle" /\ pc'[x] = stage /\ side'[x] = s /\ price'[x] \in Prices
         /\ seen'[x] = account /\ seenAt'[x] = version
         /\ \A y \in Executors \ {x} :
              /\ pc'[y] = pc[y] /\ side'[y] = side[y] /\ price'[y] = price[y]
              /\ seen'[y] = seen[y] /\ seenAt'[y] = seenAt[y]
<1>1. LocalsTyped
  BY TypeParts
<1>2. PICK p \in Prices : price' = [price EXCEPT ![x] = p]
  BY Zenon DEF Begin
<1>3. QED
  BY <1>1, <1>2 DEF LocalsTyped, Begin, Goto

\* An executor leaves the others, the switch and the day alone.
LEMMA OthersUntouched ==
  ASSUME TypeOK, NEW x \in Executors, Acts(x)
  PROVE  /\ UNCHANGED <<killSwitch, day>>
         /\ \A y \in Executors \ {x} :
              Untouched(y) /\ armedOrders'[y] = armedOrders[y]
<1>1. LocalsTyped /\ CountsTyped
  BY TypeParts
<1>2. CASE ReadAccount(x)
  <2>1. PICK s \in Sides : Begin(x, s, "risk")
    BY <1>2, Zenon DEF ReadAccount
  <2>2. UNCHANGED <<killSwitch, day, decision, result, armedOrders>>
    BY <1>2 DEF ReadAccount, memory
  <2>3. QED
    BY <2>1, <2>2, BeginSets DEF Untouched
<1>3. CASE ExecuteOnce(x)
  <2>1. PICK i \in LatestApproved :
          /\ Begin(x, decisions[i].side, "order")
          /\ decision' = [decision EXCEPT ![x] = i]
    BY <1>3, Zenon DEF ExecuteOnce
  <2>2. UNCHANGED <<killSwitch, day, result, armedOrders>>
    BY <1>3 DEF ExecuteOnce, memory
  <2>3. QED
    BY <1>1, <2>1, <2>2, BeginSets DEF Untouched, LocalsTyped
<1>4. CASE Decide(x)
  <2>1. \/ Finish(x)
        \/ /\ decision' = [decision EXCEPT ![x] = Len(decisions) + 1]
           /\ Goto(x, "safety")
           /\ UNCHANGED <<side, price, seen, seenAt, result>>
    BY <1>4, Zenon DEF Decide
  <2>2. UNCHANGED <<killSwitch, day, armedOrders>>
    BY <1>4 DEF Decide, memory
  <2>3. CASE Finish(x)
    BY <2>2, <2>3, FinishClears
  <2>4. CASE /\ decision' = [decision EXCEPT ![x] = Len(decisions) + 1]
             /\ Goto(x, "safety")
             /\ UNCHANGED <<side, price, seen, seenAt, result>>
    BY <1>1, <2>2, <2>4 DEF Untouched, Goto, LocalsTyped
  <2>5. QED
    BY <2>1, <2>3, <2>4
<1>5. CASE CheckSafety(x)
  <2>1. UNCHANGED <<killSwitch, day, armedOrders>>
    BY <1>5 DEF CheckSafety, memory
  <2>2. CASE Finish(x)
    BY <2>1, <2>2, FinishClears
  <2>3. CASE Goto(x, "order") /\ UNCHANGED local
    BY <1>1, <2>1, <2>3 DEF Untouched, Goto, LocalsTyped, local
  <2>4. QED
    BY <1>5, <2>2, <2>3 DEF CheckSafety
<1>6. CASE PlaceOrder(x)
  <2>1. /\ DOMAIN pc = Executors /\ DOMAIN result = Executors
        /\ DOMAIN armedOrders = Executors
    BY <1>1 DEF LocalsTyped, CountsTyped
  <2>2. QED
    BY <1>6, <2>1 DEF PlaceOrder, Goto, Untouched
<1>7. CASE SaveTrade(x)
  BY <1>1, <1>7 DEF SaveTrade, Goto, LocalsTyped, Untouched, local, memory
<1>8. CASE Refused(x) \/ SaveAccount(x) \/ Abandon(x)
  <2>1. Finish(x) /\ UNCHANGED <<killSwitch, day, armedOrders>>
    BY <1>8 DEF Refused, SaveAccount, Abandon, memory
  <2>2. QED
    BY <2>1, FinishClears
<1>9. QED
  BY <1>2, <1>3, <1>4, <1>5, <1>6, <1>7, <1>8 DEF Acts

-----------------------------------------------------------------------------
(* The inductive invariant.                                                *)

LEMMA UntouchedKeeps ==
  ASSUME NEW y \in Executors, ExecutorInv(y), Untouched(y),
         killSwitch' => killSwitch /\ armedOrders'[y] = armedOrders[y]
  PROVE  ExecutorInv(y)'
<1>1. HoldsWhatItNeeds(y)' /\ SeesNoDebt(y)'
  BY DEF ExecutorInv, Untouched, HoldsWhatItNeeds, SeesNoDebt
<1>2. CanPay(y)'
  BY DEF ExecutorInv, Untouched, CanPay
<1>3. Drains(y)'
  BY DEF ExecutorInv, Untouched, Drains
<1>4. QED
  BY <1>1, <1>2, <1>3 DEF ExecutorInv

LEMMA FinishKeeps ==
  ASSUME TypeOK, NEW x \in Executors, ExecutorInv(x), Finish(x),
         UNCHANGED <<killSwitch, armedOrders>>
  PROVE  ExecutorInv(x)'
<1>1. /\ pc'[x] = "idle" /\ seen'[x] = NoAccount /\ result'[x] = NoResult
  BY FinishClears
<1>2. Solvent(NoAccount) /\ Solvent(NoResult.account)
  BY DEF Solvent, NoAccount, NoResult
<1>3. HoldsWhatItNeeds(x)' /\ SeesNoDebt(x)' /\ CanPay(x)'
  BY <1>1, <1>2 DEF HoldsWhatItNeeds, SeesNoDebt, CanPay
<1>4. Drains(x)'
  BY <1>1 DEF ExecutorInv, Drains
<1>5. QED
  BY <1>3, <1>4 DEF ExecutorInv

\* The actor's own part.
LEMMA BeginKeeps ==
  ASSUME TypeOK, Solvent(account), NEW x \in Executors, ExecutorInv(x),
         NEW s \in Sides, NEW stage \in {"risk", "order"}, Begin(x, s, stage),
         stage = "order" => x \notin Graded /\ decision'[x] # 0,
         UNCHANGED <<result, killSwitch, armedOrders>>
  PROVE  ExecutorInv(x)'
<1>1. /\ pc'[x] = stage /\ side'[x] = s /\ price'[x] \in Prices
      /\ seen'[x] = account
  BY BeginSets
<1>2. HoldsWhatItNeeds(x)' /\ SeesNoDebt(x)' /\ CanPay(x)'
  BY <1>1 DEF ExecutorInv, HoldsWhatItNeeds, SeesNoDebt, CanPay
<1>3. Drains(x)'
  BY <1>1 DEF ExecutorInv, Drains
<1>4. QED
  BY <1>2, <1>3 DEF ExecutorInv

\* An approved signal is one the engine can fill: the context of a decision
\* holds the amount, the price and the balances the engine will use.
LEMMA DecideKeeps ==
  ASSUME TypeOK, NEW x \in Graded, ExecutorInv(x), Decide(x)
  PROVE  ExecutorInv(x)'
<1>1. LocalsTyped /\ x \in Executors /\ Len(decisions) \in Nat
  BY TypeParts, LedgerFacts DEF Executors
<1>2. PICK stats \in BOOLEAN, idle \in Idleness :
        LET approved ==
              Approves(Risk, Signal(side[x]), RiskContext(x, stats, idle))
        IN  /\ stats \/ faults < MaxFaults
            /\ faults' = IF stats THEN faults ELSE faults + 1
            /\ SaveDecision(side[x], approved)
            /\ \/ /\ approved
                  /\ decision' = [decision EXCEPT ![x] = Len(decisions) + 1]
                  /\ Goto(x, "safety")
                  /\ UNCHANGED <<side, price, seen, seenAt, result>>
               \/ ~approved /\ Finish(x)
  BY Zenon DEF Decide
<1>3. UNCHANGED <<killSwitch, armedOrders>>
  BY DEF Decide, memory
<1>4. CASE Finish(x)
  BY <1>1, <1>3, <1>4, FinishKeeps
<1>5. CASE /\ Approves(Risk, Signal(side[x]), RiskContext(x, stats, idle))
           /\ decision' = [decision EXCEPT ![x] = Len(decisions) + 1]
           /\ Goto(x, "safety")
           /\ UNCHANGED <<side, price, seen, seenAt, result>>
  <2> DEFINE c == RiskContext(x, stats, idle)
  <2>1. /\ pc'[x] = "safety" /\ decision'[x] = Len(decisions) + 1
        /\ side'[x] = side[x] /\ price'[x] = price[x]
        /\ seen'[x] = seen[x] /\ result'[x] = result[x]
    BY <1>1, <1>5 DEF LocalsTyped, Goto
  <2>2. /\ side[x] \in Sides /\ price[x] \in Prices /\ price[x] \in Nat \ {0}
        /\ seen[x] \in Balances /\ Solvent(seen[x])
    BY <1>1, PriceFacts, LedgerFacts
       DEF Decide, ExecutorInv, HoldsWhatItNeeds, SeesNoDebt
  <2>3. ~Unfunded(Signal(side[x]), c)
    BY <1>5, Zenon DEF Approves, Rejects
  <2>4. /\ c.quoteAmount = Engine.quoteOrderAmount /\ c.price = price[x]
        /\ c.base = seen[x].base /\ c.quote = seen[x].quote
    BY DEF RiskContext, EmptyContext
  <2>5. Funded(Engine, side[x], price[x], seen[x])
    <3> HIDE DEF c
    <3>1. QED
      BY <2>2, <2>3, <2>4, ApprovedIsFunded
  <2>6. HoldsWhatItNeeds(x)' /\ SeesNoDebt(x)'
    BY <1>1, <2>1, <2>2 DEF ExecutorInv, HoldsWhatItNeeds, SeesNoDebt
  <2>7. CanPay(x)'
    BY <2>1, <2>5 DEF CanPay
  <2>8. Drains(x)'
    BY <1>3, <2>1 DEF ExecutorInv, Drains
  <2>9. QED
    BY <2>6, <2>7, <2>8 DEF ExecutorInv
<1>6. QED
  BY <1>2, <1>4, <1>5

\* An armed switch stops whoever has not passed it; none that has passed it
\* since can have placed an order under it.
LEMMA CheckSafetyKeeps ==
  ASSUME TypeOK, NEW x \in Graded, ExecutorInv(x), CheckSafety(x)
  PROVE  ExecutorInv(x)'
<1>1. /\ LocalsTyped /\ x \in Executors /\ pc[x] = "safety"
      /\ UNCHANGED <<killSwitch, armedOrders>>
  BY TypeParts DEF Executors, CheckSafety, memory
<1>2. CASE Finish(x)
  BY <1>1, <1>2, FinishKeeps
<1>3. CASE ~killSwitch /\ Goto(x, "order") /\ UNCHANGED local
  <2>1. /\ pc'[x] = "order" /\ side'[x] = side[x] /\ price'[x] = price[x]
        /\ seen'[x] = seen[x] /\ decision'[x] = decision[x] /\ result'[x] = result[x]
    BY <1>1, <1>3 DEF LocalsTyped, Goto, local
  <2>2. HoldsWhatItNeeds(x)' /\ SeesNoDebt(x)' /\ CanPay(x)'
    BY <1>1, <2>1 DEF ExecutorInv, HoldsWhatItNeeds, SeesNoDebt, CanPay
  <2>3. Drains(x)'
    BY <1>1, <1>3 DEF Drains
  <2>4. QED
    BY <2>2, <2>3 DEF ExecutorInv
<1>4. QED
  BY <1>2, <1>3 DEF CheckSafety

LEMMA PlaceOrderKeeps ==
  ASSUME TypeOK, NEW x \in Executors, ExecutorInv(x), PlaceOrder(x)
  PROVE  ExecutorInv(x)'
<1>1. LocalsTyped /\ CountsTyped /\ armedOrders[x] \in Nat
  BY TypeParts, LedgerFacts
<1>2. /\ pc[x] = "order" /\ pc'[x] = "trade" /\ armedOrders'[x] = armedOrders[x] + 1
      /\ side'[x] = side[x] /\ price'[x] = price[x] /\ seen'[x] = seen[x]
      /\ killSwitch' = killSwitch
  <2>1. DOMAIN pc = Executors /\ DOMAIN armedOrders = Executors
    BY <1>1 DEF LocalsTyped, CountsTyped
  <2>2. QED
    BY <2>1 DEF PlaceOrder, Goto
<1>3. result'[x] \in Outcomes /\ Solvent(result'[x].account)
  BY PlaceOrderTyped DEF ExecutorInv
<1>4. HoldsWhatItNeeds(x)' /\ SeesNoDebt(x)' /\ CanPay(x)'
  BY <1>2, <1>3 DEF ExecutorInv, HoldsWhatItNeeds, SeesNoDebt, CanPay
<1>5. Drains(x)'
  BY <1>1, <1>2 DEF ExecutorInv, Drains
<1>6. QED
  BY <1>4, <1>5 DEF ExecutorInv

LEMMA SaveTradeKeeps ==
  ASSUME TypeOK, NEW x \in Executors, ExecutorInv(x), SaveTrade(x)
  PROVE  ExecutorInv(x)'
<1>1. LocalsTyped
  BY TypeParts
<1>2. /\ pc[x] = "trade" /\ pc'[x] = "account"
      /\ UNCHANGED <<local, killSwitch, armedOrders>>
  BY <1>1 DEF SaveTrade, LocalsTyped, Goto, memory
<1>3. HoldsWhatItNeeds(x)' /\ SeesNoDebt(x)' /\ CanPay(x)'
  BY <1>2 DEF ExecutorInv, HoldsWhatItNeeds, SeesNoDebt, CanPay, local
<1>4. Drains(x)'
  BY <1>2 DEF ExecutorInv, Drains
<1>5. QED
  BY <1>3, <1>4 DEF ExecutorInv

LEMMA ActsKeep ==
  ASSUME LedgerInv, NEW x \in Executors, Acts(x)
  PROVE  LedgerInv'
<1>1. TypeOK /\ Solvent(account) /\ ExecutorInv(x) /\ HoldsWhatItNeeds(x)
      /\ SeesNoDebt(x)
  BY DEF LedgerInv, ExecutorInv
<1>2. \A y \in Executors \ {x} : ExecutorInv(y)'
  BY <1>1, OthersUntouched, UntouchedKeeps DEF LedgerInv
<1>3. CASE x \in Graded /\ ReadAccount(x)
  <2>1. PICK s \in Sides : Begin(x, s, "risk")
    BY <1>3, Zenon DEF ReadAccount
  <2>2. UNCHANGED <<account, result, killSwitch, armedOrders>>
    BY <1>3 DEF ReadAccount, memory
  <2>3. ExecutorInv(x)'
    BY <1>1, <2>1, <2>2, BeginKeeps
  <2>4. TypeOK'
    BY <1>1, <1>3, ReadAccountTyped
  <2>5. QED
    BY <1>1, <1>2, <2>2, <2>3, <2>4 DEF LedgerInv, Solvent
<1>4. CASE x \in CliRuns /\ ExecuteOnce(x)
  <2>1. PICK i \in LatestApproved :
          /\ Begin(x, decisions[i].side, "order")
          /\ decision' = [decision EXCEPT ![x] = i]
    BY <1>4, Zenon DEF ExecuteOnce
  <2>2. UNCHANGED <<account, result, killSwitch, armedOrders>>
    BY <1>4 DEF ExecuteOnce, memory
  <2>3. i \in 1 .. Len(decisions) /\ decisions[i].side \in Sides
    <3>1. i \in 1 .. Len(decisions)
      BY <2>1, Zenon DEF LatestApproved
    <3>2. decisions[i] \in Decision
      BY <1>1, <3>1, LedgerFacts
    <3>3. QED
      BY <3>1, <3>2 DEF Decision
  <2>4. decision'[x] # 0 /\ x \notin Graded
    BY <1>1, <1>4, <2>1, <2>3, TypeParts, LedgerAssumption DEF LocalsTyped
  <2>5. ExecutorInv(x)'
    BY <1>1, <2>1, <2>2, <2>3, <2>4, BeginKeeps
  <2>6. TypeOK'
    BY <1>1, <1>4, ExecuteOnceTyped
  <2>7. QED
    BY <1>1, <1>2, <2>2, <2>5, <2>6 DEF LedgerInv, Solvent
<1>5. CASE x \in Graded /\ Decide(x)
  <2>1. TypeOK' /\ ExecutorInv(x)' /\ UNCHANGED account
    BY <1>1, <1>5, DecideTyped, DecideKeeps DEF Decide
  <2>2. QED
    BY <1>1, <1>2, <2>1 DEF LedgerInv, Solvent
<1>6. CASE x \in Graded /\ CheckSafety(x)
  <2>1. TypeOK' /\ ExecutorInv(x)' /\ UNCHANGED account
    BY <1>1, <1>6, CheckSafetyTyped, CheckSafetyKeeps DEF CheckSafety
  <2>2. QED
    BY <1>1, <1>2, <2>1 DEF LedgerInv, Solvent
<1>7. CASE PlaceOrder(x)
  <2>1. TypeOK' /\ ExecutorInv(x)' /\ UNCHANGED account
    BY <1>1, <1>7, PlaceOrderTyped, PlaceOrderKeeps DEF PlaceOrder
  <2>2. QED
    BY <1>1, <1>2, <2>1 DEF LedgerInv, Solvent
<1>8. CASE SaveTrade(x)
  <2>1. TypeOK' /\ ExecutorInv(x)' /\ UNCHANGED account
    BY <1>1, <1>8, SaveTradeTyped, SaveTradeKeeps DEF SaveTrade
  <2>2. QED
    BY <1>1, <1>2, <2>1 DEF LedgerInv, Solvent
<1>9. CASE Refused(x) \/ Abandon(x)
  <2>1. TypeOK' /\ Finish(x) /\ UNCHANGED <<account, killSwitch, armedOrders>>
    BY <1>1, <1>9, RefusedTyped, AbandonTyped DEF Refused, Abandon, memory
  <2>2. ExecutorInv(x)'
    BY <1>1, <2>1, FinishKeeps
  <2>3. QED
    BY <1>1, <1>2, <2>1, <2>2 DEF LedgerInv, Solvent
<1>10. CASE SaveAccount(x)
  <2>1. /\ TypeOK' /\ Finish(x) /\ account' = result[x].account
        /\ UNCHANGED <<killSwitch, armedOrders>>
    BY <1>1, <1>10, SaveAccountTyped DEF SaveAccount
  <2>2. ExecutorInv(x)' /\ Solvent(account)'
    BY <1>1, <2>1, FinishKeeps DEF SeesNoDebt, Solvent
  <2>3. QED
    BY <1>2, <2>1, <2>2 DEF LedgerInv
<1>11. QED
  BY <1>3, <1>4, <1>5, <1>6, <1>7, <1>8, <1>9, <1>10 DEF Acts

\* The steps of cmd/risk, of the operator and of the clock.
LEMMA OthersKeep ==
  ASSUME LedgerInv, RiskOnce \/ ResetAccount \/ SetKillSwitch \/ Midnight
  PROVE  LedgerInv'
<1>1. TypeOK /\ LocalsTyped /\ Solvent(account)
  BY TypeParts DEF LedgerInv
<1>2. \A y \in Executors : Untouched(y)
  BY DEF RiskOnce, ResetAccount, SetKillSwitch, Midnight, Untouched, local
<1>3. CASE RiskOnce \/ Midnight
  <2>1. UNCHANGED <<account, killSwitch, armedOrders>>
    BY <1>3 DEF RiskOnce, Midnight, memory
  <2>2. \A y \in Executors : ExecutorInv(y)'
    BY <1>2, <2>1, UntouchedKeeps DEF LedgerInv
  <2>3. TypeOK'
    BY <1>1, <1>3, RiskOnceTyped, MidnightTyped
  <2>4. QED
    BY <1>1, <2>1, <2>2, <2>3 DEF LedgerInv, Solvent
<1>4. CASE ResetAccount
  <2>1. PICK a \in Resets : account' = a
    BY <1>4, Zenon DEF ResetAccount
  <2>2. UNCHANGED <<killSwitch, armedOrders>> /\ Solvent(account)'
    BY <1>4, <2>1, SolventResets DEF ResetAccount, Solvent
  <2>3. \A y \in Executors : ExecutorInv(y)'
    BY <1>2, <2>2, UntouchedKeeps DEF LedgerInv
  <2>4. QED
    BY <1>1, <1>4, <2>2, <2>3, ResetAccountTyped DEF LedgerInv
<1>5. CASE SetKillSwitch
  <2>1. /\ armedOrders' = [x \in Executors |-> 0] /\ UNCHANGED account
    BY <1>5 DEF SetKillSwitch
  <2>2. ASSUME NEW y \in Executors PROVE ExecutorInv(y)'
    <3>1. ExecutorInv(y) /\ Untouched(y)
      BY <1>2 DEF LedgerInv
    <3>2. HoldsWhatItNeeds(y)' /\ SeesNoDebt(y)' /\ CanPay(y)'
      BY <3>1 DEF ExecutorInv, Untouched, HoldsWhatItNeeds, SeesNoDebt, CanPay
    <3>3. Drains(y)'
      BY <2>1 DEF Drains
    <3>4. QED
      BY <3>2, <3>3 DEF ExecutorInv
  <2>3. QED
    BY <1>1, <1>5, <2>1, <2>2, SetKillSwitchTyped DEF LedgerInv, Solvent
<1>6. QED
  BY <1>3, <1>4, <1>5

\* The ledger's invariant: whatever runs, cycles, one-shot executions, resets,
\* switches and failures interleave, it holds in every reachable state.
THEOREM LedgerInvariant == Spec => []LedgerInv
<1>1. Init => LedgerInv
  <2>1. SUFFICES ASSUME Init PROVE LedgerInv
    OBVIOUS
  <2>2. Solvent(account)
    BY <2>1, SolventResets DEF Init
  <2>3. ASSUME NEW x \in Executors PROVE ExecutorInv(x)
    <3>1. /\ pc[x] = "idle" /\ seen[x] = NoAccount /\ result[x] = NoResult
          /\ armedOrders[x] = 0
      BY <2>1 DEF Init
    <3>2. Solvent(NoAccount) /\ Solvent(NoResult.account)
      BY DEF Solvent, NoAccount, NoResult
    <3>3. QED
      BY <3>1, <3>2
         DEF ExecutorInv, HoldsWhatItNeeds, SeesNoDebt, CanPay, Drains
  <2>4. QED
    BY <2>1, <2>2, <2>3, InitTypes DEF LedgerInv
<1>2. LedgerInv /\ [Next]_vars => LedgerInv'
  <2>1. SUFFICES ASSUME LedgerInv, [Next]_vars PROVE LedgerInv'
    OBVIOUS
  <2>2. CASE Next
    BY <2>1, <2>2, NextIsOne, ActsKeep, OthersKeep
  <2>3. CASE UNCHANGED vars
    <3>1. TypeOK' /\ Solvent(account)'
      BY <2>1, <2>3
         DEF LedgerInv, TypeOK, Solvent, vars, tables, local, counters, memory
    <3>2. \A x \in Executors : ExecutorInv(x)'
      BY <2>1, <2>3, UntouchedKeeps
         DEF LedgerInv, Untouched, vars, local, memory
    <3>3. QED
      BY <3>1, <3>2 DEF LedgerInv
  <2>4. QED
    BY <2>1, <2>2, <2>3
<1>3. QED
  BY <1>1, <1>2, PTL DEF Spec

\* Every variable of the ledger keeps its type.
THEOREM LedgerTypes == Spec => []TypeOK
<1>1. LedgerInv => TypeOK
  BY DEF LedgerInv
<1>2. QED
  BY <1>1, LedgerInvariant, PTL

\* The stored balances are never negative, whichever save is the last.
THEOREM NeverInDebt == Spec => []BalancesNeverNegative
<1>1. LedgerInv => BalancesNeverNegative
  BY DEF LedgerInv, Solvent, BalancesNeverNegative
<1>2. QED
  BY <1>1, LedgerInvariant, PTL

\* Once the kill switch is armed, a run or a cycle places at most the order it
\* was cleared for before.
THEOREM SwitchDrains == Spec => []KillSwitchDrains
<1>1. LedgerInv => KillSwitchDrains
  BY DEF LedgerInv, ExecutorInv, Drains, KillSwitchDrains, Executors
<1>2. QED
  BY <1>1, LedgerInvariant, PTL

\* What the risk rules approved for a run or a cycle, the engine can fill.
THEOREM ApprovedIsFilled == Spec => []ApprovedOrdersFill
<1>1. LedgerInv => ApprovedOrdersFill
  BY DEF LedgerInv, ExecutorInv, CanPay, ApprovedOrdersFill, Executors
<1>2. QED
  BY <1>1, LedgerInvariant, PTL

-----------------------------------------------------------------------------
(* The daily cap.                                                          *)

LEMMA GradedFinite ==
  IsFiniteSet(Graded) /\ Cardinality(Graded) \in Nat
<1>1. IsFiniteSet(Executors) /\ Graded \in SUBSET Executors
  BY LedgerAssumption DEF Executors
<1>2. QED
  BY <1>1, FS_Subset, FS_CardinalityType

LEMMA AdmittedFinite ==
  ASSUME NEW d
  PROVE  /\ IsFiniteSet(Admitted(d)) /\ Cardinality(Admitted(d)) \in Nat
         /\ Cardinality(Admitted(d)) <= Cardinality(Graded)
         /\ IsFiniteSet(Admitted(d)') /\ Cardinality(Admitted(d)') \in Nat
         /\ Cardinality(Admitted(d)') <= Cardinality(Graded)
<1>1. Admitted(d) \in SUBSET Graded /\ Admitted(d)' \in SUBSET Graded
  BY DEF Admitted
<1>2. QED
  BY <1>1, GradedFinite, FS_Subset, FS_CardinalityType

LEMMA TradesOnFinite ==
  ASSUME NEW d, Len(trades) \in Nat
  PROVE  IsFiniteSet(TradesOn(d)) /\ Cardinality(TradesOn(d)) \in Nat
<1>1. TradesOn(d) \in SUBSET (1 .. Len(trades))
  BY DEF TradesOn
<1>2. IsFiniteSet(1 .. Len(trades))
  BY FS_Interval
<1>3. QED
  BY <1>1, <1>2, FS_Subset, FS_CardinalityType

\* A stored trade is dated no later than today, and so is one about to be.
LEMMA DatesStep ==
  ASSUME LedgerInv, DatesInv, [Next]_vars
  PROVE  DatesInv'
<1>1. TypeOK /\ LocalsTyped /\ trades \in Seq(Trade) /\ day \in Nat \ {0}
  BY TypeParts, LedgerFacts DEF LedgerInv
<1>2. ASSUME trades' = trades, day' \in Nat, day <= day',
             \A x \in Executors :
               pc'[x] = "trade" => pc[x] = "trade" /\ result'[x] = result[x]
      PROVE  DatesInv'
  BY <1>1, <1>2 DEF DatesInv
<1>3. ASSUME NEW x \in Executors, Acts(x) PROVE DatesInv'
  <2>1. /\ UNCHANGED day
        /\ \A y \in Executors \ {x} : Untouched(y)
    BY <1>1, <1>3, OthersUntouched
  <2>2. CASE PlaceOrder(x)
    <3>1. result'[x].trade.day = day /\ UNCHANGED trades
      BY <1>1, <2>2 DEF PlaceOrder, TradeOf, LocalsTyped
    <3>2. \A y \in Executors \ {x} : pc'[y] = pc[y] /\ result'[y] = result[y]
      BY <2>1 DEF Untouched
    <3>3. QED
      BY <1>1, <2>1, <3>1, <3>2 DEF DatesInv
  <2>3. CASE SaveTrade(x)
    <3>1. trades' = Append(trades, result[x].trade) /\ pc[x] = "trade"
      BY <2>3 DEF SaveTrade
    <3>2. pc'[x] = "account" /\ result' = result
      BY <1>1, <2>3 DEF SaveTrade, Goto, LocalsTyped, local
    <3>3. \A y \in Executors \ {x} : pc'[y] = pc[y]
      BY <2>1 DEF Untouched
    <3>4. /\ Len(trades') = Len(trades) + 1 /\ Len(trades) \in Nat
          /\ \A i \in 1 .. Len(trades) : trades'[i] = trades[i]
          /\ trades'[Len(trades) + 1] = result[x].trade
      BY <1>1, <3>1, AppendFacts
    <3>5. \A i \in 1 .. Len(trades') : trades'[i].day \in 1 .. day
      <4>1. \A i \in 1 .. Len(trades') : i \in 1 .. Len(trades) \/ i = Len(trades) + 1
        BY <3>4
      <4>2. QED
        BY <3>1, <3>4, <4>1 DEF DatesInv
    <3>6. \A y \in Executors : pc'[y] = "trade" => result'[y].trade.day \in 1 .. day
      BY <3>2, <3>3 DEF DatesInv
    <3>7. QED
      BY <2>1, <3>5, <3>6 DEF DatesInv
  <2>4. CASE ~PlaceOrder(x) /\ ~SaveTrade(x)
    <3>1. UNCHANGED trades /\ pc'[x] # "trade"
      <4>1. CASE ReadAccount(x)
        <5>1. PICK s \in Sides : Begin(x, s, "risk")
          BY <4>1, Zenon DEF ReadAccount
        <5>2. QED
          BY <1>1, <4>1, <5>1, BeginSets DEF ReadAccount, tables
      <4>2. CASE ExecuteOnce(x)
        <5>1. PICK i \in LatestApproved : Begin(x, decisions[i].side, "order")
          BY <4>2, Zenon DEF ExecuteOnce
        <5>2. QED
          BY <1>1, <4>2, <5>1, BeginSets DEF ExecuteOnce, tables
      <4>3. CASE Decide(x)
        <5>1. Finish(x) \/ Goto(x, "safety")
          BY <4>3, Zenon DEF Decide
        <5>2. QED
          BY <1>1, <4>3, <5>1, FinishClears DEF Decide, Goto, LocalsTyped
      <4>4. CASE CheckSafety(x)
        <5>1. Finish(x) \/ Goto(x, "order")
          BY <4>4, Zenon DEF CheckSafety
        <5>2. QED
          BY <1>1, <4>4, <5>1, FinishClears DEF CheckSafety, Goto, LocalsTyped, tables
      <4>5. CASE Refused(x) \/ SaveAccount(x) \/ Abandon(x)
        BY <1>1, <4>5, FinishClears DEF Refused, SaveAccount, Abandon, tables
      <4>6. QED
        BY <1>3, <2>4, <4>1, <4>2, <4>3, <4>4, <4>5 DEF Acts
    <3>2. \A y \in Executors :
            pc'[y] = "trade" => pc[y] = "trade" /\ result'[y] = result[y]
      BY <2>1, <3>1 DEF Untouched
    <3>3. QED
      BY <1>1, <1>2, <2>1, <3>1, <3>2
  <2>5. QED
    BY <2>2, <2>3, <2>4
<1>4. CASE RiskOnce \/ ResetAccount \/ SetKillSwitch \/ Midnight \/ UNCHANGED vars
  <2>1. UNCHANGED <<trades, pc, result>>
    BY <1>4
       DEF RiskOnce, ResetAccount, SetKillSwitch, Midnight, vars, tables, local
  <2>2. day' \in Nat /\ day <= day'
    BY <1>1, <1>4 DEF RiskOnce, ResetAccount, SetKillSwitch, Midnight, vars
  <2>3. QED
    BY <1>2, <2>1, <2>2
<1>5. QED
  BY <1>3, <1>4, NextIsOne

\* A day stays capped while no one is admitted to it and no trade stored.
LEMMA CapStays ==
  ASSUME NEW d, Capped(d), UNCHANGED trades, Admitted(d)' \subseteq Admitted(d),
         Len(trades) \in Nat, faults \in Nat, faults' \in Nat, faults <= faults',
         Risk.maxDailyTrades \in Int
  PROVE  Capped(d)'
<1>1. TradesOn(d)' = TradesOn(d)
  BY DEF TradesOn
<1>2. Cardinality(Admitted(d)') <= Cardinality(Admitted(d))
  BY AdmittedFinite, FS_Subset
<1>3. QED
  BY <1>1, <1>2, AdmittedFinite, TradesOnFinite, GradedFinite DEF Capped

\* Whoever is admitted anew was counted, or cost a fault.
LEMMA DecideCaps ==
  ASSUME LedgerInv, NEW x \in Graded, Decide(x), NEW d \in 1 .. day, Capped(d),
         Risk.maxDailyTrades \in Int, Risk.maxDailyTrades > 0
  PROVE  Capped(d)'
<1>1. /\ TypeOK /\ LocalsTyped /\ x \in Executors /\ Len(trades) \in Nat
      /\ faults \in Nat /\ faults' \in Nat
  <2>1. /\ TypeOK /\ LocalsTyped /\ x \in Executors /\ Len(trades) \in Nat
        /\ faults \in Nat
    BY TypeParts, LedgerFacts DEF LedgerInv, Executors
  <2>2. faults' = faults \/ faults' = faults + 1
    BY Zenon DEF Decide
  <2>3. QED
    BY <2>1, <2>2
<1>2. PICK stats \in BOOLEAN, idle \in Idleness :
        LET approved ==
              Approves(Risk, Signal(side[x]), RiskContext(x, stats, idle))
        IN  /\ stats \/ faults < MaxFaults
            /\ faults' = IF stats THEN faults ELSE faults + 1
            /\ SaveDecision(side[x], approved)
            /\ \/ /\ approved
                  /\ decision' = [decision EXCEPT ![x] = Len(decisions) + 1]
                  /\ Goto(x, "safety")
                  /\ UNCHANGED <<side, price, seen, seenAt, result>>
               \/ ~approved /\ Finish(x)
  BY Zenon DEF Decide
<1>3. /\ UNCHANGED <<trades, day>> /\ TradesOn(d)' = TradesOn(d)
      /\ pc[x] = "risk"
      /\ \A y \in Executors \ {x} : Untouched(y)
  BY <1>1, OthersUntouched DEF Acts, Decide, TradesOn
<1>4. Admitted(d)' \subseteq Admitted(d) \cup {x}
  BY <1>3 DEF Admitted, Untouched, Executors
<1>5. CASE ~stats
  <2>1. faults' = faults + 1
    BY <1>2, <1>5
  <2>2. Cardinality(Admitted(d)') <= Cardinality(Admitted(d)) + 1
    <3>1. /\ IsFiniteSet(Admitted(d) \cup {x})
          /\ Cardinality(Admitted(d) \cup {x}) <= Cardinality(Admitted(d)) + 1
      <4>1. IsFiniteSet(Admitted(d)) /\ Cardinality(Admitted(d)) \in Nat
        BY AdmittedFinite
      <4>2. QED
        BY <4>1, FS_AddElement
    <3>2. Cardinality(Admitted(d)') <= Cardinality(Admitted(d) \cup {x})
      BY <1>4, <3>1, FS_Subset
    <3>3. Cardinality(Admitted(d) \cup {x}) \in Nat
      BY <3>1, FS_CardinalityType
    <3>4. QED
      BY <3>1, <3>2, <3>3, AdmittedFinite
  <2>3. QED
    BY <1>1, <1>3, <2>1, <2>2, AdmittedFinite, TradesOnFinite, GradedFinite
       DEF Capped
<1>6. CASE stats /\ Finish(x)
  <2>1. pc'[x] = "idle"
    BY <1>1, <1>6, FinishClears
  <2>2. Admitted(d)' \subseteq Admitted(d)
    BY <1>4, <2>1 DEF Admitted
  <2>3. QED
    BY <1>1, <1>2, <1>3, <1>6, <2>2, CapStays
<1>7. CASE /\ stats /\ Goto(x, "safety")
           /\ Approves(Risk, Signal(side[x]), RiskContext(x, stats, idle))
  <2>1. pc'[x] = "safety" /\ faults' = faults
    BY <1>1, <1>2, <1>7 DEF Goto, LocalsTyped
  <2>2. CASE d # day
    <3>1. Admitted(d)' \subseteq Admitted(d)
      BY <1>3, <1>4, <2>1, <2>2 DEF Admitted
    <3>2. QED
      BY <1>1, <1>3, <2>1, <3>1, CapStays
  <2>3. CASE d = day
    <3>1. ~Reached(RiskContext(x, stats, idle).dailyTrades, Risk.maxDailyTrades)
      BY <1>7, Zenon DEF Approves, Rejects
    <3>2. RiskContext(x, stats, idle).dailyTrades = Cardinality(TradesOn(day))
      BY <1>7 DEF RiskContext, EmptyContext
    <3>3. Cardinality(TradesOn(d)) < Risk.maxDailyTrades
      BY <1>1, <2>3, <3>1, <3>2, TradesOnFinite DEF Reached
    <3>4. QED
      BY <1>1, <1>3, <2>1, <3>3, AdmittedFinite, TradesOnFinite, GradedFinite
         DEF Capped
  <2>4. QED
    BY <2>2, <2>3
<1>8. QED
  BY <1>2, <1>5, <1>6, <1>7

\* Who stores a trade was counted before as admitted.
LEMMA SaveTradeCaps ==
  ASSUME LedgerInv, NEW x \in Graded, SaveTrade(x), NEW d \in 1 .. day, Capped(d),
         Risk.maxDailyTrades \in Int
  PROVE  Capped(d)'
<1>1. /\ TypeOK /\ LocalsTyped /\ x \in Executors /\ trades \in Seq(Trade)
      /\ Len(trades) \in Nat /\ faults \in Nat
  BY TypeParts, LedgerFacts DEF LedgerInv, Executors
<1>2. /\ trades' = Append(trades, result[x].trade)
      /\ pc[x] = "trade" /\ pc'[x] = "account"
      /\ UNCHANGED <<result, faults, day>>
      /\ \A y \in Executors \ {x} : Untouched(y)
  <2>1. \A y \in Executors \ {x} : Untouched(y)
    BY <1>1, OthersUntouched DEF Acts
  <2>2. QED
    BY <1>1, <2>1 DEF SaveTrade, Goto, LocalsTyped, local, counters
<1>3. /\ Len(trades') = Len(trades) + 1
      /\ \A i \in 1 .. Len(trades) : trades'[i] = trades[i]
      /\ trades'[Len(trades) + 1] = result[x].trade
  BY <1>1, <1>2, AppendFacts
<1>4. /\ x \notin Admitted(d)'
      /\ Admitted(d)' \subseteq Admitted(d)
  BY <1>2 DEF Admitted, Untouched, Executors
<1>5. CASE result[x].trade.day = d
  <2>1. TradesOn(d)' = TradesOn(d) \cup {Len(trades) + 1}
    BY <1>1, <1>3, <1>5 DEF TradesOn
  <2>2. Cardinality(TradesOn(d)') <= Cardinality(TradesOn(d)) + 1
    <3>1. IsFiniteSet(TradesOn(d)) /\ Cardinality(TradesOn(d)) \in Nat
      BY <1>1, TradesOnFinite
    <3>2. PICK n : n = Len(trades) + 1
      OBVIOUS
    <3>3. Cardinality(TradesOn(d) \cup {n}) <= Cardinality(TradesOn(d)) + 1
      BY <3>1, FS_AddElement
    <3>4. QED
      BY <2>1, <3>2, <3>3
  <2>3. x \in Admitted(d)
    BY <1>2, <1>5 DEF Admitted
  <2>4. /\ IsFiniteSet(Admitted(d) \ {x})
        /\ Cardinality(Admitted(d) \ {x}) = Cardinality(Admitted(d)) - 1
    BY <2>3, AdmittedFinite, FS_RemoveElement
  <2>5. Admitted(d)' \in SUBSET (Admitted(d) \ {x})
    BY <1>4
  <2>6. Cardinality(Admitted(d)') <= Cardinality(Admitted(d)) - 1
    BY <2>4, <2>5, FS_Subset
  <2>7. Cardinality(TradesOn(d)') \in Nat
    BY <1>1, <2>1, TradesOnFinite, FS_AddElement, FS_CardinalityType
  <2>8. QED
    BY <1>1, <1>2, <2>2, <2>6, <2>7, AdmittedFinite, TradesOnFinite, GradedFinite
       DEF Capped
<1>6. CASE result[x].trade.day # d
  <2>1. TradesOn(d)' = TradesOn(d)
    BY <1>1, <1>3, <1>6 DEF TradesOn
  <2>2. Cardinality(Admitted(d)') <= Cardinality(Admitted(d))
    BY <1>4, AdmittedFinite, FS_Subset
  <2>3. QED
    BY <1>1, <1>2, <2>1, <2>2, AdmittedFinite, TradesOnFinite, GradedFinite
       DEF Capped
<1>7. QED
  BY <1>5, <1>6

LEMMA PlaceOrderCaps ==
  ASSUME LedgerInv, NEW x \in Graded, PlaceOrder(x), NEW d \in 1 .. day, Capped(d),
         Risk.maxDailyTrades \in Int
  PROVE  Capped(d)'
<1>1. /\ TypeOK /\ LocalsTyped /\ x \in Executors /\ Len(trades) \in Nat
      /\ faults \in Nat
  BY TypeParts, LedgerFacts DEF LedgerInv, Executors
<1>2. /\ \A y \in Executors \ {x} : Untouched(y)
      /\ pc[x] = "order" /\ pc'[x] = "trade" /\ result'[x].trade.day = day
      /\ UNCHANGED <<trades, faults, day>>
  <2>1. \A y \in Executors \ {x} : Untouched(y)
    BY <1>1, OthersUntouched DEF Acts
  <2>2. QED
    BY <1>1, <2>1 DEF PlaceOrder, Goto, LocalsTyped, counters, TradeOf
<1>3. Admitted(d)' \subseteq Admitted(d)
  BY <1>2 DEF Admitted, Untouched, Executors
<1>4. QED
  BY <1>1, <1>2, <1>3, CapStays

\* The steps that admit no one.
LEMMA OtherActsCap ==
  ASSUME LedgerInv, NEW x \in Graded, NEW d \in 1 .. day, Capped(d),
         \/ ReadAccount(x) \/ CheckSafety(x) \/ Refused(x) \/ SaveAccount(x)
         \/ Abandon(x),
         Risk.maxDailyTrades \in Int
  PROVE  Capped(d)'
<1>1. /\ TypeOK /\ LocalsTyped /\ x \in Executors /\ Len(trades) \in Nat
      /\ faults \in Nat
  BY TypeParts, LedgerFacts DEF LedgerInv, Executors
<1>2. \A y \in Executors \ {x} : Untouched(y)
  BY <1>1, OthersUntouched DEF Acts
<1>3. UNCHANGED <<trades, day>> /\ faults' \in {faults, faults + 1}
  BY DEF ReadAccount, CheckSafety, Refused, SaveAccount, Abandon, tables, counters
<1>4. pc'[x] \in {"idle", "risk"} \/ (pc[x] = "safety" /\ pc'[x] = "order")
  <2>1. CASE ReadAccount(x)
    <3>1. PICK s \in Sides : Begin(x, s, "risk")
      BY <2>1, Zenon DEF ReadAccount
    <3>2. QED
      BY <1>1, <3>1, BeginSets
  <2>2. CASE CheckSafety(x)
    <3>1. pc[x] = "safety" /\ (Finish(x) \/ Goto(x, "order"))
      BY <2>2, Zenon DEF CheckSafety
    <3>2. QED
      BY <1>1, <3>1, FinishClears DEF Goto, LocalsTyped
  <2>3. CASE Refused(x) \/ SaveAccount(x) \/ Abandon(x)
    BY <1>1, <2>3, FinishClears DEF Refused, SaveAccount, Abandon
  <2>4. QED
    BY <2>1, <2>2, <2>3
<1>5. Admitted(d)' \subseteq Admitted(d)
  BY <1>2, <1>3, <1>4 DEF Admitted, Untouched, Executors
<1>6. QED
  BY <1>1, <1>3, <1>5, CapStays

\* The new day starts with what was admitted before it.
LEMMA MidnightCaps ==
  ASSUME LedgerInv, DatesInv, Midnight, \A d \in 1 .. day : Capped(d),
         Risk.maxDailyTrades \in Int, Risk.maxDailyTrades > 0
  PROVE  \A d \in 1 .. day' : Capped(d)'
<1>1. TypeOK /\ Len(trades) \in Nat /\ faults \in Nat /\ day \in Nat \ {0}
  BY LedgerFacts DEF LedgerInv
<1>2. day' = day + 1 /\ UNCHANGED <<trades, pc, result, faults>>
  BY DEF Midnight, tables, local, counters
<1>3. ASSUME NEW d \in 1 .. day PROVE Capped(d)'
  <2>1. Admitted(d)' \subseteq Admitted(d)
    BY <1>1, <1>2 DEF Admitted
  <2>2. QED
    BY <1>1, <1>2, <2>1, CapStays
<1>4. ASSUME NEW d, d = day + 1 PROVE Capped(d)'
  <2>1. TradesOn(d)' = {}
    BY <1>1, <1>2, <1>4 DEF TradesOn, DatesInv
  <2>2. Cardinality(TradesOn(d)') = 0
    BY <2>1, FS_EmptySet
  <2>3. QED
    BY <1>1, <1>2, <2>2, AdmittedFinite, GradedFinite DEF Capped
<1>5. \A d \in 1 .. day' : d \in 1 .. day \/ d = day + 1
  BY <1>1, <1>2
<1>6. QED
  BY <1>3, <1>4, <1>5

LEMMA CapStep ==
  ASSUME LedgerInv, DatesInv, CapInv, [Next]_vars
  PROVE  CapInv'
<1> SUFFICES ASSUME CliRuns = {}, Risk.maxDailyTrades > 0
             PROVE  \A d \in 1 .. day' : Capped(d)'
  BY DEF CapInv
<1>1. /\ \A d \in 1 .. day : Capped(d)
      /\ Risk.maxDailyTrades \in Int /\ Executors = Graded
      /\ TypeOK /\ Len(trades) \in Nat /\ faults \in Nat
  BY LedgerAssumption, LedgerFacts DEF CapInv, LedgerInv, Executors
<1>2. ASSUME NEW x \in Executors, Acts(x) PROVE \A d \in 1 .. day' : Capped(d)'
  <2>1. UNCHANGED day /\ x \in Graded /\ x \notin CliRuns
    BY <1>1, <1>2, OthersUntouched
  <2>2. QED
    BY <1>1, <1>2, <2>1, DecideCaps, SaveTradeCaps, PlaceOrderCaps, OtherActsCap
       DEF Acts
<1>3. CASE Midnight
  BY <1>1, <1>3, MidnightCaps
<1>4. CASE ResetAccount \/ SetKillSwitch \/ RiskOnce \/ UNCHANGED vars
  <2>1. UNCHANGED <<trades, pc, result, day, faults>>
    BY <1>4
       DEF ResetAccount, SetKillSwitch, RiskOnce, vars, tables, local, counters
  <2>2. ASSUME NEW d PROVE Admitted(d)' \subseteq Admitted(d)
    BY <2>1 DEF Admitted
  <2>3. QED
    BY <1>1, <2>1, <2>2, CapStays
<1>5. QED
  BY <1>2, <1>3, <1>4, NextIsOne

\* Days and admissions are counted right: the invariant behind the daily cap.
THEOREM CapInvariant == Spec => [](DatesInv /\ CapInv)
<1>1. Init => DatesInv /\ CapInv
  <2>1. SUFFICES ASSUME Init PROVE DatesInv /\ CapInv
    OBVIOUS
  <2>2. /\ trades = <<>> /\ Len(trades) = 0 /\ day = 1 /\ faults = 0
        /\ \A x \in Executors : pc[x] = "idle"
    BY <2>1 DEF Init
  <2>3. DatesInv
    BY <2>2 DEF DatesInv
  <2>4. ASSUME NEW d, Risk.maxDailyTrades > 0 PROVE Capped(d)
    <3>1. TradesOn(d) = {} /\ Cardinality(TradesOn(d)) = 0
      BY <2>2, FS_EmptySet DEF TradesOn
    <3>2. Risk.maxDailyTrades \in Int
      BY LedgerAssumption
    <3>3. QED
      BY <2>2, <2>4, <3>1, <3>2, AdmittedFinite, GradedFinite DEF Capped
  <2>5. QED
    BY <2>3, <2>4 DEF CapInv
<1>2. LedgerInv /\ DatesInv /\ CapInv /\ [Next]_vars => (DatesInv /\ CapInv)'
  BY DatesStep, CapStep
<1>3. QED
  BY <1>1, <1>2, LedgerInvariant, PTL DEF Spec

\* Without cmd/execution, which asks no risk rule, a day exceeds the limit by
\* at most the executions under way beside the last one admitted and by those
\* admitted when the statistics could not be read.
THEOREM DailyCap ==
  ASSUME CliRuns = {}
  PROVE  Spec => []DailyTradesBounded
<1>1. LedgerInv /\ CapInv => DailyTradesBounded
  <2>1. SUFFICES ASSUME LedgerInv, CapInv, Risk.maxDailyTrades > 0,
                        NEW d \in 1 .. day
                 PROVE  Cardinality(TradesOn(d))
                          <= Risk.maxDailyTrades + Cardinality(Graded) - 1 + faults
    BY DEF DailyTradesBounded
  <2>2. /\ Capped(d) /\ Len(trades) \in Nat /\ faults \in Nat
        /\ Risk.maxDailyTrades \in Int
    BY <2>1, LedgerFacts, LedgerAssumption DEF CapInv, LedgerInv
  <2>3. QED
    BY <2>2, AdmittedFinite, TradesOnFinite, GradedFinite DEF Capped
<1>2. QED
  BY <1>1, LedgerInvariant, CapInvariant, PTL

-----------------------------------------------------------------------------
(* Replaying the trades. What a recursive function computes is shown by    *)
(* induction over a set of numbers, which needs no operator parameter.     *)

\* A set with 0 and every successor holds all numbers: the least stretch
\* 0 .. n with a number outside would be mapped one-to-one into a smaller one.
LEMMA NumbersBySteps ==
  ASSUME NEW S, 0 \in S, \A n \in Nat : n \in S => n + 1 \in S
  PROVE  Nat \subseteq S
<1>1. ASSUME NEW n \in Nat, n \notin S PROVE FALSE
  <2> DEFINE T == (0 .. n) \ S
             f == [m \in T |-> m - 1]
  <2>1. IsFiniteSet(T) /\ n \in T
    <3>1. IsFiniteSet(0 .. n) /\ T \in SUBSET (0 .. n)
      BY FS_Interval
    <3>2. QED
      BY <1>1, <3>1, FS_Subset
  <2>2. \A m \in T : m - 1 \in T \ {n}
    <3>1. ASSUME NEW m \in T PROVE m - 1 \in T \ {n}
      <4>1. m \in 0 .. n /\ m \notin S /\ m # 0
        OBVIOUS
      <4>2. m - 1 \in Nat /\ (m - 1) + 1 = m
        BY <4>1
      <4>3. m - 1 \notin S
        BY <4>1, <4>2
      <4>4. QED
        BY <4>1, <4>2, <4>3
    <3>2. QED
      BY <3>1
  <2>3. f \in Injection(T, T \ {n})
    <3>1. f \in [T -> T \ {n}]
      BY <2>2
    <3>2. \A a, b \in T : f[a] = f[b] => a = b
      OBVIOUS
    <3>3. QED
      BY <3>1, <3>2 DEF Injection, IsInjective
  <2> HIDE DEF f, T
  <2>4. IsFiniteSet(T \ {n}) /\ Cardinality(T \ {n}) = Cardinality(T) - 1
    BY <2>1, FS_RemoveElement
  <2>5. Cardinality(T) <= Cardinality(T \ {n})
    BY <2>3, <2>4, FS_Injection
  <2>6. Cardinality(T) \in Nat
    BY <2>1, FS_CardinalityType
  <2>7. QED
    BY <2>4, <2>5, <2>6
<1>2. QED
  BY <1>1

\* g replays the trades of ts up to number m.
Replays(g, m, a, k, ts) ==
  g = [n \in 0 .. m |-> IF n <= k THEN a ELSE Moved(g[n - 1], ts[n])]

LEMMA ReplayExists ==
  ASSUME NEW a, NEW k \in Nat, NEW ts, NEW m \in Nat
  PROVE  \E g : Replays(g, m, a, k, ts)
<1> DEFINE S == {i \in Nat : \E g : Replays(g, i, a, k, ts)}
<1>1. 0 \in S
  <2> DEFINE g == [n \in 0 .. 0 |-> a]
  <2>1. Replays(g, 0, a, k, ts)
    <3>1. \A n \in 0 .. 0 : n <= k
      OBVIOUS
    <3>2. QED
      BY <3>1 DEF Replays
  <2>2. QED
    BY <2>1
<1>2. ASSUME NEW i \in Nat, i \in S PROVE i + 1 \in S
  <2>1. PICK g : Replays(g, i, a, k, ts)
    BY <1>2
  <2> DEFINE last == IF i + 1 <= k THEN a ELSE Moved(g[i], ts[i + 1])
             h == [n \in 0 .. i + 1 |-> IF n <= i THEN g[n] ELSE last]
  <2>2. ASSUME NEW n \in 0 .. i + 1
        PROVE  h[n] = IF n <= k THEN a ELSE Moved(h[n - 1], ts[n])
    <3>1. CASE n <= i
      <4>1. h[n] = IF n <= k THEN a ELSE Moved(g[n - 1], ts[n])
        BY <2>1, <3>1 DEF Replays
      <4>2. n > k => h[n - 1] = g[n - 1]
        BY <3>1
      <4>3. QED
        BY <4>1, <4>2
    <3>2. CASE n = i + 1
      BY <3>2
    <3>3. QED
      BY <3>1, <3>2
  <2>3. Replays(h, i + 1, a, k, ts)
    <3>1. h = [n \in 0 .. i + 1 |-> h[n]]
      OBVIOUS
    <3> HIDE DEF h
    <3>2. QED
      BY <2>2, <3>1 DEF Replays
  <2>4. QED
    BY <2>3
<1> HIDE DEF S
<1>3. Nat \subseteq S
  BY <1>1, <1>2, NumbersBySteps
<1>4. QED
  BY <1>3 DEF S

\* Two replays agree as far as both, and the rows they replay, go.
LEMMA ReplaysAgree ==
  ASSUME NEW a, NEW k \in Nat, NEW ts, NEW us, NEW m \in Nat, NEW p \in Nat,
         NEW g, NEW h, Replays(g, m, a, k, ts), Replays(h, p, a, k, us),
         m <= p, \A n \in 1 .. m : ts[n] = us[n]
  PROVE  g[m] = h[m]
<1> DEFINE S == {i \in Nat : i <= m => g[i] = h[i]}
<1>1. \A n \in 0 .. m :
        /\ g[n] = IF n <= k THEN a ELSE Moved(g[n - 1], ts[n])
        /\ h[n] = IF n <= k THEN a ELSE Moved(h[n - 1], us[n])
  BY DEF Replays
<1>2. 0 \in S
  BY <1>1
<1>3. ASSUME NEW i \in Nat, i \in S PROVE i + 1 \in S
  BY <1>1, <1>3
<1> HIDE DEF S
<1>4. Nat \subseteq S
  BY <1>2, <1>3, NumbersBySteps
<1>5. QED
  BY <1>4 DEF S

LEMMA ReplayedIsReplay ==
  ASSUME NEW a, NEW k \in Nat, NEW ts, Len(ts) \in Nat
  PROVE  \E g : Replays(g, Len(ts), a, k, ts) /\ Replayed(a, k, ts) = g[Len(ts)]
<1>1. \E g : g = [n \in 0 .. Len(ts) |->
                    IF n <= k THEN a ELSE Moved(g[n - 1], ts[n])]
  <2>1. PICK g : Replays(g, Len(ts), a, k, ts)
    BY ReplayExists
  <2>2. QED
    BY <2>1 DEF Replays
<1>2. QED
  BY <1>1 DEF Replayed, Replays

\* No trades leave the account as it is; one more moves what the others made.
LEMMA ReplayOfNone ==
  ASSUME NEW a, NEW ts, Len(ts) \in Nat
  PROVE  Replayed(a, Len(ts), ts) = a
<1>1. PICK g : /\ Replays(g, Len(ts), a, Len(ts), ts)
               /\ Replayed(a, Len(ts), ts) = g[Len(ts)]
  BY ReplayedIsReplay
<1>2. QED
  BY <1>1 DEF Replays

LEMMA ReplayOfOneMore ==
  ASSUME NEW a, NEW T, NEW ts \in Seq(T), NEW t, NEW k \in 0 .. Len(ts)
  PROVE  Replayed(a, k, Append(ts, t)) = Moved(Replayed(a, k, ts), t)
<1> DEFINE us == Append(ts, t)
<1>1. /\ Len(ts) \in Nat /\ Len(us) = Len(ts) + 1 /\ us[Len(us)] = t
      /\ \A n \in 1 .. Len(ts) : ts[n] = us[n]
  BY AppendFacts
<1> HIDE DEF us
<1>2. PICK g : /\ Replays(g, Len(ts), a, k, ts)
               /\ Replayed(a, k, ts) = g[Len(ts)]
  BY <1>1, ReplayedIsReplay
<1>3. PICK h : /\ Replays(h, Len(us), a, k, us)
               /\ Replayed(a, k, us) = h[Len(us)]
  BY <1>1, ReplayedIsReplay
<1>4. g[Len(ts)] = h[Len(ts)]
  BY <1>1, <1>2, <1>3, ReplaysAgree
<1>5. h[Len(us)] = Moved(h[Len(us) - 1], us[Len(us)])
  BY <1>1, <1>3 DEF Replays
<1>6. Replayed(a, k, us) = Moved(Replayed(a, k, ts), t)
  BY <1>1, <1>2, <1>3, <1>4, <1>5
<1>7. QED
  BY <1>6 DEF us

-----------------------------------------------------------------------------
(* Balances and trades.                                                    *)

LEMMA ExactQuotient ==
  ASSUME NEW q \in Nat, NEW p \in Nat \ {0}, q % p = 0
  PROVE  (q \div p) * p = q
OBVIOUS

\* What the engine returns is what the trade it returns moves.
LEMMA EngineMoves ==
  ASSUME ExactDivision, NEW s \in Sides, NEW p \in Prices, NEW a \in Balances,
         NEW d
  PROVE  AccountAfter(Engine, s, p, a) = Moved(a, TradeOf(Engine, s, p, d))
<1> DEFINE q == FilledQuote(Engine)
           f == Fee(Engine)
           t == TradeOf(Engine, s, p, d)
<1>1. /\ q \in Nat /\ f \in Nat /\ q - f \in Nat /\ p \in Nat \ {0}
      /\ a.quote \in Int /\ a.base \in Int
  BY EngineAmounts, LedgerAssumption, PriceFacts DEF Balances
<1>2. /\ t.side = s /\ t.quantity = Quantity(Engine, s, p) /\ t.price = p
      /\ t.fee = f
  BY DEF TradeOf
<1> HIDE DEF q, f, t
<1>3. ((q - f) \div p) * p = q - f /\ (q \div p) * p = q
  <2>1. (q - f) % p = 0 /\ q % p = 0
    BY DEF ExactDivision, q, f
  <2>2. QED
    BY <1>1, <2>1, ExactQuotient
<1>4. CASE s = "buy"
  <2>1. t.quantity = (q - f) \div p /\ t.quantity \in Int
    BY <1>1, <1>2, <1>4 DEF Quantity, q, f
  <2>2. CashFlow(t) = -q
    <3>1. t.quantity * t.price = q - f
      BY <1>2, <1>3, <2>1
    <3>2. CashFlow(t) = -(t.quantity * t.price + t.fee)
      BY <1>2, <1>4 DEF CashFlow
    <3>3. QED
      BY <1>1, <1>2, <3>1, <3>2
  <2>3. AccountAfter(Engine, s, p, a)
          = [quote |-> a.quote - q, base |-> a.base + t.quantity]
    BY <1>2, <1>4 DEF AccountAfter, q
  <2>4. Moved(a, t) = [quote |-> a.quote + CashFlow(t), base |-> a.base + t.quantity]
    BY <1>2, <1>4 DEF Moved
  <2>5. QED
    BY <1>1, <2>2, <2>3, <2>4 DEF t
<1>5. CASE s = "sell"
  <2>1. t.quantity = q \div p /\ t.quantity \in Int
    BY <1>1, <1>2, <1>5 DEF Quantity, q, f
  <2>2. CashFlow(t) = q - f
    <3>1. t.quantity * t.price = q
      BY <1>2, <1>3, <2>1
    <3>2. CashFlow(t) = t.quantity * t.price - t.fee
      BY <1>2, <1>5 DEF CashFlow
    <3>3. QED
      BY <1>1, <1>2, <3>1, <3>2
  <2>3. AccountAfter(Engine, s, p, a)
          = [quote |-> a.quote + (q - f), base |-> a.base - t.quantity]
    BY <1>2, <1>5 DEF AccountAfter, q, f
  <2>4. Moved(a, t) = [quote |-> a.quote + CashFlow(t), base |-> a.base + -t.quantity]
    BY <1>2, <1>5 DEF Moved
  <2>5. QED
    BY <1>1, <2>1, <2>2, <2>3, <2>4 DEF t
<1>6. QED
  BY <1>4, <1>5 DEF Sides

\* What one executor's step does to its own read and result.
LEMMA ActsReads ==
  ASSUME LedgerInv, ReadsInv, ResultsInv, ExactDivision,
         NEW x \in Executors, Acts(x)
  PROVE  /\ pc'[x] # "idle" /\ seenAt'[x] = version' => seen'[x] = account'
         /\ pc'[x] \in {"trade", "account"}
              => result'[x].account = Moved(seen'[x], result'[x].trade)
<1>1. TypeOK /\ LocalsTyped /\ HoldsWhatItNeeds(x)
  BY TypeParts DEF LedgerInv, ExecutorInv
<1>2. CASE ReadAccount(x)
  <2>1. PICK s \in Sides : Begin(x, s, "risk")
    BY <1>2, Zenon DEF ReadAccount
  <2>2. UNCHANGED <<account, version>>
    BY <1>2 DEF ReadAccount
  <2>3. QED
    BY <1>1, <2>1, <2>2, BeginSets
<1>3. CASE ExecuteOnce(x)
  <2>1. PICK i \in LatestApproved : Begin(x, decisions[i].side, "order")
    BY <1>3, Zenon DEF ExecuteOnce
  <2>2. UNCHANGED <<account, version>>
    BY <1>3 DEF ExecuteOnce
  <2>3. QED
    BY <1>1, <2>1, <2>2, BeginSets
<1>4. CASE Decide(x)
  <2>1. \/ Finish(x)
        \/ Goto(x, "safety") /\ UNCHANGED <<side, price, seen, seenAt, result>>
    BY <1>4, Zenon DEF Decide
  <2>2. pc[x] = "risk" /\ UNCHANGED <<account, version>>
    BY <1>4 DEF Decide
  <2>3. CASE Finish(x)
    BY <1>1, <2>3, FinishClears
  <2>4. CASE Goto(x, "safety") /\ UNCHANGED <<side, price, seen, seenAt, result>>
    BY <1>1, <2>2, <2>4 DEF Goto, LocalsTyped, ReadsInv
  <2>5. QED
    BY <2>1, <2>3, <2>4
<1>5. CASE CheckSafety(x)
  <2>1. pc[x] = "safety" /\ UNCHANGED <<account, version>>
    BY <1>5 DEF CheckSafety
  <2>2. CASE Finish(x)
    BY <1>1, <2>2, FinishClears
  <2>3. CASE Goto(x, "order") /\ UNCHANGED local
    BY <1>1, <2>1, <2>3 DEF Goto, LocalsTyped, ReadsInv, local
  <2>4. QED
    BY <1>5, <2>2, <2>3 DEF CheckSafety
<1>6. CASE PlaceOrder(x)
  <2>1. /\ pc[x] = "order" /\ side[x] \in Sides /\ price[x] \in Prices
        /\ seen[x] \in Balances
        /\ UNCHANGED <<account, version, seen, seenAt>>
    BY <1>1, <1>6, LedgerFacts DEF PlaceOrder, HoldsWhatItNeeds
  <2>2. /\ result'[x].trade = TradeOf(Engine, side[x], price[x], day)
        /\ result'[x].account = AccountAfter(Engine, side[x], price[x], seen[x])
    BY <1>1, <1>6 DEF PlaceOrder, LocalsTyped
  <2>3. result'[x].account = Moved(seen'[x], result'[x].trade)
    BY <2>1, <2>2, EngineMoves
  <2>4. QED
    BY <2>1, <2>3 DEF ReadsInv
<1>7. CASE SaveTrade(x)
  <2>1. /\ pc[x] = "trade"
        /\ UNCHANGED <<account, version, seen, seenAt, result>>
    BY <1>7 DEF SaveTrade, local
  <2>2. QED
    BY <2>1 DEF ReadsInv, ResultsInv
<1>8. CASE Refused(x) \/ SaveAccount(x) \/ Abandon(x)
  <2>1. Finish(x)
    BY <1>8 DEF Refused, SaveAccount, Abandon
  <2>2. QED
    BY <1>1, <2>1, FinishClears
<1>9. QED
  BY <1>2, <1>3, <1>4, <1>5, <1>6, <1>7, <1>8 DEF Acts

\* The account is saved under a new version, or not at all.
LEMMA SavedOrSame ==
  ASSUME LedgerInv, [Next]_vars
  PROVE  \/ UNCHANGED <<account, version>>
         \/ /\ version' = version + 1
            /\ (ResetAccount \/ \E x \in Executors : SaveAccount(x))
<1>1. CASE \E x \in Executors : Acts(x)
  BY <1>1 DEF Acts, ReadAccount, ExecuteOnce, Decide, CheckSafety, PlaceOrder,
              Refused, SaveTrade, SaveAccount, Abandon
<1>2. CASE RiskOnce \/ ResetAccount \/ SetKillSwitch \/ Midnight \/ UNCHANGED vars
  BY <1>2 DEF RiskOnce, ResetAccount, SetKillSwitch, Midnight, vars
<1>3. QED
  BY <1>1, <1>2, NextIsOne

LEMMA ReadsStep ==
  ASSUME LedgerInv, ReadsInv, ResultsInv, ExactDivision, [Next]_vars
  PROVE  ReadsInv' /\ ResultsInv'
<1>1. /\ TypeOK /\ version \in Nat
      /\ \A y \in Executors : seenAt[y] \in 0 .. version
  BY LedgerFacts DEF LedgerInv
<1>2. ASSUME NEW y \in Executors, Untouched(y)
      PROVE  /\ pc'[y] # "idle" /\ seenAt'[y] = version' => seen'[y] = account'
             /\ pc'[y] \in {"trade", "account"}
                  => result'[y].account = Moved(seen'[y], result'[y].trade)
  <2>1. seenAt[y] # version + 1
    BY <1>1
  <2>2. CASE UNCHANGED <<account, version>>
    BY <1>2, <2>2 DEF Untouched, ReadsInv, ResultsInv
  <2>3. CASE version' = version + 1
    BY <1>2, <2>1, <2>3 DEF Untouched, ResultsInv
  <2>4. QED
    BY <2>2, <2>3, SavedOrSame
<1>3. CASE \E x \in Executors : Acts(x)
  <2>1. PICK x \in Executors : Acts(x)
    BY <1>3
  <2>2. \A y \in Executors \ {x} : Untouched(y)
    BY <1>1, <2>1, OthersUntouched
  <2>3. QED
    BY <1>2, <2>1, <2>2, ActsReads DEF ReadsInv, ResultsInv
<1>4. CASE RiskOnce \/ ResetAccount \/ SetKillSwitch \/ Midnight \/ UNCHANGED vars
  <2>1. \A y \in Executors : Untouched(y)
    BY <1>4 DEF RiskOnce, ResetAccount, SetKillSwitch, Midnight, vars, local, Untouched
  <2>2. QED
    BY <1>2, <2>1 DEF ReadsInv, ResultsInv
<1>5. QED
  BY <1>3, <1>4, NextIsOne

\* One executor's step keeps the balances on their way to the trades.
LEMMA ActsSettle ==
  ASSUME LedgerInv, AgreementInv, NEW x \in Executors, Acts(x)
  PROVE  SettlingInv'
<1>1. /\ TypeOK /\ version \in Nat /\ parted \in BOOLEAN
      /\ \A y \in Executors : seenAt[y] \in 0 .. version
      /\ pc \in [Executors -> Stages]
  BY LedgerFacts DEF LedgerInv, TypeOK
<1>2. \A y \in Executors \ {x} :
        pc'[y] = pc[y] /\ seenAt'[y] = seenAt[y] /\ result'[y] = result[y]
  BY <1>1, OthersUntouched DEF Untouched
<1>3. CASE SaveTrade(x)
  <2>1. /\ pc[x] = "trade" /\ trades' = Append(trades, result[x].trade)
        /\ UNCHANGED <<account, version, lastReset, parted, seenAt, result>>
    BY <1>3 DEF SaveTrade, local, memory
  <2>2. Settling' = Settling \cup {x} /\ x \notin Settling
    BY <1>1, <1>2, <1>3, <2>1 DEF SaveTrade, Goto, Settling
  <2>3. CASE parted
    BY <2>1, <2>3 DEF SettlingInv
  <2>4. CASE seenAt[x] # version
    <3>1. x \in Settling' /\ seenAt'[x] # version'
      BY <2>1, <2>2, <2>4
    <3>2. QED
      BY <3>1 DEF SettlingInv
  <2>5. CASE Settling # {}
    <3>1. PICK y \in Settling : y # x
      BY <2>2, <2>5
    <3>2. QED
      BY <2>2, <3>1 DEF SettlingInv
  <2>6. CASE ~parted /\ seenAt[x] = version /\ Settling = {}
    <3>1. account = Explained
      BY <2>6 DEF AgreementInv, SettlingInv
    <3>2. Explained' = Moved(Explained, result[x].trade)
      <4>1. /\ trades \in Seq(Trade)
            /\ lastReset.trades \in 0 .. Len(trades)
        BY <1>1 DEF TypeOK
      <4>2. QED
        BY <2>1, <4>1, ReplayOfOneMore DEF Explained
    <3>3. /\ Settling' = {x} /\ x \in Settling' /\ seenAt'[x] = version'
          /\ Explained' = Moved(account', result'[x].trade)
      BY <2>1, <2>2, <2>6, <3>1, <3>2
    <3>4. QED
      BY <3>3 DEF SettlingInv
  <2>7. QED
    BY <1>1, <2>3, <2>4, <2>5, <2>6
<1>4. CASE SaveAccount(x)
  <2>1. /\ x \in Settling /\ account' = result[x].account
        /\ version' = version + 1
        /\ parted' = (parted \/ version # seenAt[x])
        /\ UNCHANGED <<trades, lastReset>>
    BY <1>4 DEF SaveAccount, tables, Settling
  <2>2. Settling' = Settling \ {x}
    BY <1>1, <1>2, <1>4 DEF SaveAccount, Finish, Goto, Settling
  <2>3. CASE parted \/ version # seenAt[x]
    BY <1>1, <2>1, <2>3, Zenon DEF SettlingInv
  <2>4. CASE Settling # {x}
    <3>1. PICK y \in Settling : y # x
      BY <2>1, <2>4
    <3>2. y \in Settling' /\ seenAt'[y] # version'
      BY <1>1, <1>2, <2>1, <2>2, <3>1 DEF Settling
    <3>3. QED
      BY <3>2 DEF SettlingInv
  <2>5. CASE ~parted /\ version = seenAt[x] /\ Settling = {x}
    <3>1. Explained = Moved(account, result[x].trade)
      BY <2>5 DEF AgreementInv, SettlingInv
    <3>2. /\ seen[x] = account
          /\ result[x].account = Moved(seen[x], result[x].trade)
      BY <2>1, <2>5 DEF AgreementInv, ReadsInv, ResultsInv, Settling
    <3>3. Explained' = Explained
      BY <2>1 DEF Explained
    <3>4. Settling' = {} /\ account' = Explained'
      BY <2>1, <2>2, <2>5, <3>1, <3>2, <3>3
    <3>5. QED
      BY <3>4 DEF SettlingInv
  <2>6. QED
    BY <1>1, <2>3, <2>4, <2>5
<1>5. CASE Abandon(x) /\ pc[x] = "account"
  <2>1. parted'
    BY <1>5, Zenon DEF Abandon
  <2>2. QED
    BY <2>1 DEF SettlingInv
<1>6. CASE \/ ReadAccount(x) \/ ExecuteOnce(x) \/ Decide(x) \/ CheckSafety(x)
           \/ PlaceOrder(x) \/ Refused(x) \/ (Abandon(x) /\ pc[x] # "account")
  <2>1. UNCHANGED <<account, version, trades, lastReset>>
    BY <1>6 DEF ReadAccount, ExecuteOnce, Decide, CheckSafety, PlaceOrder,
                Refused, Abandon, tables, memory
  <2>2. parted' = parted
    <3>1. CASE Abandon(x) /\ pc[x] # "account"
      BY <1>1, <3>1, Zenon DEF Abandon
    <3>2. QED
      BY <1>6, <3>1 DEF ReadAccount, ExecuteOnce, Decide, CheckSafety,
                        PlaceOrder, Refused, memory
  <2>3. pc[x] # "account" /\ pc'[x] # "account"
    BY <1>1, <1>6 DEF ReadAccount, ExecuteOnce, Begin, Decide, CheckSafety,
                      PlaceOrder, Refused, Abandon, Finish, Goto
  <2>4. Settling' = Settling /\ x \notin Settling
    BY <1>1, <1>2, <2>3 DEF Settling
  <2>5. \A y \in Settling : seenAt'[y] = seenAt[y] /\ result'[y] = result[y]
    BY <1>2, <2>4 DEF Settling
  <2>6. Explained' = Explained
    BY <2>1 DEF Explained
  <2>7. QED
    BY <2>1, <2>2, <2>4, <2>5, <2>6 DEF AgreementInv, SettlingInv
<1>7. QED
  BY <1>3, <1>4, <1>5, <1>6 DEF Acts

LEMMA SettlingStep ==
  ASSUME LedgerInv, AgreementInv, [Next]_vars
  PROVE  SettlingInv'
<1>1. /\ TypeOK /\ version \in Nat
      /\ \A y \in Executors : seenAt[y] \in 0 .. version
  BY LedgerFacts DEF LedgerInv
<1>2. CASE ResetAccount
  <2>1. PICK a \in Resets :
          account' = a /\ lastReset' = [account |-> a, trades |-> Len(trades)]
    BY <1>2, Zenon DEF ResetAccount
  <2>2. /\ version' = version + 1
        /\ UNCHANGED <<trades, pc, seenAt>>
    BY <1>2 DEF ResetAccount, tables, local
  <2>3. CASE Settling = {}
    <3>1. Explained' = a
      <4>1. Len(trades) \in Nat
        BY <1>1 DEF TypeOK
      <4>2. Explained' = Replayed(a, Len(trades), trades)
        BY <2>1, <2>2 DEF Explained
      <4>3. QED
        BY <4>1, <4>2, ReplayOfNone
    <3>2. Settling' = {}
      BY <2>2, <2>3 DEF Settling
    <3>3. QED
      BY <2>1, <3>1, <3>2 DEF SettlingInv
  <2>4. CASE Settling # {}
    <3>1. PICK y \in Settling : TRUE
      BY <2>4
    <3>2. y \in Settling' /\ seenAt'[y] # version'
      BY <1>1, <2>2, <3>1 DEF Settling
    <3>3. QED
      BY <3>2 DEF SettlingInv
  <2>5. QED
    BY <2>3, <2>4
<1>3. CASE RiskOnce \/ SetKillSwitch \/ Midnight \/ UNCHANGED vars
  <2>1. UNCHANGED <<account, version, trades, pc, seenAt, result, lastReset, parted>>
    BY <1>3 DEF RiskOnce, SetKillSwitch, Midnight, vars, tables, local, memory
  <2>2. Explained' = Explained /\ Settling' = Settling
    BY <2>1 DEF Explained, Settling
  <2>3. QED
    BY <2>1, <2>2 DEF AgreementInv, SettlingInv
<1>4. QED
  BY <1>2, <1>3, ActsSettle, NextIsOne

\* Reads, results and the account stay on their way to the trades: the
\* invariant behind the agreement.
THEOREM AgreementInvariant ==
  ASSUME ExactDivision
  PROVE  Spec => []AgreementInv
<1>1. Init => AgreementInv
  <2>1. SUFFICES ASSUME Init PROVE AgreementInv
    OBVIOUS
  <2>2. /\ account = Opening /\ trades = <<>> /\ Len(trades) = 0
        /\ lastReset = [account |-> Opening, trades |-> 0]
        /\ \A x \in Executors : pc[x] = "idle"
    BY <2>1 DEF Init
  <2>3. Settling = {}
    BY <2>2 DEF Settling
  <2>4. Explained = Opening
    <3>1. Explained = Replayed(Opening, Len(trades), trades)
      BY <2>2 DEF Explained
    <3>2. QED
      BY <2>2, <3>1, ReplayOfNone
  <2>5. QED
    BY <2>2, <2>3, <2>4 DEF AgreementInv, ReadsInv, ResultsInv, SettlingInv
<1>2. LedgerInv /\ AgreementInv /\ [Next]_vars => AgreementInv'
  <2>1. SUFFICES ASSUME LedgerInv, AgreementInv, [Next]_vars PROVE AgreementInv'
    OBVIOUS
  <2>2. ReadsInv' /\ ResultsInv'
    BY <2>1, ReadsStep DEF AgreementInv
  <2>3. SettlingInv'
    BY <2>1, SettlingStep
  <2>4. QED
    BY <2>2, <2>3 DEF AgreementInv
<1>3. QED
  BY <1>1, <1>2, LedgerInvariant, PTL DEF Spec

\* When no division of the engine leaves a remainder, the balances and the
\* trades since the last reset agree between executions, unless an execution
\* saved what it computed from balances another had replaced, or was cut off
\* between its trade and its account.
THEOREM BalancesExplained ==
  ASSUME ExactDivision
  PROVE  Spec => []BalancesAgreeWithTrades
<1>1. AgreementInv => BalancesAgreeWithTrades
  BY DEF AgreementInv, SettlingInv, Settling, BalancesAgreeWithTrades
<1>2. QED
  BY <1>1, AgreementInvariant, PTL

-----------------------------------------------------------------------------
(* Orders and approvals.                                                   *)

\* Decisions are only added.
LEMMA DecisionsStay ==
  ASSUME LedgerInv, [Next]_vars
  PROVE  /\ Approved \subseteq Approved' /\ Len(decisions) \in Nat
         /\ Approved \subseteq 1 .. Len(decisions)
<1>1. decisions \in Seq(Decision) /\ Len(decisions) \in Nat
  BY LedgerFacts DEF LedgerInv
<1>2. UNCHANGED decisions \/ \E e : decisions' = Append(decisions, e)
  <2>1. CASE \E x \in Executors : Decide(x)
    BY <2>1, Zenon DEF Decide, SaveDecision
  <2>2. CASE RiskOnce
    BY <2>2, Zenon DEF RiskOnce, SaveDecision
  <2>3. CASE \E x \in Executors : Acts(x) /\ ~Decide(x)
    BY <2>3 DEF Acts, ReadAccount, ExecuteOnce, CheckSafety, PlaceOrder, Refused,
                SaveTrade, SaveAccount, Abandon, tables
  <2>4. CASE ResetAccount \/ SetKillSwitch \/ Midnight \/ UNCHANGED vars
    BY <2>4 DEF ResetAccount, SetKillSwitch, Midnight, vars, tables
  <2>5. QED
    BY <2>1, <2>2, <2>3, <2>4, NextIsOne
<1>3. CASE UNCHANGED decisions
  BY <1>1, <1>3 DEF Approved
<1>4. CASE \E e : decisions' = Append(decisions, e)
  <2>1. PICK e : decisions' = Append(decisions, e)
    BY <1>4
  <2>2. /\ Len(decisions') = Len(decisions) + 1
        /\ \A i \in 1 .. Len(decisions) : decisions'[i] = decisions[i]
    BY <1>1, <2>1, AppendFacts
  <2>3. QED
    BY <1>1, <2>2 DEF Approved
<1>5. QED
  BY <1>2, <1>3, <1>4

\* How an executor comes to be cleared, and what an order executes.
LEMMA ActsApprove ==
  ASSUME LedgerInv, ApprovalInv, NEW x \in Executors, Acts(x)
  PROVE  /\ \/ ~Cleared(x)'
            \/ Cleared(x) /\ decision'[x] = decision[x]
            \/ decision'[x] = Len(decisions) + 1 /\ decision'[x] \in Approved'
            \/ CliRuns # {} /\ decision'[x] \in Approved
         /\ \/ UNCHANGED orders
            \/ /\ Cleared(x) /\ ~Cleared(x)'
               /\ orders' = Append(orders, decision[x])
<1>1. /\ TypeOK /\ LocalsTyped
      /\ decisions \in Seq(Decision) /\ Len(decisions) \in Nat
  BY TypeParts, LedgerFacts DEF LedgerInv
<1>2. CASE ReadAccount(x)
  <2>1. PICK s \in Sides : Begin(x, s, "risk")
    BY <1>2, Zenon DEF ReadAccount
  <2>2. UNCHANGED orders
    BY <1>2 DEF ReadAccount, tables
  <2>3. QED
    BY <1>1, <2>1, <2>2, BeginSets DEF Cleared
<1>3. CASE x \in CliRuns /\ ExecuteOnce(x)
  <2>1. PICK i \in LatestApproved : decision' = [decision EXCEPT ![x] = i]
    BY <1>3, Zenon DEF ExecuteOnce
  <2>2. i \in Approved
    BY DEF LatestApproved, Approved
  <2>3. decision'[x] \in Approved /\ UNCHANGED orders
    BY <1>1, <1>3, <2>1, <2>2 DEF ExecuteOnce, tables, LocalsTyped
  <2>4. QED
    BY <1>3, <2>3
<1>4. CASE Decide(x)
  <2>1. UNCHANGED orders
    BY <1>4 DEF Decide
  <2>2. CASE Finish(x)
    BY <1>1, <2>1, <2>2, FinishClears DEF Cleared
  <2>3. CASE ~Finish(x)
    <3>1. PICK stats \in BOOLEAN, idle \in Idleness :
            LET approved == Approves(Risk, Signal(side[x]),
                                     RiskContext(x, stats, idle))
            IN  /\ approved
                /\ SaveDecision(side[x], approved)
                /\ decision' = [decision EXCEPT ![x] = Len(decisions) + 1]
      BY <1>4, <2>3, Zenon DEF Decide
    <3>2. decision'[x] = Len(decisions) + 1
      BY <1>1, <3>1 DEF LocalsTyped
    <3>3. \E e : e.approved /\ decisions' = Append(decisions, e)
      <4> DEFINE approved == Approves(Risk, Signal(side[x]),
                                      RiskContext(x, stats, idle))
                 e == [side |-> side[x], approved |-> approved]
      <4>1. approved /\ decisions' = Append(decisions, e)
        BY <3>1 DEF SaveDecision
      <4>2. e.approved = approved
        BY Zenon
      <4> HIDE DEF approved, e
      <4>3. QED
        BY <4>1, <4>2
    <3>4. PICK e : e.approved /\ decisions' = Append(decisions, e)
      BY <3>3
    <3>5. /\ Len(decisions') = Len(decisions) + 1
          /\ decisions'[Len(decisions) + 1] = e
      BY <1>1, <3>4, AppendFacts
    <3>6. Len(decisions) + 1 \in Approved'
      BY <1>1, <3>4, <3>5 DEF Approved
    <3>7. QED
      BY <2>1, <3>2, <3>6
  <2>4. QED
    BY <2>2, <2>3
<1>5. CASE CheckSafety(x)
  <2>1. pc[x] = "safety" /\ UNCHANGED orders
    BY <1>5 DEF CheckSafety, tables
  <2>2. CASE Finish(x)
    BY <1>1, <2>1, <2>2, FinishClears DEF Cleared
  <2>3. CASE UNCHANGED local
    BY <2>1, <2>3 DEF Cleared, local
  <2>4. QED
    BY <1>5, <2>2, <2>3 DEF CheckSafety
<1>6. CASE PlaceOrder(x)
  BY <1>1, <1>6 DEF PlaceOrder, Goto, Cleared, LocalsTyped
<1>7. CASE SaveTrade(x)
  BY <1>1, <1>7 DEF SaveTrade, Goto, Cleared, LocalsTyped
<1>8. CASE Refused(x) \/ SaveAccount(x) \/ Abandon(x)
  <2>1. Finish(x) /\ UNCHANGED orders
    BY <1>8 DEF Refused, SaveAccount, Abandon, tables
  <2>2. QED
    BY <1>1, <2>1, FinishClears DEF Cleared
<1>9. QED
  BY <1>2, <1>3, <1>4, <1>5, <1>6, <1>7, <1>8 DEF Acts

LEMMA ActsKeepApproval ==
  ASSUME LedgerInv, ApprovalInv, NEW x \in Executors, Acts(x), [Next]_vars
  PROVE  ApprovalInv'
<1>1. /\ TypeOK /\ orders \in Seq(1 .. Len(decisions)) /\ Len(decisions) \in Nat
      /\ Approved \subseteq Approved' /\ Approved \subseteq 1 .. Len(decisions)
  BY DecisionsStay DEF LedgerInv, TypeOK
<1>2. \A y \in Executors \ {x} :
        pc'[y] = pc[y] /\ decision'[y] = decision[y]
  BY <1>1, OthersUntouched DEF Untouched
<1>3. Len(orders) \in Nat /\ \A i \in 1 .. Len(orders) : orders[i] \in Approved
  BY <1>1 DEF ApprovalInv, OrdersFollowApproval
<1>4. \A y \in Executors : HoldsApproval(y)'
  BY <1>1, <1>2, ActsApprove DEF ApprovalInv, HoldsApproval, Cleared
<1>5. CASE UNCHANGED orders
  <2>1. OrdersFollowApproval'
    BY <1>1, <1>5 DEF ApprovalInv, OrdersFollowApproval
  <2>2. ASSUME CliRuns = {} PROVE \A y \in Executors : HoldsAlone(y)'
    <3>1. \A y \in Executors : HoldsAlone(y)
      BY <2>2 DEF ApprovalInv
    <3>2. CASE ~Cleared(x)'
      BY <1>2, <1>5, <3>1, <3>2 DEF HoldsAlone, Cleared
    <3>3. CASE Cleared(x) /\ decision'[x] = decision[x]
      BY <1>2, <1>5, <3>1, <3>3 DEF HoldsAlone, Cleared
    <3>4. CASE decision'[x] = Len(decisions) + 1
      <4>1. Len(decisions) + 1 \notin Approved
        BY <1>1
      <4>2. \A y \in Executors : Cleared(y) => decision[y] # Len(decisions) + 1
        BY <4>1 DEF ApprovalInv, HoldsApproval
      <4>3. \A i \in 1 .. Len(orders) : orders[i] # Len(decisions) + 1
        BY <1>3, <4>1
      <4>4. QED
        BY <1>2, <1>5, <3>1, <3>4, <4>2, <4>3 DEF HoldsAlone, Cleared
    <3>5. QED
      BY <2>2, <3>2, <3>3, <3>4, ActsApprove
  <2>3. QED
    BY <1>4, <2>1, <2>2 DEF ApprovalInv
<1>6. CASE /\ Cleared(x) /\ ~Cleared(x)'
           /\ orders' = Append(orders, decision[x])
  <2>1. /\ Len(orders') = Len(orders) + 1
        /\ \A i \in 1 .. Len(orders) : orders'[i] = orders[i]
        /\ orders'[Len(orders) + 1] = decision[x]
    BY <1>1, <1>6, AppendFacts
  <2>2. \A i \in 1 .. Len(orders') : i \in 1 .. Len(orders) \/ i = Len(orders) + 1
    BY <1>3, <2>1
  <2>3. \A i \in 1 .. Len(orders') : orders'[i] \in Approved'
    BY <1>1, <1>3, <1>6, <2>1, <2>2 DEF ApprovalInv, HoldsApproval
  <2>4. ASSUME CliRuns = {}
        PROVE  /\ \A i, j \in 1 .. Len(orders') : orders'[i] = orders'[j] => i = j
               /\ \A y \in Executors : HoldsAlone(y)'
    <3>1. /\ \A y \in Executors : HoldsAlone(y)
          /\ \A i, j \in 1 .. Len(orders) : orders[i] = orders[j] => i = j
      BY <2>4 DEF ApprovalInv, OrdersFollowApproval
    <3>2. \A i \in 1 .. Len(orders) : orders[i] # decision[x]
      BY <1>6, <3>1 DEF HoldsAlone
    <3>3. \A i, j \in 1 .. Len(orders') : orders'[i] = orders'[j] => i = j
      BY <2>1, <2>2, <3>1, <3>2
    <3>4. ASSUME NEW y \in Executors, Cleared(y)' PROVE HoldsAlone(y)'
      <4>1. y # x /\ Cleared(y) /\ decision'[y] = decision[y]
        BY <1>2, <1>6, <3>4 DEF Cleared
      <4>2. decision[y] # decision[x]
        BY <1>6, <3>1, <4>1 DEF HoldsAlone
      <4>3. \A i \in 1 .. Len(orders') : orders'[i] # decision'[y]
        BY <2>1, <2>2, <3>1, <4>1, <4>2 DEF HoldsAlone
      <4>4. \A z \in Executors \ {y} : Cleared(z)' => decision'[z] # decision'[y]
        BY <1>2, <1>6, <3>1, <4>1 DEF HoldsAlone, Cleared
      <4>5. QED
        BY <4>3, <4>4 DEF HoldsAlone
    <3>5. QED
      BY <3>3, <3>4 DEF HoldsAlone
  <2>5. QED
    BY <1>4, <2>3, <2>4 DEF ApprovalInv, OrdersFollowApproval
<1>7. QED
  BY <1>5, <1>6, ActsApprove

\* Nothing is executed that was not approved, whoever executes it; and without
\* cmd/execution, which takes up the latest approval again, no approval is
\* executed twice, however runs and cycles interleave, fail and start anew.
THEOREM OrdersAreApproved == Spec => []OrdersFollowApproval
<1>1. Init => ApprovalInv
  <2>1. SUFFICES ASSUME Init PROVE ApprovalInv
    OBVIOUS
  <2>2. Len(orders) = 0 /\ \A x \in Executors : pc[x] = "idle"
    BY <2>1 DEF Init
  <2>3. QED
    BY <2>2 DEF ApprovalInv, OrdersFollowApproval, HoldsApproval, HoldsAlone,
                Cleared
<1>2. LedgerInv /\ ApprovalInv /\ [Next]_vars => ApprovalInv'
  <2>1. SUFFICES ASSUME LedgerInv, ApprovalInv, [Next]_vars PROVE ApprovalInv'
    OBVIOUS
  <2>2. CASE RiskOnce \/ ResetAccount \/ SetKillSwitch \/ Midnight \/ UNCHANGED vars
    <3>1. UNCHANGED <<orders, pc, decision>>
      BY <2>2
         DEF RiskOnce, ResetAccount, SetKillSwitch, Midnight, vars, tables, local
    <3>2. Approved \subseteq Approved'
      BY <2>1, DecisionsStay
    <3>3. QED
      BY <2>1, <3>1, <3>2 DEF ApprovalInv, OrdersFollowApproval, HoldsApproval,
                              HoldsAlone, Cleared
  <2>3. QED
    BY <2>1, <2>2, ActsKeepApproval, NextIsOne
<1>3. ApprovalInv => OrdersFollowApproval
  BY DEF ApprovalInv
<1>4. QED
  BY <1>1, <1>2, <1>3, LedgerInvariant, PTL DEF Spec

===============================================================================
