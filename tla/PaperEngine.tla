----------------------------- MODULE PaperEngine -----------------------------
(***************************************************************************)
(* PaperEngine.Execute: what a simulated order does to the paper account.  *)
(* Amounts are integers chosen so that every division is exact; the source *)
(* computes them in floating point.  Rates are in percent.                 *)
(***************************************************************************)
EXTENDS Integers

Sides == {"buy", "sell"}

\* A ratio that is not in (0, 1] means a full fill.
FillRatio(cfg) ==
  IF cfg.fillRatio <= 0 \/ cfg.fillRatio > 100 THEN 100 ELSE cfg.fillRatio

FilledQuote(cfg) == (cfg.quoteOrderAmount * FillRatio(cfg)) \div 100

Fee(cfg) == (FilledQuote(cfg) * cfg.feeRate) \div 100

\* The quantity bought pays the fee; the quantity sold does not.
Quantity(cfg, side, price) ==
  IF side = "buy" THEN (FilledQuote(cfg) - Fee(cfg)) \div price
                  ELSE FilledQuote(cfg) \div price

\* Faulty variant: balances are not compared with the amount to be moved.
FundedIfAnything(cfg, side, price, account) ==
  IF side = "buy" THEN account.quote > 0 ELSE account.base > 0

Funded(cfg, side, price, account) ==
  IF side = "buy" THEN account.quote >= FilledQuote(cfg)
                  ELSE account.base >= Quantity(cfg, side, price)

\* Execute returns a result; otherwise it returns an error.
Executable(cfg, side, price, account) ==
  /\ cfg.enabled
  /\ price > 0
  /\ cfg.quoteOrderAmount > 0
  /\ side \in Sides
  /\ Funded(cfg, side, price, account)

\* Faulty variant: the seller receives the fee.
AccountAfterFeeReversed(cfg, side, price, account) ==
  IF side = "buy"
  THEN [quote |-> account.quote - FilledQuote(cfg),
        base |-> account.base + Quantity(cfg, side, price)]
  ELSE [quote |-> account.quote + (FilledQuote(cfg) + Fee(cfg)),
        base |-> account.base - Quantity(cfg, side, price)]

\* The account Execute returns; the caller saves it over the stored one.
AccountAfter(cfg, side, price, account) ==
  IF side = "buy"
  THEN [quote |-> account.quote - FilledQuote(cfg),
        base |-> account.base + Quantity(cfg, side, price)]
  ELSE [quote |-> account.quote + (FilledQuote(cfg) - Fee(cfg)),
        base |-> account.base - Quantity(cfg, side, price)]

\* The trade Execute returns, dated now.
TradeOf(cfg, side, price, today) ==
  [side |-> side, quantity |-> Quantity(cfg, side, price), price |-> price,
   fee |-> Fee(cfg), day |-> today]

=============================================================================
