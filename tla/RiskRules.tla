------------------------------ MODULE RiskRules ------------------------------
(***************************************************************************)
(* risk.Evaluator: the rules a signal is checked against.  The source      *)
(* tries them in this order and reports the first that rejects; here only  *)
(* whether one rejects matters.  A limit of zero is switched off.  Symbols *)
(* stand for their names up to case and surrounding blanks.                *)
(***************************************************************************)
EXTENDS Integers

\* The Context of Evaluate, every field at its zero value.
EmptyContext ==
  [quoteAmount |-> 0, price |-> 0, base |-> 0, quote |-> 0, dailyTrades |-> 0,
   dailyLoss |-> 0, traded |-> FALSE, sinceTrade |-> 0, openPositions |-> 0,
   positionQuote |-> 0, totalExposure |-> 0]

Above(value, limit) == limit > 0 /\ value > limit

\* Faulty variant: one more is allowed.
ReachedLate(value, limit) == limit > 0 /\ value > limit

Reached(value, limit) == limit > 0 /\ value >= limit

\* Faulty variant: the balances are left for the engine to check.
NeverUnfunded(s, c) == FALSE

\* The account cannot pay for the order, or does not hold what it sells.
Unfunded(s, c) ==
  \/ s.side = "buy" /\ c.quoteAmount > 0 /\ c.quote < c.quoteAmount
  \/ s.side = "sell" /\ c.price > 0 /\ c.quoteAmount > 0
       /\ c.base * c.price < c.quoteAmount

Rejects(cfg, s, c) ==
  \/ ~cfg.enabled
  \/ cfg.allowedSymbols # {} /\ s.symbol \notin cfg.allowedSymbols
  \/ s.side = "hold"
  \/ s.side = "buy" /\ ~cfg.allowBuy
  \/ s.side = "sell" /\ ~cfg.allowSell
  \/ cfg.minStrength > 0 /\ s.strength < cfg.minStrength
  \/ Above(s.strength, cfg.maxStrength)
  \/ Above(c.quoteAmount, cfg.maxQuote)
  \/ Above(c.quoteAmount, cfg.maxOrderQuote)
  \/ Unfunded(s, c)
  \/ Reached(c.openPositions, cfg.maxOpenPositions)
  \/ Above(c.positionQuote + c.quoteAmount, cfg.maxPosition)
  \/ Above(c.totalExposure + c.quoteAmount, cfg.maxExposure)
  \/ Reached(c.dailyTrades, cfg.maxDailyTrades)
  \/ Reached(c.dailyLoss, cfg.maxDailyLoss)
  \/ cfg.cooldown > 0 /\ c.traded /\ c.sinceTrade < cfg.cooldown

Approves(cfg, s, c) == ~Rejects(cfg, s, c)

=============================================================================
