---------------------------- MODULE MCPaperLedger ----------------------------
(* Small instances of PaperLedger: an order of 100 at a fee of 10 percent. *)
EXTENDS PaperLedger

CONSTANTS w1, m1, e1, BTC

OneWorker == {w1}
OneCycle == {m1}
OneCli == {e1}
None == {}

PaperConfig ==
  [enabled |-> TRUE, quoteOrderAmount |-> 100, feeRate |-> 10, fillRatio |-> 0]

HalfFills == [PaperConfig EXCEPT !.fillRatio = 50]

NoLimits ==
  [enabled |-> TRUE, allowedSymbols |-> {BTC}, allowBuy |-> TRUE,
   allowSell |-> TRUE, minStrength |-> 1, maxStrength |-> 3, maxQuote |-> 100,
   maxOrderQuote |-> 100, maxOpenPositions |-> 0, maxPosition |-> 0,
   maxExposure |-> 0, maxDailyTrades |-> 0, maxDailyLoss |-> 0, cooldown |-> 0]

OneTradeADay == [NoLimits EXCEPT !.maxDailyTrades = 1, !.cooldown = 1]

OnePrice == {1}
TwoPrices == {1, 2}
Always == {0}
Sometimes == {0, 1}

Stocked == [quote |-> 200, base |-> 100]
Bare == {[quote |-> 100, base |-> 0]}

=============================================================================
