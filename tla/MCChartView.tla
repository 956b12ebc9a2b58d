----------------------------- MODULE MCChartView -----------------------------
(* Model values and bounds for checking ChartView with TLC.                *)
EXTENDS ChartView

\* Nothing, one candle, fewer than the least zoom, fewer than the first zoom,
\* and more than the most.
Loads == {0, 1, 3, 6, 17}
=============================================================================
