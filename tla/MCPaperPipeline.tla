--------------------------- MODULE MCPaperPipeline ---------------------------
(* Bounds and symmetry for model-checking PaperPipeline.                   *)
EXTENDS PaperPipeline, TLC

CONSTANTS w1, w2, c1, c2

TwoWorkers == {w1, w2}
OneWorker == {w1}
Nobody == {}
Second == {w2}
TwoCandles == {c1, c2}
OneCandle == {c1}
ClosedOnly == {"closed"}
WellFormed == {"closed", "open"}
AnyEntry == {"closed", "open", "malformed"}

Interchangeable == Permutations(TwoWorkers) \cup Permutations(TwoCandles)

=============================================================================
