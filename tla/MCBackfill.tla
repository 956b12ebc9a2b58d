----------------------------- MODULE MCBackfill -----------------------------
(* Bounds and symmetry for model-checking Backfill.                        *)
EXTENDS Backfill, TLC

CONSTANTS r1, r2, j1

TwoRunners == {r1, r2}
OneRunner == {r1}
OneJob == {j1}

\* One gap in the exchange's history, inside a range and at its edges.
Gap == {1}

Interchangeable == Permutations(TwoRunners)

=============================================================================
