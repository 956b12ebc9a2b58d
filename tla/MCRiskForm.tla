----------------------------- MODULE MCRiskForm -----------------------------
(* Model values and bounds for checking RiskForm with TLC.                 *)
EXTENDS RiskForm, TLC

CONSTANTS a, b

TwoConsoles == {a, b}
Interchangeable == Permutations(TwoConsoles)

Strengths == {"min", "max"}

\* The literals of the form and the row are both valid, and differ.
Literals == [f \in Strengths |-> 0]
Row == [f \in Strengths |-> 1]
=============================================================================
