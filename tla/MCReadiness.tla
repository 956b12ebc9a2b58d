---------------------------- MODULE MCReadiness ----------------------------
(* Model values and bounds for checking Readiness with TLC.                *)
EXTENDS Readiness

\* A backend at the start of the lifecycle, one ready for live trading, and one
\* that would be but for its kill switch.
Backends ==
  [bad : {{}}, stage : {0, Top}, live : {TRUE}] \cup
  [bad : {{"switch"}}, stage : {Top}, live : {TRUE}]
=============================================================================
