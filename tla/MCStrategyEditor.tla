-------------------------- MODULE MCStrategyEditor --------------------------
(* Model values and bounds for checking StrategyEditor with TLC.           *)
EXTENDS StrategyEditor

CONSTANTS good, wrong, lines

\* One name can be typed with a blank after it, one is a blank.
Typed == {"cross", "cross ", " "}

Trimmed == [s \in Typed |-> IF s = " " THEN "" ELSE "cross"]

Scripts == {good, wrong}

\* A template that can be saved and one that is a reference profile.
Catalog == [t \in {"cross", "cross "} |-> IF t = "cross" THEN good ELSE ""]

Mount == [name |-> "cross", code |-> good]
New == [name |-> "cross ", code |-> good]
=============================================================================
