---------------------------- MODULE MCResearchLab ----------------------------
(* Model values and bounds for checking ResearchLab with TLC.              *)
EXTENDS ResearchLab

\* A template that shorts, one that leaves the cooldown alone, and a blocked one.
Catalog ==
  [t \in {"momentum", "trend", "pairs"} |->
     CASE t = "momentum" -> [runnable |-> TRUE, interval |-> "1h", period |-> 50,
                             cooldown |-> 3, shorting |-> TRUE]
       [] t = "trend" -> [runnable |-> TRUE, interval |-> "1m", period |-> 9,
                          cooldown |-> 0, shorting |-> FALSE]
       [] OTHER -> [runnable |-> FALSE, interval |-> "1m", period |-> 50,
                    cooldown |-> 0, shorting |-> FALSE]]

Mount == [strategy |-> "sma", interval |-> "1m", period |-> 9, cooldown |-> 1,
          shorting |-> FALSE]
=============================================================================
