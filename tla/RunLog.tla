------------------------------- MODULE RunLog -------------------------------
(***************************************************************************)
(* What pipeline_runs and Orchestrator.Handle promise together, without    *)
(* streams, consumer groups, calls or faults: a candle is worked on by one *)
(* worker at a time, only after a run of it was begun, and never again     *)
(* once it is completed. A run may be left without an end; then the candle *)
(* stays 'processing' and is worked on no more.                            *)
(***************************************************************************)
CONSTANTS
  Workers,
  Candles

VARIABLES
  status,  \* pipeline_runs.status of each candle
  holder,  \* the workers in the run of each candle
  made     \* the rows and publications made: what, and for which candle

logVars == <<status, holder, made>>

Init ==
  /\ status = [c \in Candles |-> "none"]
  /\ holder = [c \in Candles |-> {}]
  /\ made = {}

\* A run is begun, by a worker that takes it up or that never hears of it.
Begin(c) ==
  /\ status[c] \in {"none", "failed"} /\ holder[c] = {}
  /\ status' = [status EXCEPT ![c] = "processing"]
  /\ \/ \E w \in Workers : holder' = [holder EXCEPT ![c] = {w}]
     \/ UNCHANGED holder
  /\ UNCHANGED made

\* The worker in the run of a candle leaves more behind, for that candle only.
Work(c) ==
  /\ status[c] = "processing" /\ holder[c] # {}
  /\ UNCHANGED <<status, holder>>
  /\ made \subseteq made'
  /\ \A r \in made' \ made : r[2] = c

\* It leaves the run, which ends, fails, or stays as it is.
Leave(c) ==
  /\ status[c] = "processing" /\ holder[c] # {}
  /\ \E s \in {"processing", "completed", "failed"} :
       status' = [status EXCEPT ![c] = s]
  /\ holder' = [holder EXCEPT ![c] = {}]
  /\ UNCHANGED made

Next == \E c \in Candles : Begin(c) \/ Work(c) \/ Leave(c)

Spec == Init /\ [][Next]_logVars

=============================================================================
