------------------------- MODULE PaperPipeline_proofs -------------------------
(***************************************************************************)
(* Proofs, for any set of workers and candles and any bounds, of the       *)
(* safety of the consumer group and of the idempotency records, of what    *)
(* each attempt at a candle leaves behind and costs, and of how many       *)
(* candles stay 'processing' for ever.                                     *)
(***************************************************************************)
EXTENDS PaperPipeline, Integers, FiniteSetTheorems, TLAPS

(***************************************************************************)
(* The steps of a run between Begin and Complete, and their failures,      *)
(* differ only in what they leave in effects and verdict.                  *)
(***************************************************************************)
Advance(w) ==
  /\ InRun(w)
  /\ \E s \in RunStages : pc' = [pc EXCEPT ![w] = s]
  /\ effects \subseteq effects'
  /\ effects' \ effects \subseteq {Made(w, e) : e \in Effects}
  /\ verdict' \in [Workers -> Verdicts]
  /\ faults' \in 0 .. MaxFaults
  /\ refused \subseteq refused'
  /\ refused' \subseteq refused \cup {<<Current(w), attempts[Current(w)]>>}
  /\ UNCHANGED <<stream, delivered, pending, runs, attempts, pos, end>>

\* What a step of a run does to the control state.
LEMMA RunStepsAdvance ==
  ASSUME TypeOK, NEW w \in Workers,
         \/ PersistCandle(w) \/ SaveSignal(w) \/ PublishSignal(w)
         \/ SaveDecision(w) \/ PublishDecision(w) \/ CheckSafety(w)
         \/ SaveOrder(w) \/ SaveFailedOrder(w) \/ SaveTrade(w)
         \/ SaveOrderEvents(w) \/ SaveAccount(w) \/ PublishExecution(w)
         \/ Refuse(w) \/ CallFails(w)
  PROVE  Advance(w)
<1> USE DEF TypeOK, Advance, InRun, RunStages, Stages, Effects, Verdicts, Goto,
            groupVars, runVars
<1>1. ASSUME NEW e \in Effects, NEW s \in RunStages, Call(w, e, s),
             verdict' \in [Workers -> Verdicts]
      PROVE  Advance(w)
  BY <1>1 DEF Call
<1>2. CASE PersistCandle(w)
  BY <1>1, <1>2 DEF PersistCandle
<1>3. CASE SaveSignal(w)
  BY <1>1, <1>3 DEF SaveSignal
<1>4. CASE PublishSignal(w)
  BY <1>1, <1>4 DEF PublishSignal
<1>5. CASE SaveDecision(w)
  BY <1>1, <1>5 DEF SaveDecision
<1>6. CASE PublishDecision(w)
  BY <1>1, <1>6 DEF PublishDecision
<1>7. CASE CheckSafety(w)
  BY <1>7 DEF CheckSafety
<1>8. CASE SaveOrder(w)
  BY <1>1, <1>8 DEF SaveOrder
<1>9. CASE SaveFailedOrder(w)
  BY <1>1, <1>9 DEF SaveFailedOrder
<1>10. CASE SaveTrade(w)
  BY <1>1, <1>10 DEF SaveTrade
<1>11. CASE SaveOrderEvents(w)
  BY <1>1, <1>11 DEF SaveOrderEvents
<1>12. CASE SaveAccount(w)
  BY <1>1, <1>12 DEF SaveAccount
<1>13. CASE PublishExecution(w)
  BY <1>1, <1>13 DEF PublishExecution
<1>14. CASE CallFails(w)
  BY <1>14, PipelineAssumption DEF CallFails, Fault
<1>15. CASE Refuse(w)
  BY <1>15 DEF Refuse
<1>16. QED
  BY <1>2, <1>3, <1>4, <1>5, <1>6, <1>7, <1>8, <1>9, <1>10, <1>11, <1>12,
     <1>13, <1>14, <1>15

(***************************************************************************)
(* The inductive invariant.  ExclusiveRun needs to know that a running     *)
(* worker holds a closed candle's entry (BusyWorkersHold); AckedWasBegun   *)
(* needs to know what was true when the worker turned to acknowledging.    *)
(***************************************************************************)
AckKnown ==
  \A w \in Workers :
    pc[w] = "ack" /\ stream[pos[w]].kind = "closed" => runs[Current(w)] # "none"

CoreInv ==
  /\ TypeOK
  /\ BusyWorkersHold
  /\ HeldOnce
  /\ ExclusiveRun
  /\ AckKnown
  /\ AckedWasBegun

\* The entries of a worker's batch are entries of the stream.
LEMMA HeldInStream ==
  ASSUME TypeOK, NEW w \in Workers, HasBatch(w)
  PROVE  /\ pos[w] \in 1 .. delivered
         /\ pos[w] \in 1 .. Len(stream)
         /\ stream[pos[w]] \in Event
         /\ Current(w) \in Candles
<1>1. pos[w] \in 1 .. Len(stream) /\ pos[w] \in 1 .. delivered
  BY DEF TypeOK, HasBatch
<1>2. stream[pos[w]] \in Event
  BY <1>1 DEF TypeOK
<1>3. QED
  BY <1>1, <1>2 DEF Event, Current

\* A worker in a run handles an entry of the stream.
LEMMA RunsHold ==
  ASSUME BusyWorkersHold, NEW w \in Workers, InRun(w) \/ pc[w] = "ack"
  PROVE  HasBatch(w)
BY DEF BusyWorkersHold, InRun, RunStages, Effects

\* A read moves the group forward, within the stream.
LEMMA DeliverMoves ==
  ASSUME TypeOK, Deliver, UNCHANGED stream
  PROVE  /\ delivered' \in Nat
         /\ delivered < delivered'
         /\ delivered' <= Len(stream)
         /\ pending' \subseteq 1 .. delivered'
<1>1. /\ delivered' \in Nat
      /\ delivered < delivered'
      /\ delivered' <= Len(stream)
  BY PipelineAssumption DEF TypeOK, Deliver, LastOfBatch
<1>2. \A i \in pending' : i \in 1 .. delivered'
  BY <1>1 DEF TypeOK, Deliver
<1>3. QED
  BY <1>1, <1>2

LEMMA PublishKeeps ==
  ASSUME CoreInv, Publish
  PROVE  CoreInv'
<1> USE DEF CoreInv, Publish, Goto, groupVars, runVars
<1>1. TypeOK'
  BY PipelineAssumption DEF TypeOK, Event, RunStatus, Current, Made
<1>2. BusyWorkersHold'
  BY DEF TypeOK, BusyWorkersHold, HasBatch, InRun, RunStages, Effects
<1>3. HeldOnce'
  BY DEF HeldOnce, Holds
<1>3a. \A v \in Workers : HasBatch(v) => stream'[pos[v]] = stream[pos[v]]
  BY HeldInStream DEF HasBatch
<1>3b. \A v \in Workers : InRun(v) \/ pc[v] = "ack" => Current(v)' = Current(v)
  BY <1>3a, RunsHold DEF Current
<1>4. ExclusiveRun'
  BY <1>3b DEF ExclusiveRun, InRun
<1>5. AckKnown'
  BY <1>3a, <1>3b, RunsHold DEF AckKnown
<1>6. AckedWasBegun'
  BY DEF TypeOK, AckedWasBegun
<1>7. QED
  BY <1>1, <1>2, <1>3, <1>4, <1>5, <1>6

LEMMA StartKeeps ==
  ASSUME CoreInv, NEW w \in Workers, Start(w)
  PROVE  CoreInv'
<1> USE DEF CoreInv, Start, Goto, groupVars, runVars
<1>1. TypeOK'
  BY DEF TypeOK, Stages, Current, Made
<1>2. BusyWorkersHold'
  BY DEF BusyWorkersHold, HasBatch, InRun, RunStages, Effects
<1>3. HeldOnce'
  BY DEF HeldOnce, Holds
<1>4. ExclusiveRun'
  BY DEF InRun, RunStages, Effects, Current, ExclusiveRun
<1>5. AckKnown'
  BY DEF Current, AckKnown
<1>6. AckedWasBegun'
  BY DEF AckedWasBegun
<1>7. QED
  BY <1>1, <1>2, <1>3, <1>4, <1>5, <1>6

LEMMA ReadKeeps ==
  ASSUME CoreInv, NEW w \in Workers, Read(w)
  PROVE  CoreInv'
<1> USE DEF CoreInv, Read, Deliver, LastOfBatch, Goto, groupVars, runVars
<1>1. TypeOK'
  <2>1. (stream \in Seq(Event))'
    BY DEF TypeOK
  <2>2. (delivered \in 0 .. Len(stream))'
    BY PipelineAssumption DEF TypeOK
  <2>3. (pending \subseteq 1 .. delivered)'
    BY DeliverMoves
  <2>4. (/\ runs \in [Candles -> RunStatus] /\ attempts \in [Candles -> Nat]
         /\ refused \subseteq Candles \X Nat)'
    BY DEF TypeOK
  <2>5. (effects \subseteq Effects \X Candles \X Nat)'
    BY DEF TypeOK
  <2>6. (pc \in [Workers -> Stages] /\ verdict \in [Workers -> Verdicts])'
    BY DEF TypeOK
  <2>7. (pos \in [Workers -> Nat \ {0}])'
    BY DEF TypeOK
  <2>8. (end \in [Workers -> 0 .. delivered])'
    BY PipelineAssumption DEF TypeOK
  <2>9. (faults \in 0 .. MaxFaults)'
    BY DEF TypeOK
  <2>10. QED
    BY <2>2, <2>3, <2>7, <2>8 DEF TypeOK
<1>2. BusyWorkersHold'
  BY DEF BusyWorkersHold, HasBatch, InRun, RunStages, Effects
<1>3. HeldOnce'
  BY DEF TypeOK, HeldOnce, Holds
<1>4. ExclusiveRun'
  <2>1. \A v \in Workers : InRun(v) => v # w /\ Current(v)' = Current(v)
    BY DEF InRun, RunStages, Effects, Current
  <2>2. QED
    BY <2>1 DEF ExclusiveRun, InRun
<1>5. AckKnown'
  BY DEF Current, AckKnown
<1>6. AckedWasBegun'
  BY DEF TypeOK, BusyWorkersHold, AckedWasBegun
<1>7. QED
  BY <1>1, <1>2, <1>3, <1>4, <1>5, <1>6

LEMMA SkipKeeps ==
  ASSUME CoreInv, NEW w \in Workers, Skip(w)
  PROVE  CoreInv'
<1> USE DEF CoreInv, Skip, Goto, groupVars, runVars
<1>1. TypeOK'
  BY DEF TypeOK, Stages, Current, Made
<1>2. BusyWorkersHold'
  BY DEF BusyWorkersHold, HasBatch, InRun, RunStages, Effects
<1>3. HeldOnce'
  BY DEF HeldOnce, Holds
<1>4. ExclusiveRun'
  BY <1>2 DEF BusyWorkersHold, InRun, Current, ExclusiveRun
<1>5. AckKnown'
  BY DEF Current, AckKnown
<1>6. AckedWasBegun'
  BY DEF AckedWasBegun
<1>7. QED
  BY <1>1, <1>2, <1>3, <1>4, <1>5, <1>6

LEMMA RejectKeeps ==
  ASSUME CoreInv, NEW w \in Workers, Reject(w)
  PROVE  CoreInv'
<1> USE DEF CoreInv, Reject, Exit, Goto, groupVars, runVars
<1>1. TypeOK'
  BY DEF TypeOK, Stages, Verdicts, Current, Made
<1>2. BusyWorkersHold'
  BY DEF TypeOK, BusyWorkersHold, HasBatch, InRun, RunStages, Effects
<1>3. HeldOnce'
  BY DEF TypeOK, HeldOnce, Holds
<1>4. ExclusiveRun'
  BY DEF InRun, RunStages, Effects, Current, ExclusiveRun
<1>5. AckKnown'
  BY DEF Current, AckKnown
<1>6. AckedWasBegun'
  BY DEF AckedWasBegun
<1>7. QED
  BY <1>1, <1>2, <1>3, <1>4, <1>5, <1>6

LEMMA AckKeeps ==
  ASSUME CoreInv, NEW w \in Workers, Ack(w)
  PROVE  CoreInv'
<1> USE DEF CoreInv, Ack, Goto, groupVars, runVars
<1>1. TypeOK'
  <2>1. (stream \in Seq(Event))'
    BY DEF TypeOK
  <2>2. (delivered \in 0 .. Len(stream))'
    BY DEF TypeOK
  <2>3. (pending \subseteq 1 .. delivered)'
    BY DEF TypeOK
  <2>4. (/\ runs \in [Candles -> RunStatus] /\ attempts \in [Candles -> Nat]
         /\ refused \subseteq Candles \X Nat)'
    BY DEF TypeOK
  <2>5. (effects \subseteq Effects \X Candles \X Nat)'
    BY DEF TypeOK
  <2>6. (pc \in [Workers -> Stages] /\ verdict \in [Workers -> Verdicts])'
    BY DEF TypeOK, Stages
  <2>7. (pos \in [Workers -> Nat \ {0}])'
    BY DEF TypeOK
  <2>8. (end \in [Workers -> 0 .. delivered])'
    BY DEF TypeOK
  <2>9. (faults \in 0 .. MaxFaults)'
    BY DEF TypeOK
  <2>10. QED
    BY <2>3, <2>6 DEF TypeOK
<1>2. BusyWorkersHold'
  BY DEF TypeOK, BusyWorkersHold, HasBatch, InRun, RunStages, Effects
<1>3. HeldOnce'
  <2>1. pos[w] \in Nat /\ end[w] \in Nat /\ pos[w] <= end[w]
    BY RunsHold DEF TypeOK, HasBatch
  <2>2. /\ pos'[w] = pos[w] + 1
        /\ \A v \in Workers \ {w} : pos'[v] = pos[v]
    BY DEF TypeOK
  <2>3. \A v \in Workers : \A i : Holds(v, i)' => Holds(v, i) /\ i # pos[w]
    BY <2>1, <2>2 DEF HeldOnce, Holds
  <2>4. QED
    BY <2>3 DEF HeldOnce, Holds
<1>4. ExclusiveRun'
  BY DEF InRun, RunStages, Effects, Current, ExclusiveRun
<1>5. AckKnown'
  BY DEF TypeOK, Current, AckKnown
<1>6. AckedWasBegun'
  BY DEF Current, AckKnown, AckedWasBegun
<1>7. QED
  BY <1>1, <1>2, <1>3, <1>4, <1>5, <1>6

LEMMA BeginKeeps ==
  ASSUME CoreInv, NEW w \in Workers, Begin(w)
  PROVE  CoreInv'
<1> USE DEF CoreInv, Begin, HandlesClosed, BeginRun, Startable, Goto, groupVars, runVars
<1>1. TypeOK'
  <2>1. (stream \in Seq(Event))'
    BY DEF TypeOK
  <2>2. (delivered \in 0 .. Len(stream))'
    BY DEF TypeOK
  <2>3. (pending \subseteq 1 .. delivered)'
    BY DEF TypeOK
  <2>4. (/\ runs \in [Candles -> RunStatus] /\ attempts \in [Candles -> Nat]
         /\ refused \subseteq Candles \X Nat)'
    <3>1. Current(w) \in Candles
      BY HeldInStream
    <3>2. QED
      BY <3>1 DEF TypeOK, RunStatus
  <2>5. (effects \subseteq Effects \X Candles \X Nat)'
    BY DEF TypeOK
  <2>6. (pc \in [Workers -> Stages] /\ verdict \in [Workers -> Verdicts])'
    BY DEF TypeOK, Stages, RunStages, Effects
  <2>7. (pos \in [Workers -> Nat \ {0}])'
    BY DEF TypeOK
  <2>8. (end \in [Workers -> 0 .. delivered])'
    BY DEF TypeOK
  <2>9. (faults \in 0 .. MaxFaults)'
    BY DEF TypeOK
  <2>10. QED
    BY <2>4, <2>6 DEF TypeOK
<1>2. BusyWorkersHold'
  BY DEF BusyWorkersHold, HasBatch, InRun
<1>3. HeldOnce'
  BY DEF HeldOnce, Holds
<1>4. ExclusiveRun'
  <2>1. Current(w) \in Candles /\ ~InRun(w)
    BY HeldInStream DEF InRun, RunStages, Effects
  <2>2. /\ \A v \in Workers : Current(v)' = Current(v)
        /\ \A v \in Workers \ {w} : InRun(v)' <=> InRun(v)
    BY DEF TypeOK, Current, InRun
  <2>3. \A v \in Workers : InRun(v) => Current(v) # Current(w)
    BY DEF ExclusiveRun
  <2>4. /\ runs'[Current(w)] = "processing"
        /\ \A c \in Candles : runs[c] = "processing" => runs'[c] = "processing"
    BY <2>1 DEF TypeOK
  <2>5. \A v \in Workers : InRun(v) => Current(v) \in Candles
    BY HeldInStream, RunsHold
  <2>6. QED
    BY <2>1, <2>2, <2>3, <2>4, <2>5 DEF ExclusiveRun
<1>5. AckKnown'
  BY DEF Current, AckKnown
<1>6. AckedWasBegun'
  BY DEF BusyWorkersHold, AckedWasBegun
<1>7. QED
  BY <1>1, <1>2, <1>3, <1>4, <1>5, <1>6

LEMMA AlreadyBegunKeeps ==
  ASSUME CoreInv, NEW w \in Workers, AlreadyBegun(w)
  PROVE  CoreInv'
<1> USE DEF CoreInv, AlreadyBegun, HandlesClosed, Startable, Goto, groupVars, runVars
<1>1. TypeOK'
  BY DEF TypeOK, Stages, Made
<1>2. BusyWorkersHold'
  BY DEF BusyWorkersHold, HasBatch, InRun
<1>3. HeldOnce'
  BY DEF HeldOnce, Holds
<1>4. ExclusiveRun'
  BY DEF InRun, RunStages, Effects, Current, ExclusiveRun
<1>5. AckKnown'
  BY DEF Current, AckKnown
<1>6. AckedWasBegun'
  BY DEF AckedWasBegun
<1>7. QED
  BY <1>1, <1>2, <1>3, <1>4, <1>5, <1>6

LEMMA AdvanceKeeps ==
  ASSUME CoreInv, NEW w \in Workers, Advance(w)
  PROVE  CoreInv'
<1> USE DEF CoreInv, Advance, Goto, groupVars, runVars
<1>1. TypeOK'
  <2>0. Current(w) \in Candles /\ attempts[Current(w)] \in Nat
    BY HeldInStream, RunsHold DEF TypeOK
  <2>1. (stream \in Seq(Event))'
    BY DEF TypeOK
  <2>2. (delivered \in 0 .. Len(stream))'
    BY DEF TypeOK
  <2>3. (pending \subseteq 1 .. delivered)'
    BY DEF TypeOK
  <2>4. (/\ runs \in [Candles -> RunStatus] /\ attempts \in [Candles -> Nat]
         /\ refused \subseteq Candles \X Nat)'
    BY <2>0 DEF TypeOK
  <2>5. (effects \subseteq Effects \X Candles \X Nat)'
    BY <2>0 DEF TypeOK, Made
  <2>6. (pc \in [Workers -> Stages] /\ verdict \in [Workers -> Verdicts])'
    BY DEF TypeOK, Stages
  <2>7. (pos \in [Workers -> Nat \ {0}])'
    BY DEF TypeOK
  <2>8. (end \in [Workers -> 0 .. delivered])'
    BY DEF TypeOK
  <2>9. (faults \in 0 .. MaxFaults)'
    BY DEF TypeOK
  <2>10. QED
    BY <2>4, <2>5, <2>6 DEF TypeOK
<1>2. BusyWorkersHold'
  BY DEF BusyWorkersHold, HasBatch, InRun, RunStages, Effects
<1>3. HeldOnce'
  BY DEF HeldOnce, Holds
<1>4. ExclusiveRun'
  BY DEF InRun, Current, ExclusiveRun
<1>5. AckKnown'
  BY DEF RunStages, Effects, Current, AckKnown
<1>6. AckedWasBegun'
  BY DEF AckedWasBegun
<1>7. QED
  BY <1>1, <1>2, <1>3, <1>4, <1>5, <1>6

LEMMA CompleteKeeps ==
  ASSUME CoreInv, NEW w \in Workers, Complete(w)
  PROVE  CoreInv'
<1> USE DEF CoreInv, Complete, CompleteRun, Goto, groupVars, runVars
<1>1. TypeOK'
  BY DEF TypeOK, Stages, RunStatus, Verdicts, Made
<1>2. BusyWorkersHold'
  BY DEF TypeOK, BusyWorkersHold, HasBatch, InRun, Stages
<1>3. HeldOnce'
  BY DEF HeldOnce, Holds
<1>4. ExclusiveRun'
  BY DEF TypeOK, InRun, RunStages, Effects, Current, ExclusiveRun
<1>5. AckKnown'
  BY <1>1 DEF TypeOK, Current, AckKnown
<1>6. AckedWasBegun'
  BY DEF Stages, AckedWasBegun
<1>7. QED
  BY <1>1, <1>2, <1>3, <1>4, <1>5, <1>6

LEMMA FailKeeps ==
  ASSUME CoreInv, NEW w \in Workers, Fail(w)
  PROVE  CoreInv'
<1> USE DEF CoreInv, Fail, FailRun, Exit, Goto, groupVars, runVars
<1>1. TypeOK'
  <2>1. (stream \in Seq(Event))'
    BY DEF TypeOK
  <2>2. (delivered \in 0 .. Len(stream))'
    BY DEF TypeOK
  <2>3. (pending \subseteq 1 .. delivered)'
    BY DEF TypeOK
  <2>4. (/\ runs \in [Candles -> RunStatus] /\ attempts \in [Candles -> Nat]
         /\ refused \subseteq Candles \X Nat)'
    BY DEF TypeOK, RunStatus
  <2>5. (effects \subseteq Effects \X Candles \X Nat)'
    BY DEF TypeOK
  <2>6. (pc \in [Workers -> Stages] /\ verdict \in [Workers -> Verdicts])'
    BY DEF TypeOK, Stages, Verdicts
  <2>7. (pos \in [Workers -> Nat \ {0}])'
    BY DEF TypeOK
  <2>8. (end \in [Workers -> 0 .. delivered])'
    BY DEF TypeOK
  <2>9. (faults \in 0 .. MaxFaults)'
    BY DEF TypeOK
  <2>10. QED
    BY <2>4, <2>6 DEF TypeOK
<1>2. BusyWorkersHold'
  BY DEF TypeOK, BusyWorkersHold, HasBatch, InRun, RunStages, Effects
<1>3. HeldOnce'
  BY DEF TypeOK, HeldOnce, Holds
<1>4. ExclusiveRun'
  BY DEF TypeOK, InRun, RunStages, Effects, Current, ExclusiveRun
<1>5. AckKnown'
  BY DEF Current, AckKnown
<1>6. AckedWasBegun'
  BY DEF Stages, AckedWasBegun
<1>7. QED
  BY <1>1, <1>2, <1>3, <1>4, <1>5, <1>6

LEMMA ReadLostKeeps ==
  ASSUME CoreInv, NEW w \in Workers, ReadLost(w)
  PROVE  CoreInv'
<1> USE DEF CoreInv, ReadLost, Fault, Deliver, LastOfBatch, Goto, groupVars, runVars
<1>1. TypeOK'
  <2>1. (stream \in Seq(Event))'
    BY DEF TypeOK
  <2>2. (delivered \in 0 .. Len(stream))'
    BY PipelineAssumption DEF TypeOK
  <2>3. (pending \subseteq 1 .. delivered)'
    BY DeliverMoves
  <2>4. (/\ runs \in [Candles -> RunStatus] /\ attempts \in [Candles -> Nat]
         /\ refused \subseteq Candles \X Nat)'
    BY DEF TypeOK
  <2>5. (effects \subseteq Effects \X Candles \X Nat)'
    BY DEF TypeOK
  <2>6. (pc \in [Workers -> Stages] /\ verdict \in [Workers -> Verdicts])'
    BY DEF TypeOK
  <2>7. (pos \in [Workers -> Nat \ {0}])'
    BY DEF TypeOK
  <2>8. (end \in [Workers -> 0 .. delivered])'
    BY PipelineAssumption DEF TypeOK
  <2>9. (faults \in 0 .. MaxFaults)'
    BY PipelineAssumption DEF TypeOK
  <2>10. QED
    BY <2>2, <2>3, <2>8, <2>9 DEF TypeOK
<1>2. BusyWorkersHold'
  BY DEF BusyWorkersHold, HasBatch, InRun
<1>3. HeldOnce'
  BY DEF HeldOnce, Holds
<1>4. ExclusiveRun'
  BY DEF InRun, Current, ExclusiveRun
<1>5. AckKnown'
  BY DEF Current, AckKnown
<1>6. AckedWasBegun'
  BY DEF TypeOK, Stages, AckedWasBegun
<1>7. QED
  BY <1>1, <1>2, <1>3, <1>4, <1>5, <1>6

LEMMA BeginFailsKeeps ==
  ASSUME CoreInv, NEW w \in Workers, BeginFails(w)
  PROVE  CoreInv'
<1> USE DEF CoreInv, BeginFails, Fault, HandlesClosed, BeginRun, Startable, Exit, Goto, groupVars, runVars
<1>1. TypeOK'
  <2>1. (stream \in Seq(Event))'
    BY DEF TypeOK
  <2>2. (delivered \in 0 .. Len(stream))'
    BY DEF TypeOK
  <2>3. (pending \subseteq 1 .. delivered)'
    BY DEF TypeOK
  <2>4. (/\ runs \in [Candles -> RunStatus] /\ attempts \in [Candles -> Nat]
         /\ refused \subseteq Candles \X Nat)'
    <3>1. CASE BeginRun(Current(w))
      <4>1. Current(w) \in Candles
        BY HeldInStream
      <4>2. QED
        BY <3>1, <4>1 DEF TypeOK, RunStatus
    <3>2. CASE UNCHANGED runVars
      BY <3>2 DEF TypeOK
    <3>3. QED
      BY <3>1, <3>2
  <2>5. (effects \subseteq Effects \X Candles \X Nat)'
    BY DEF TypeOK
  <2>6. (pc \in [Workers -> Stages] /\ verdict \in [Workers -> Verdicts])'
    BY DEF TypeOK, Stages, Verdicts
  <2>7. (pos \in [Workers -> Nat \ {0}])'
    BY DEF TypeOK
  <2>8. (end \in [Workers -> 0 .. delivered])'
    BY DEF TypeOK
  <2>9. (faults \in 0 .. MaxFaults)'
    BY PipelineAssumption DEF TypeOK
  <2>10. QED
    BY <2>4, <2>6, <2>9 DEF TypeOK
<1>2. BusyWorkersHold'
  BY DEF TypeOK, BusyWorkersHold, HasBatch, InRun, RunStages, Effects
<1>3. HeldOnce'
  BY DEF TypeOK, HeldOnce, Holds
<1>3a. /\ \A v \in Workers \ {w} : pc'[v] = pc[v] /\ Current(v)' = Current(v)
       /\ pc'[w] = "stopped"
  BY DEF TypeOK, Current
<1>3b. \A c \in Candles : /\ runs[c] # "none" => runs'[c] # "none"
                          /\ runs[c] = "processing" => runs'[c] = "processing"
  BY DEF TypeOK
<1>3c. \A v \in Workers : InRun(v) \/ pc[v] = "ack" => Current(v) \in Candles
  BY HeldInStream, RunsHold
<1>3d. \A i \in 1 .. delivered : stream[i] \in Event
  BY DEF TypeOK
<1>4. ExclusiveRun'
  BY <1>3a, <1>3b, <1>3c DEF ExclusiveRun, InRun, RunStages, Effects
<1>5. AckKnown'
  BY <1>3a, <1>3b, <1>3c DEF AckKnown
<1>6. AckedWasBegun'
  BY <1>3b, <1>3d DEF AckedWasBegun, Event
<1>7. QED
  BY <1>1, <1>2, <1>3, <1>4, <1>5, <1>6

LEMMA CompleteFailsKeeps ==
  ASSUME CoreInv, NEW w \in Workers, CompleteFails(w)
  PROVE  CoreInv'
<1> USE DEF CoreInv, CompleteFails, Fault, CompleteRun, Exit, Goto, groupVars, runVars
<1>1. TypeOK'
  <2>1. (stream \in Seq(Event))'
    BY DEF TypeOK
  <2>2. (delivered \in 0 .. Len(stream))'
    BY DEF TypeOK
  <2>3. (pending \subseteq 1 .. delivered)'
    BY DEF TypeOK
  <2>4. (/\ runs \in [Candles -> RunStatus] /\ attempts \in [Candles -> Nat]
         /\ refused \subseteq Candles \X Nat)'
    BY DEF TypeOK, RunStatus
  <2>5. (effects \subseteq Effects \X Candles \X Nat)'
    BY DEF TypeOK
  <2>6. (pc \in [Workers -> Stages] /\ verdict \in [Workers -> Verdicts])'
    BY DEF TypeOK, Stages, Verdicts
  <2>7. (pos \in [Workers -> Nat \ {0}])'
    BY DEF TypeOK
  <2>8. (end \in [Workers -> 0 .. delivered])'
    BY DEF TypeOK
  <2>9. (faults \in 0 .. MaxFaults)'
    BY PipelineAssumption DEF TypeOK
  <2>10. QED
    BY <2>4, <2>6, <2>9 DEF TypeOK
<1>2. BusyWorkersHold'
  BY DEF TypeOK, BusyWorkersHold, HasBatch, InRun, RunStages, Effects
<1>3. HeldOnce'
  BY DEF TypeOK, HeldOnce, Holds
<1>3a. /\ \A v \in Workers \ {w} : pc'[v] = pc[v] /\ Current(v)' = Current(v)
       /\ pc'[w] = "stopped"
  BY DEF TypeOK, Current
<1>3b. \A c \in Candles : /\ runs[c] # "none" => runs'[c] # "none"
                          /\ c # Current(w) => runs'[c] = runs[c]
  BY DEF TypeOK
<1>3c. \A v \in Workers : InRun(v) \/ pc[v] = "ack" => Current(v) \in Candles
  BY HeldInStream, RunsHold
<1>3d. \A i \in 1 .. delivered : stream[i] \in Event
  BY DEF TypeOK
<1>4. ExclusiveRun'
  <2>1. InRun(w)
    BY DEF InRun, RunStages
  <2>2. \A v \in Workers \ {w} : InRun(v) => Current(v) # Current(w)
    BY <2>1 DEF ExclusiveRun
  <2>3. QED
    BY <1>3a, <1>3b, <1>3c DEF ExclusiveRun, InRun, RunStages, Effects
<1>5. AckKnown'
  BY <1>3a, <1>3b, <1>3c DEF AckKnown
<1>6. AckedWasBegun'
  BY <1>3b, <1>3d DEF AckedWasBegun, Event
<1>7. QED
  BY <1>1, <1>2, <1>3, <1>4, <1>5, <1>6

LEMMA FailFailsKeeps ==
  ASSUME CoreInv, NEW w \in Workers, FailFails(w)
  PROVE  CoreInv'
<1> USE DEF CoreInv, FailFails, Fault, Exit, Goto, groupVars, runVars
<1>1. TypeOK'
  BY PipelineAssumption DEF TypeOK, Stages, Verdicts, Current, Made
<1>2. BusyWorkersHold'
  BY DEF TypeOK, BusyWorkersHold, HasBatch, InRun, RunStages, Effects
<1>3. HeldOnce'
  BY DEF TypeOK, HeldOnce, Holds
<1>4. ExclusiveRun'
  BY DEF TypeOK, InRun, RunStages, Effects, Current, ExclusiveRun
<1>5. AckKnown'
  BY DEF Current, AckKnown
<1>6. AckedWasBegun'
  BY DEF AckedWasBegun
<1>7. QED
  BY <1>1, <1>2, <1>3, <1>4, <1>5, <1>6

LEMMA AckFailsKeeps ==
  ASSUME CoreInv, NEW w \in Workers, AckFails(w)
  PROVE  CoreInv'
<1> USE DEF CoreInv, AckFails, Fault, Exit, Goto, groupVars, runVars
<1>1. TypeOK'
  <2>1. (stream \in Seq(Event))'
    BY DEF TypeOK
  <2>2. (delivered \in 0 .. Len(stream))'
    BY DEF TypeOK
  <2>3. (pending \subseteq 1 .. delivered)'
    BY DEF TypeOK
  <2>4. (/\ runs \in [Candles -> RunStatus] /\ attempts \in [Candles -> Nat]
         /\ refused \subseteq Candles \X Nat)'
    BY DEF TypeOK
  <2>5. (effects \subseteq Effects \X Candles \X Nat)'
    BY DEF TypeOK
  <2>6. (pc \in [Workers -> Stages] /\ verdict \in [Workers -> Verdicts])'
    BY DEF TypeOK, Stages, Verdicts
  <2>7. (pos \in [Workers -> Nat \ {0}])'
    BY DEF TypeOK
  <2>8. (end \in [Workers -> 0 .. delivered])'
    BY DEF TypeOK
  <2>9. (faults \in 0 .. MaxFaults)'
    BY PipelineAssumption DEF TypeOK
  <2>10. QED
    BY <2>3, <2>6, <2>9 DEF TypeOK
<1>2. BusyWorkersHold'
  BY DEF TypeOK, BusyWorkersHold, HasBatch, InRun, RunStages, Effects
<1>3. HeldOnce'
  <2>1. pos[w] \in Nat /\ end[w] \in Nat /\ pos[w] <= end[w]
    BY RunsHold DEF TypeOK, HasBatch
  <2>2. /\ pos'[w] = 1 /\ end'[w] = 0
        /\ \A v \in Workers \ {w} : pos'[v] = pos[v] /\ end'[v] = end[v]
    BY DEF TypeOK
  <2>3. \A v \in Workers : \A i : Holds(v, i)' => Holds(v, i) /\ i # pos[w]
    BY <2>1, <2>2 DEF HeldOnce, Holds
  <2>4. \A i \in pending : i # pos[w] => i \in pending'
    OBVIOUS
  <2>5. QED
    BY <2>3 DEF HeldOnce, Holds
<1>4. ExclusiveRun'
  BY DEF InRun, RunStages, Effects, Current, ExclusiveRun
<1>5. AckKnown'
  BY DEF TypeOK, Current, AckKnown
<1>6. AckedWasBegun'
  BY DEF Current, AckKnown, AckedWasBegun
<1>7. QED
  BY <1>1, <1>2, <1>3, <1>4, <1>5, <1>6

LEMMA CrashKeeps ==
  ASSUME CoreInv, NEW w \in Workers, Crash(w)
  PROVE  CoreInv'
<1> USE DEF CoreInv, Crash, Fault, Exit, Goto, groupVars, runVars
<1>1. TypeOK'
  BY PipelineAssumption DEF TypeOK, Stages, Effects, Verdicts, HasBatch,
     InRun, Current, Made
<1>2. BusyWorkersHold'
  BY DEF TypeOK, BusyWorkersHold, HasBatch, InRun, RunStages, Effects
<1>3. HeldOnce'
  BY DEF TypeOK, HeldOnce, Holds
<1>4. ExclusiveRun'
  BY DEF TypeOK, InRun, RunStages, Effects, Current, ExclusiveRun
<1>5. AckKnown'
  BY DEF TypeOK, Current, AckKnown
<1>6. AckedWasBegun'
  BY DEF AckedWasBegun
<1>7. QED
  BY <1>1, <1>2, <1>3, <1>4, <1>5, <1>6

-----------------------------------------------------------------------------

LEMMA InitCore == Init => CoreInv
<1> SUFFICES ASSUME Init PROVE CoreInv
  OBVIOUS
<1> USE DEF Init
<1>1. TypeOK
  <2>1. stream \in Seq(Event) /\ Len(stream) = 0
    OBVIOUS
  <2>2. /\ delivered \in 0 .. Len(stream)
        /\ end \in [Workers -> 0 .. delivered]
        /\ pending \subseteq 1 .. delivered
    OBVIOUS
  <2>3. faults \in 0 .. MaxFaults
    BY PipelineAssumption
  <2>4. /\ runs \in [Candles -> RunStatus]
        /\ attempts \in [Candles -> Nat]
        /\ refused \subseteq Candles \X Nat
        /\ effects \subseteq Effects \X Candles \X Nat
    BY DEF RunStatus
  <2>5. /\ pc \in [Workers -> Stages]
        /\ pos \in [Workers -> Nat \ {0}]
        /\ verdict \in [Workers -> Verdicts]
    BY DEF Stages, Verdicts
  <2>6. QED
    BY <2>1, <2>2, <2>3, <2>4, <2>5 DEF TypeOK
<1>2. BusyWorkersHold
  BY DEF BusyWorkersHold, HasBatch, InRun, RunStages, Effects
<1>3. HeldOnce /\ AckedWasBegun
  BY DEF HeldOnce, AckedWasBegun
<1>4. ExclusiveRun /\ AckKnown
  BY DEF ExclusiveRun, AckKnown, InRun, RunStages, Effects
<1>5. QED
  BY <1>1, <1>2, <1>3, <1>4 DEF CoreInv

LEMMA StutterCore ==
  ASSUME CoreInv, UNCHANGED vars
  PROVE  CoreInv'
BY DEF vars, CoreInv, TypeOK, BusyWorkersHold, HeldOnce, Holds, ExclusiveRun,
   AckKnown, AckedWasBegun, HasBatch, InRun, Current

LEMMA NextCore ==
  ASSUME CoreInv, [Next]_vars
  PROVE  CoreInv'
<1>1. CASE Publish
  BY <1>1, PublishKeeps
<1>2. ASSUME NEW w \in Workers, WorkerStep(w)
      PROVE  CoreInv'
  <2>1. CASE Start(w) \/ Read(w) \/ Skip(w) \/ Reject(w) \/ Ack(w)
    BY <2>1, StartKeeps, ReadKeeps, SkipKeeps, RejectKeeps, AckKeeps
  <2>2. CASE Begin(w) \/ AlreadyBegun(w) \/ Complete(w) \/ Fail(w)
    BY <2>2, BeginKeeps, AlreadyBegunKeeps, CompleteKeeps, FailKeeps
  <2>3. CASE \/ PersistCandle(w) \/ SaveSignal(w) \/ PublishSignal(w)
             \/ SaveDecision(w) \/ PublishDecision(w) \/ CheckSafety(w)
             \/ SaveOrder(w) \/ SaveFailedOrder(w) \/ SaveTrade(w)
             \/ SaveOrderEvents(w) \/ SaveAccount(w) \/ PublishExecution(w)
             \/ Refuse(w)
    BY <2>3, RunStepsAdvance, AdvanceKeeps DEF CoreInv
  <2>4. QED
    BY <1>2, <2>1, <2>2, <2>3 DEF WorkerStep, RunStep
<1>3. ASSUME NEW w \in Workers, FaultStep(w)
      PROVE  CoreInv'
  <2>1. CASE CallFails(w)
    BY <2>1, RunStepsAdvance, AdvanceKeeps DEF CoreInv
  <2>2. CASE \/ ReadLost(w) \/ BeginFails(w) \/ CompleteFails(w)
             \/ FailFails(w) \/ AckFails(w) \/ Crash(w)
    BY <2>2, ReadLostKeeps, BeginFailsKeeps, CompleteFailsKeeps,
       FailFailsKeeps, AckFailsKeeps, CrashKeeps
  <2>3. QED
    BY <1>3, <2>1, <2>2 DEF FaultStep
<1>4. CASE UNCHANGED vars
  BY <1>4, StutterCore
<1>5. QED
  BY <1>1, <1>2, <1>3, <1>4 DEF Next, Poll

\* The inductive invariant holds in every reachable state.
THEOREM CoreInvariant == Spec => []CoreInv
BY InitCore, NextCore, PTL DEF Spec

\* Every variable keeps its type, whatever the workers, candles and bounds; in
\* particular a worker never looks at an entry beyond the end of the stream.
THEOREM TypeCorrect == Spec => []TypeOK
<1>1. CoreInv => TypeOK
  BY DEF CoreInv
<1>2. QED
  BY <1>1, CoreInvariant, PTL

\* Consumer group: no entry is ever in the hands of two workers, and none is
\* held that is not pending.
THEOREM EntriesHeldOnce == Spec => []HeldOnce
<1>1. CoreInv => HeldOnce
  BY DEF CoreInv
<1>2. QED
  BY <1>1, CoreInvariant, PTL

\* Idempotency.Begin lets one worker at a time run a candle, for any number of
\* workers, duplicates, failed calls and crashes.
THEOREM RunsExclude == Spec => []ExclusiveRun
<1>1. CoreInv => ExclusiveRun
  BY DEF CoreInv
<1>2. QED
  BY <1>1, CoreInvariant, PTL

\* Consumer.Run acknowledges a closed candle only once a run was begun for it.
THEOREM AckedOnlyBegun == Spec => []AckedWasBegun
<1>1. CoreInv => AckedWasBegun
  BY DEF CoreInv
<1>2. QED
  BY <1>1, CoreInvariant, PTL

-----------------------------------------------------------------------------
(* Completion is final.                                                    *)

\* Only the run of the candle a worker is in writes rows and changes its
\* record, and that record says 'processing'.
LEMMA CompletedIsFinal ==
  ASSUME CoreInv, [Next]_vars, NEW c \in Candles, runs[c] = "completed"
  PROVE  /\ runs'[c] = "completed"
         /\ \A r \in effects' \ effects : r[2] # c
<1>1. ASSUME NEW w \in Workers, InRun(w)
      PROVE  Current(w) # c
  BY <1>1 DEF CoreInv, ExclusiveRun
<1>2. runs \in [Candles -> RunStatus]
  BY DEF CoreInv, TypeOK
<1>3. ASSUME NEW w \in Workers, Advance(w)
      PROVE  /\ runs'[c] = "completed"
             /\ \A r \in effects' \ effects : r[2] # c
  BY <1>1, <1>3 DEF Advance, Made
<1>4. ASSUME NEW w \in Workers, WorkerStep(w) \/ FaultStep(w)
      PROVE  /\ runs'[c] = "completed"
             /\ \A r \in effects' \ effects : r[2] # c
  <2>1. CASE Complete(w) \/ CompleteFails(w) \/ Fail(w)
    BY <1>1, <1>2, <2>1 DEF Complete, CompleteFails, Fail, CompleteRun,
       FailRun, InRun, RunStages, runVars
  <2>2. CASE Begin(w) \/ BeginFails(w)
    BY <1>2, <2>2 DEF Begin, BeginFails, BeginRun, Startable, runVars
  <2>3. CASE \/ PersistCandle(w) \/ SaveSignal(w) \/ PublishSignal(w)
             \/ SaveDecision(w) \/ PublishDecision(w) \/ CheckSafety(w)
             \/ SaveOrder(w) \/ SaveFailedOrder(w) \/ SaveTrade(w)
             \/ SaveOrderEvents(w) \/ SaveAccount(w) \/ PublishExecution(w)
             \/ Refuse(w) \/ CallFails(w)
    BY <1>3, <2>3, RunStepsAdvance DEF CoreInv
  <2>4. CASE \/ Start(w) \/ Read(w) \/ Skip(w) \/ Reject(w) \/ Ack(w)
             \/ AlreadyBegun(w)
    BY <2>4 DEF Start, Read, Skip, Reject, Ack, AlreadyBegun, runVars
  <2>5. CASE ReadLost(w) \/ FailFails(w) \/ AckFails(w) \/ Crash(w)
    BY <2>5 DEF ReadLost, FailFails, AckFails, Crash, runVars
  <2>6. QED
    BY <1>4, <2>1, <2>2, <2>3, <2>4, <2>5 DEF WorkerStep, RunStep, FaultStep
<1>5. CASE Publish \/ UNCHANGED vars
  BY <1>5 DEF Publish, runVars, vars
<1>6. QED
  BY <1>4, <1>5 DEF Next, Poll

\* A completed run stays completed and gets no further rows or publications,
\* whatever is delivered again, fails or crashes later.
THEOREM CompletionIsFinal == Spec => NothingAfterCompletion
<1>1. CoreInv /\ [Next]_vars
        => [\A c \in Candles : runs[c] = "completed" =>
              /\ runs'[c] = "completed"
              /\ \A r \in effects' \ effects : r[2] # c]_vars
  BY CompletedIsFinal
<1>2. QED
  BY <1>1, CoreInvariant, PTL DEF Spec, NothingAfterCompletion

\* The worker in a run is the only one in it.
LEMMA RunnerIsAlone ==
  ASSUME CoreInv, NEW w \in Workers, InRun(w)
  PROVE  /\ Current(w) \in Candles
         /\ runs[Current(w)] = "processing"
         /\ Holders(Current(w)) = {w}
<1>1. Current(w) \in Candles
  BY RunsHold, HeldInStream DEF CoreInv
<1>2. QED
  BY <1>1 DEF CoreInv, ExclusiveRun, Holders

\* Entries stay what they are: the environment changes no worker's run.
LEMMA RunsSeeTheirEntry ==
  ASSUME CoreInv, Publish \/ UNCHANGED vars
  PROVE  \A v \in Workers : InRun(v) => Current(v)' = Current(v)
<1>1. UNCHANGED pos
  BY DEF Publish, vars
<1>2. CASE UNCHANGED stream
  BY <1>1, <1>2 DEF Current
<1>3. CASE Publish
  <2>1. \A i \in 1 .. Len(stream) : stream'[i] = stream[i]
    BY <1>3 DEF CoreInv, TypeOK, Publish, Event
  <2>2. \A v \in Workers : InRun(v) => pos[v] \in 1 .. Len(stream)
    BY RunsHold, HeldInStream DEF CoreInv
  <2>3. QED
    BY <1>1, <2>1, <2>2 DEF Current
<1>4. QED
  BY <1>2, <1>3 DEF vars

-----------------------------------------------------------------------------
(* What the attempts of a run leave behind.                                *)

\* The rows and publications of attempt n at candle c.
MadeIn(c, n) == {e \in Effects : <<e, c, n>> \in effects}

Opening == {"candle", "signal", "signalEvent", "decision"}

Decided == Opening \cup {"decisionEvent"}

Filled == Decided \cup {"order", "trade", "orderEvents", "account"}

Unfilled == Decided \cup {"failedOrder", "orderEvents"}

\* What an attempt that comes to its end has made.
Ends == {Decided, Filled \cup {"executionEvent"}, Unfilled \cup {"executionEvent"}}

\* What an attempt has made when its next call is stage.
AtStage(stage, v, E) ==
  \/ stage = "fail"
  \/ stage = "candle" /\ E = {}
  \/ stage = "signal" /\ E = {"candle"}
  \/ stage = "signalEvent" /\ E = {"candle", "signal"}
  \/ stage = "decision" /\ E = {"candle", "signal", "signalEvent"}
  \/ stage = "decisionEvent" /\ E = Opening
  \/ stage \in {"safety", "order"} /\ v = "approved" /\ E = Decided
  \/ stage = "failedOrder" /\ v = "unfilled" /\ E = Decided
  \/ stage = "trade" /\ v = "approved" /\ E = Decided \cup {"order"}
  \/ stage = "orderEvents" /\ v = "approved" /\ E = Decided \cup {"order", "trade"}
  \/ stage = "orderEvents" /\ v = "unfilled" /\ E = Decided \cup {"failedOrder"}
  \/ stage = "account" /\ v = "approved"
     /\ E = Decided \cup {"order", "trade", "orderEvents"}
  \/ stage = "executionEvent" /\ E \in {Filled, Unfilled}
  \/ stage = "complete" /\ E \in Ends

\* EffectsInOrder of one attempt.
InOrder(E) ==
  /\ "signal" \in E => "candle" \in E
  /\ "decision" \in E => "signalEvent" \in E
  /\ "order" \in E \/ "failedOrder" \in E => "decisionEvent" \in E
  /\ "order" \in E => "failedOrder" \notin E
  /\ "trade" \in E => "order" \in E
  /\ "account" \in E => "trade" \in E /\ "orderEvents" \in E
  /\ "executionEvent" \in E =>
       "account" \in E \/ ("failedOrder" \in E /\ "orderEvents" \in E)

Story(w) ==
  InRun(w) =>
    /\ attempts[Current(w)] >= 1
    /\ AtStage(pc[w], verdict[w], MadeIn(Current(w), attempts[Current(w)]))

StoryInv ==
  /\ \A r \in effects : r[3] \in 1 .. attempts[r[2]]
  /\ \A c \in Candles, n \in Nat : InOrder(MadeIn(c, n))
  /\ \A w \in Workers : Story(w)
  /\ \A c \in Candles : runs[c] = "completed" => MadeIn(c, attempts[c]) \in Ends

\* The call a stage is named after may follow what was made before.
LEMMA NextInOrder ==
  ASSUME NEW e \in Effects, NEW v, NEW E, AtStage(e, v, E)
  PROVE  InOrder(E \cup {e})
BY DEF AtStage, InOrder, Effects, Opening, Decided, Filled, Unfilled

\* A call adds its row to the attempt of its worker, and to no other.
LEMMA MadeGrows ==
  ASSUME CoreInv, NEW w \in Workers, InRun(w), NEW e \in Effects,
         effects' = effects \cup {Made(w, e)}, UNCHANGED <<attempts, stream, pos>>
  PROVE  LET c == Current(w) IN
         /\ MadeIn(c, attempts[c])' = MadeIn(c, attempts[c]) \cup {e}
         /\ \A d, n : d # c \/ n # attempts[c] => MadeIn(d, n)' = MadeIn(d, n)
<1> DEFINE c == Current(w)
<1>1. Current(w)' = c
  BY DEF Current
<1>2. \A f, d, n : <<f, d, n>> \in effects' <=>
        (<<f, d, n>> \in effects \/ (f = e /\ d = c /\ n = attempts[c]))
  BY DEF Made
<1>3. MadeIn(c, attempts[c])' = MadeIn(c, attempts[c]) \cup {e}
  BY <1>1, <1>2 DEF MadeIn
<1>4. \A d, n : d # c \/ n # attempts[c] => MadeIn(d, n)' = MadeIn(d, n)
  BY <1>2 DEF MadeIn
<1>5. QED
  BY <1>3, <1>4

\* One call of a run, with its effect.
LEMMA CallAtStage ==
  ASSUME CoreInv, NEW w \in Workers, NEW e \in Effects, NEW s \in RunStages,
         Call(w, e, s), NEW E, AtStage(e, verdict[w], E),
         \/ PersistCandle(w) \/ SaveSignal(w) \/ PublishSignal(w)
         \/ SaveDecision(w) \/ PublishDecision(w)
         \/ SaveOrder(w) \/ SaveFailedOrder(w) \/ SaveTrade(w)
         \/ SaveOrderEvents(w) \/ SaveAccount(w) \/ PublishExecution(w)
  PROVE  AtStage(pc'[w], verdict'[w], E \cup {e})
<1> USE DEF AtStage, Opening, Decided, Filled, Unfilled, Ends, Effects
<1>0. pc[w] = e /\ pc'[w] = s /\ verdict \in [Workers -> Verdicts]
  BY DEF Call, Goto, CoreInv, TypeOK
<1>1. CASE PersistCandle(w) \/ SaveSignal(w) \/ PublishSignal(w)
  BY <1>0, <1>1 DEF PersistCandle, SaveSignal, PublishSignal, Call, Goto, CoreInv, TypeOK
<1>2. CASE SaveDecision(w)
  BY <1>0, <1>2 DEF SaveDecision, Call, Goto, CoreInv, TypeOK
<1>3. CASE PublishDecision(w)
  BY <1>0, <1>3 DEF PublishDecision, Call, Goto, CoreInv, TypeOK
<1>4. CASE SaveOrder(w) \/ SaveFailedOrder(w) \/ SaveTrade(w)
  BY <1>0, <1>4 DEF SaveOrder, SaveFailedOrder, SaveTrade, Call, Goto, CoreInv, TypeOK
<1>5. CASE SaveOrderEvents(w)
  BY <1>0, <1>5 DEF SaveOrderEvents, Call, Goto, CoreInv, TypeOK
<1>6. CASE SaveAccount(w) \/ PublishExecution(w)
  BY <1>0, <1>6 DEF SaveAccount, PublishExecution, Call, Goto, CoreInv, TypeOK
<1>7. QED
  BY <1>1, <1>2, <1>3, <1>4, <1>5, <1>6

\* A step of a run that calls, with or without effect.
LEMMA CallKeepsStory ==
  ASSUME CoreInv, StoryInv, NEW w \in Workers, NEW e \in Effects, Advance(w),
         pc[w] = e, effects' = effects \cup {Made(w, e)},
         AtStage(pc'[w], verdict'[w],
                 MadeIn(Current(w), attempts[Current(w)]) \cup {e}),
         \A v \in Workers \ {w} : verdict'[v] = verdict[v]
  PROVE  StoryInv'
<1> DEFINE c == Current(w)
           n == attempts[c]
<1>1. /\ InRun(w) /\ UNCHANGED <<stream, runs, attempts, pos>>
      /\ \A v \in Workers \ {w} : pc'[v] = pc[v]
      /\ c \in Candles /\ runs[c] = "processing" /\ n \in Nat /\ n >= 1
      /\ \A v \in Workers \ {w} : InRun(v) => Current(v) # c
  BY RunnerIsAlone DEF Advance, CoreInv, TypeOK, ExclusiveRun, StoryInv, Story
<1>2. /\ MadeIn(c, n)' = MadeIn(c, n) \cup {e}
      /\ \A d, k : d # c \/ k # n => MadeIn(d, k)' = MadeIn(d, k)
  BY <1>1, MadeGrows
<1>3. \A v \in Workers : Current(v)' = Current(v)
  BY <1>1 DEF Current
<1>4. n' = n
  BY <1>1 DEF Current
<1>5. AtStage(e, verdict[w], MadeIn(c, n))
  BY <1>1 DEF StoryInv, Story
<1>6. InOrder(MadeIn(c, n) \cup {e})
  BY <1>5, NextInOrder
<1> HIDE DEF c, n
<1>7. \A r \in effects' : r[3] \in 1 .. attempts'[r[2]]
  BY <1>1 DEF StoryInv, Made, c, n
<1>8. \A d \in Candles, k \in Nat : InOrder(MadeIn(d, k))'
  <2> TAKE d \in Candles, k \in Nat
  <2>1. CASE d = c /\ k = n
    <3>1. MadeIn(d, k)' = MadeIn(c, n) \cup {e}
      <4>1. c' = c
        BY <1>3 DEF c
      <4>2. QED
        BY <1>2, <1>4, <2>1, <4>1 DEF MadeIn
    <3>2. QED
      BY <1>6, <3>1 DEF InOrder
  <2>2. CASE d # c \/ k # n
    BY <1>2, <2>2 DEF StoryInv, InOrder
  <2>3. QED
    BY <2>1, <2>2
<1>9. \A v \in Workers : Story(v)'
  <2> SUFFICES ASSUME NEW v \in Workers, InRun(v)'
               PROVE  /\ attempts[Current(v)] >= 1
                      /\ AtStage(pc'[v], verdict'[v],
                                 MadeIn(Current(v), attempts[Current(v)])')
    BY <1>1, <1>3 DEF Story
  <2>1. CASE v = w
    <3>1. MadeIn(Current(v), attempts[Current(v)])' = MadeIn(c, n) \cup {e}
      BY <1>2, <1>3, <1>4, <2>1 DEF c, n
    <3>2. QED
      BY <1>1, <2>1, <3>1 DEF c, n
  <2>2. CASE v # w
    <3>1. InRun(v) /\ Current(v) # c
      BY <1>1, <2>2 DEF InRun
    <3>2. MadeIn(Current(v), attempts[Current(v)])'
            = MadeIn(Current(v), attempts[Current(v)])
      BY <1>1, <1>2, <1>3, <3>1
    <3>3. QED
      BY <1>1, <2>2, <3>1, <3>2 DEF StoryInv, Story
  <2>3. QED
    BY <2>1, <2>2
<1>10. \A d \in Candles : runs'[d] = "completed" => MadeIn(d, attempts[d])' \in Ends
  <2> TAKE d \in Candles
  <2>1. runs'[d] = "completed" => d # c
    BY <1>1
  <2>2. QED
    BY <1>1, <1>2, <2>1 DEF StoryInv
<1>11. QED
  BY <1>7, <1>8, <1>9, <1>10 DEF StoryInv

\* A step that makes nothing and leaves the attempts alone: workers that are in
\* a run after it were in it before, and completed are only runs at their end.
LEMMA SilentKeepsStory ==
  ASSUME CoreInv, StoryInv, UNCHANGED <<effects, attempts>>,
         \A v \in Workers : InRun(v)' =>
           /\ InRun(v) /\ Current(v)' = Current(v)
           /\ AtStage(pc'[v], verdict'[v], MadeIn(Current(v), attempts[Current(v)])),
         \A c \in Candles : runs'[c] = "completed" =>
           runs[c] = "completed" \/ MadeIn(c, attempts[c]) \in Ends
  PROVE  StoryInv'
<1>1. \A d, k : MadeIn(d, k)' = MadeIn(d, k)
  BY DEF MadeIn
<1>2. \A d \in Candles, k \in Nat : InOrder(MadeIn(d, k))'
  BY <1>1 DEF StoryInv, InOrder
<1>3. \A v \in Workers : Story(v)'
  BY <1>1 DEF StoryInv, Story
<1>4. \A d \in Candles : runs'[d] = "completed" => MadeIn(d, attempts[d])' \in Ends
  BY <1>1 DEF StoryInv
<1>5. QED
  BY <1>2, <1>3, <1>4 DEF StoryInv

\* A run is begun: its attempt has made nothing.
LEMMA BegunKeepsStory ==
  ASSUME CoreInv, StoryInv, NEW w \in Workers, HandlesClosed(w),
         BeginRun(Current(w)), UNCHANGED <<stream, effects>>,
         \A v \in Workers \ {w} :
           pc'[v] = pc[v] /\ pos'[v] = pos[v] /\ verdict'[v] = verdict[v],
         (pos'[w] = pos[w] /\ pc'[w] = "candle") \/ ~InRun(w)'
  PROVE  StoryInv'
<1> DEFINE c == Current(w)
<1>1. /\ c \in Candles /\ runs[c] \in {"none", "failed"} /\ attempts[c] \in Nat
      /\ runs' = [runs EXCEPT ![c] = "processing"]
      /\ attempts' = [attempts EXCEPT ![c] = @ + 1]
      /\ attempts \in [Candles -> Nat] /\ runs \in [Candles -> RunStatus]
  BY HeldInStream DEF HandlesClosed, BeginRun, Startable, CoreInv, TypeOK
<1>2. \A v \in Workers : InRun(v) => Current(v) # c
  BY <1>1 DEF CoreInv, ExclusiveRun
<1>3. \A d, k : MadeIn(d, k)' = MadeIn(d, k)
  BY DEF MadeIn
<1>4. MadeIn(c, attempts[c] + 1) = {}
  <2>1. \A f : <<f, c, attempts[c] + 1>> \notin effects
    <3> SUFFICES ASSUME NEW f, <<f, c, attempts[c] + 1>> \in effects PROVE FALSE
      OBVIOUS
    <3>1. attempts[c] + 1 \in 1 .. attempts[c]
      BY DEF StoryInv
    <3>2. QED
      BY <1>1, <3>1
  <2>2. QED
    BY <2>1 DEF MadeIn
<1> HIDE DEF c
<1>5. \A r \in effects' : r[3] \in 1 .. attempts'[r[2]]
  <2> TAKE r \in effects'
  <2>1. r \in effects /\ r[2] \in Candles /\ r[3] \in 1 .. attempts[r[2]]
    BY DEF StoryInv, CoreInv, TypeOK
  <2>2. attempts[r[2]] \in Nat /\ attempts'[r[2]] \in Nat
        /\ attempts[r[2]] <= attempts'[r[2]]
    BY <1>1, <2>1
  <2>3. QED
    BY <2>1, <2>2
<1>6. \A d \in Candles, k \in Nat : InOrder(MadeIn(d, k))'
  BY <1>3 DEF StoryInv, InOrder
<1>7. \A v \in Workers : Story(v)'
  <2> SUFFICES ASSUME NEW v \in Workers, InRun(v)' PROVE Story(v)'
    BY DEF Story
  <2>1. CASE v = w
    <3>1. pc'[w] = "candle" /\ Current(w)' = c
      BY <2>1 DEF Current, c
    <3>2. attempts'[c] = attempts[c] + 1 /\ attempts'[c] >= 1
      BY <1>1
    <3>3. MadeIn(Current(w), attempts[Current(w)])' = {}
      BY <1>3, <1>4, <3>1, <3>2
    <3>4. QED
      BY <2>1, <3>1, <3>2, <3>3 DEF Story, AtStage
  <2>2. CASE v # w
    <3>1. InRun(v) /\ Current(v)' = Current(v) /\ Current(v) # c
      BY <1>2, <2>2 DEF InRun, Current
    <3>2. Current(v) \in Candles /\ attempts'[Current(v)] = attempts[Current(v)]
      BY <1>1, <3>1, RunnerIsAlone
    <3>3. QED
      BY <1>3, <2>2, <3>1, <3>2 DEF StoryInv, Story
  <2>3. QED
    BY <2>1, <2>2
<1>8. \A d \in Candles : runs'[d] = "completed" => MadeIn(d, attempts[d])' \in Ends
  BY <1>1, <1>3 DEF StoryInv
<1>9. QED
  BY <1>5, <1>6, <1>7, <1>8 DEF StoryInv

\* The steps of a run between Begin and Complete.
LEMMA AdvanceKeepsStory ==
  ASSUME CoreInv, StoryInv, NEW w \in Workers,
         \/ PersistCandle(w) \/ SaveSignal(w) \/ PublishSignal(w)
         \/ SaveDecision(w) \/ PublishDecision(w) \/ CheckSafety(w)
         \/ SaveOrder(w) \/ SaveFailedOrder(w) \/ SaveTrade(w)
         \/ SaveOrderEvents(w) \/ SaveAccount(w) \/ PublishExecution(w)
         \/ Refuse(w) \/ CallFails(w)
  PROVE  StoryInv'
<1> DEFINE E == MadeIn(Current(w), attempts[Current(w)])
<1>1. Advance(w) /\ InRun(w) /\ TypeOK
  BY RunStepsAdvance DEF CoreInv, Advance
<1>2. AtStage(pc[w], verdict[w], E)
  BY <1>1 DEF StoryInv, Story
<1>3. \A v \in Workers : Current(v)' = Current(v)
  BY <1>1 DEF Advance, Current
<1> HIDE DEF E
<1>4. CASE ~CheckSafety(w) /\ ~CallFails(w) /\ ~Refuse(w)
  <2>1. PICK e \in Effects, s \in RunStages : Call(w, e, s)
    BY <1>4 DEF PersistCandle, SaveSignal, PublishSignal, SaveDecision,
       PublishDecision, SaveOrder, SaveFailedOrder, SaveTrade, SaveOrderEvents,
       SaveAccount, PublishExecution, Effects, RunStages
  <2>2. pc[w] = e /\ effects' = effects \cup {Made(w, e)}
    BY <2>1 DEF Call
  <2>3. AtStage(pc'[w], verdict'[w], E \cup {e})
    BY <1>2, <1>4, <2>1, <2>2, CallAtStage
  <2>4. \A v \in Workers \ {w} : verdict'[v] = verdict[v]
    BY <1>1, <1>4 DEF TypeOK, PersistCandle, SaveSignal, PublishSignal, SaveDecision,
       PublishDecision, SaveOrder, SaveFailedOrder, SaveTrade, SaveOrderEvents,
       SaveAccount, PublishExecution
  <2>5. QED
    BY <1>1, <2>2, <2>3, <2>4, CallKeepsStory DEF E
<1>5. CASE CheckSafety(w)
  <2>1. /\ UNCHANGED <<effects, attempts, runs>>
        /\ \A v \in Workers \ {w} : pc'[v] = pc[v] /\ verdict'[v] = verdict[v]
    BY <1>1, <1>5 DEF CheckSafety, Goto, TypeOK, runVars
  <2>2. AtStage(pc'[w], verdict'[w], E)
    BY <1>1, <1>2, <1>5 DEF CheckSafety, Goto, TypeOK, AtStage, Ends
  <2>3. \A v \in Workers : InRun(v)' =>
          InRun(v) /\ AtStage(pc'[v], verdict'[v], MadeIn(Current(v), attempts[Current(v)]))
    BY <1>1, <2>1, <2>2 DEF StoryInv, Story, InRun, E
  <2>4. QED
    BY <1>3, <2>1, <2>3, SilentKeepsStory
<1>6. CASE CallFails(w)
  <2>1. /\ UNCHANGED <<attempts, runs, verdict>> /\ pc'[w] = "fail"
        /\ \A v \in Workers \ {w} : pc'[v] = pc[v]
    BY <1>1, <1>6 DEF CallFails, Goto, TypeOK, runVars
  <2>2. \A F : AtStage(pc'[w], verdict'[w], F)
    BY <2>1 DEF AtStage
  <2>3. CASE UNCHANGED effects
    <3>1. \A v \in Workers : InRun(v)' =>
            InRun(v) /\ AtStage(pc'[v], verdict'[v], MadeIn(Current(v), attempts[Current(v)]))
      BY <1>1, <2>1, <2>2 DEF StoryInv, Story, InRun
    <3>2. QED
      BY <1>3, <2>1, <2>3, <3>1, SilentKeepsStory
  <2>4. CASE pc[w] \in Effects /\ effects' = effects \cup {Made(w, pc[w])}
    BY <1>1, <2>1, <2>2, <2>4, CallKeepsStory
  <2>5. QED
    BY <1>6, <2>3, <2>4 DEF CallFails
<1>7. CASE Refuse(w)
  <2>1. /\ UNCHANGED <<effects, attempts, runs, verdict>> /\ pc'[w] = "fail"
        /\ \A v \in Workers \ {w} : pc'[v] = pc[v]
    BY <1>1, <1>7 DEF Refuse, Goto, TypeOK
  <2>2. \A F : AtStage(pc'[w], verdict'[w], F)
    BY <2>1 DEF AtStage
  <2>3. \A v \in Workers : InRun(v)' =>
          InRun(v) /\ AtStage(pc'[v], verdict'[v], MadeIn(Current(v), attempts[Current(v)]))
    BY <1>1, <2>1, <2>2 DEF StoryInv, Story, InRun
  <2>4. QED
    BY <1>3, <2>1, <2>3, SilentKeepsStory
<1>8. QED
  BY <1>4, <1>5, <1>6, <1>7

LEMMA StoryKept ==
  ASSUME CoreInv, StoryInv, [Next]_vars
  PROVE  StoryInv'
<1>1. ASSUME NEW w \in Workers, WorkerStep(w) \/ FaultStep(w)
      PROVE  StoryInv'
  <2>0. /\ pc \in [Workers -> Stages] /\ pos \in [Workers -> Nat \ {0}]
        /\ verdict \in [Workers -> Verdicts] /\ runs \in [Candles -> RunStatus]
    BY DEF CoreInv, TypeOK
  <2>1. CASE Begin(w)
    <3>1. /\ HandlesClosed(w) /\ BeginRun(Current(w)) /\ UNCHANGED <<stream, effects>>
          /\ UNCHANGED <<pos, verdict>> /\ pc' = [pc EXCEPT ![w] = "candle"]
      BY <2>1, Zenon DEF Begin, Goto
    <3>2. /\ \A v \in Workers \ {w} :
               pc'[v] = pc[v] /\ pos'[v] = pos[v] /\ verdict'[v] = verdict[v]
          /\ pos'[w] = pos[w] /\ pc'[w] = "candle"
      BY <2>0, <3>1
    <3>3. QED
      BY <3>1, <3>2, BegunKeepsStory
  <2>2. CASE BeginFails(w) /\ BeginRun(Current(w))
    <3>1. HandlesClosed(w) /\ UNCHANGED <<stream, effects>> /\ Exit(w)
      BY <2>2, Zenon DEF BeginFails
    <3>2. /\ \A v \in Workers \ {w} :
               pc'[v] = pc[v] /\ pos'[v] = pos[v] /\ verdict'[v] = verdict[v]
          /\ ~InRun(w)'
      BY <2>0, <3>1 DEF Exit, InRun, RunStages, Effects
    <3>3. QED
      BY <2>2, <3>1, <3>2, BegunKeepsStory
  <2>3. CASE \/ PersistCandle(w) \/ SaveSignal(w) \/ PublishSignal(w)
             \/ SaveDecision(w) \/ PublishDecision(w) \/ CheckSafety(w)
             \/ SaveOrder(w) \/ SaveFailedOrder(w) \/ SaveTrade(w)
             \/ SaveOrderEvents(w) \/ SaveAccount(w) \/ PublishExecution(w)
             \/ Refuse(w) \/ CallFails(w)
    BY <2>3, AdvanceKeepsStory
  <2>4. CASE Complete(w) \/ CompleteFails(w) \/ Fail(w) \/ FailFails(w) \/ Crash(w)
    <3>1. /\ UNCHANGED <<effects, attempts, stream>> /\ ~InRun(w)'
          /\ \A v \in Workers \ {w} :
               pc'[v] = pc[v] /\ pos'[v] = pos[v] /\ verdict'[v] = verdict[v]
      BY <2>0, <2>4 DEF Complete, CompleteFails, Fail, FailFails, Crash, Exit, Goto,
         runVars, InRun, RunStages, Effects
    <3>2. \A v \in Workers : InRun(v)' =>
            /\ InRun(v) /\ Current(v)' = Current(v)
            /\ AtStage(pc'[v], verdict'[v], MadeIn(Current(v), attempts[Current(v)]))
      BY <3>1 DEF StoryInv, Story, InRun, Current
    <3>3. \A c \in Candles : runs'[c] = "completed" =>
            runs[c] = "completed" \/ MadeIn(c, attempts[c]) \in Ends
      <4>1. CASE pc[w] = "complete"
        <5>1. InRun(w) /\ MadeIn(Current(w), attempts[Current(w)]) \in Ends
          BY <4>1 DEF StoryInv, Story, AtStage, InRun, RunStages
        <5>2. \A c \in Candles : runs'[c] = "completed" =>
                runs[c] = "completed" \/ c = Current(w)
          BY <2>0, <2>4 DEF Complete, CompleteFails, Fail, FailFails, Crash,
             CompleteRun, FailRun, runVars
        <5>3. QED
          BY <5>1, <5>2
      <4>2. CASE pc[w] # "complete"
        BY <2>0, <2>4, <4>2 DEF Complete, CompleteFails, Fail, FailFails, Crash,
           CompleteRun, FailRun, runVars
      <4>3. QED
        BY <4>1, <4>2
    <3>4. QED
      BY <3>1, <3>2, <3>3, SilentKeepsStory
  <2>5. CASE \/ Start(w) \/ Read(w) \/ Skip(w) \/ Reject(w) \/ Ack(w)
             \/ AlreadyBegun(w) \/ ReadLost(w) \/ AckFails(w)
             \/ BeginFails(w) /\ UNCHANGED runVars
    <3>1. UNCHANGED <<effects, attempts, stream, runs>>
      BY <2>5 DEF Start, Read, Skip, Reject, Ack, AlreadyBegun, ReadLost, AckFails,
         BeginFails, runVars
    <3>2. /\ ~InRun(w)'
          /\ \A v \in Workers \ {w} :
               pc'[v] = pc[v] /\ pos'[v] = pos[v] /\ verdict'[v] = verdict[v]
      BY <2>0, <2>5 DEF Start, Read, Skip, Reject, Ack, AlreadyBegun, ReadLost,
         AckFails, BeginFails, Exit, Goto, InRun, RunStages, Effects
    <3>3. \A v \in Workers : InRun(v)' =>
            /\ InRun(v) /\ Current(v)' = Current(v)
            /\ AtStage(pc'[v], verdict'[v], MadeIn(Current(v), attempts[Current(v)]))
      BY <3>1, <3>2 DEF StoryInv, Story, InRun, Current
    <3>4. QED
      BY <3>1, <3>3, SilentKeepsStory
  <2>6. QED
    BY <1>1, <2>1, <2>2, <2>3, <2>4, <2>5
       DEF WorkerStep, RunStep, FaultStep, BeginFails
<1>2. CASE Publish \/ UNCHANGED vars
  <2>1. UNCHANGED <<effects, attempts, runs, pc, pos, verdict>>
    BY <1>2 DEF Publish, vars, runVars
  <2>2. \A v \in Workers : InRun(v) => Current(v)' = Current(v)
    BY <1>2, RunsSeeTheirEntry
  <2>3. \A v \in Workers : InRun(v)' =>
          /\ InRun(v) /\ Current(v)' = Current(v)
          /\ AtStage(pc'[v], verdict'[v], MadeIn(Current(v), attempts[Current(v)]))
    BY <2>1, <2>2 DEF StoryInv, Story, InRun
  <2>4. QED
    BY <2>1, <2>3, SilentKeepsStory
<1>3. QED
  BY <1>1, <1>2 DEF Next, Poll

-----------------------------------------------------------------------------
(* What repeating a run costs.                                             *)

\* The attempts at candle c that were not refused.
Charged(c) == {n \in 1 .. attempts[c] : <<c, n>> \notin refused}

\* What was refused had traded nothing, and a run that goes on was not refused.
RefusedInv ==
  /\ \A r \in refused :
       r[2] \in 1 .. attempts[r[1]] /\ <<"trade", r[1], r[2]>> \notin effects
  /\ \A w \in Workers : InRun(w) /\ pc[w] # "fail" =>
       <<Current(w), attempts[Current(w)]>> \notin refused

\* An attempt after a candle's first follows one that failed, and that was
\* refused or took a fault.
CostInv ==
  /\ \A c \in Candles :
       /\ Cardinality(Charged(c)) <= faults + 1
       /\ runs[c] \in {"none", "failed"} => Cardinality(Charged(c)) <= faults
  /\ \A w \in Workers : pc[w] = "fail" => Cardinality(Charged(Current(w))) <= faults

LEMMA RefusedKept ==
  ASSUME CoreInv, StoryInv, RefusedInv, [Next]_vars
  PROVE  RefusedInv'
<1>0. /\ pc \in [Workers -> Stages] /\ pos \in [Workers -> Nat \ {0}]
      /\ runs \in [Candles -> RunStatus] /\ attempts \in [Candles -> Nat]
      /\ refused \subseteq Candles \X Nat
  BY DEF CoreInv, TypeOK
<1>a. ASSUME UNCHANGED <<attempts, refused, effects>>,
             \A v \in Workers : InRun(v)' /\ pc'[v] # "fail" =>
               InRun(v) /\ pc[v] # "fail" /\ Current(v)' = Current(v)
      PROVE  RefusedInv'
  BY <1>a DEF RefusedInv
<1>1. ASSUME NEW w \in Workers, WorkerStep(w) \/ FaultStep(w)
      PROVE  RefusedInv'
  <2>1. CASE Begin(w) \/ (BeginFails(w) /\ BeginRun(Current(w)))
    <3> DEFINE c == Current(w)
    <3>1. /\ c \in Candles /\ runs[c] \in {"none", "failed"}
          /\ attempts' = [attempts EXCEPT ![c] = @ + 1]
          /\ UNCHANGED <<stream, effects, refused>>
      BY <2>1, HeldInStream DEF Begin, BeginFails, HandlesClosed, BeginRun, Startable,
         CoreInv
    <3>2. \A v \in Workers : InRun(v) => Current(v) # c /\ Current(v) \in Candles
      BY <3>1, RunnerIsAlone DEF CoreInv, ExclusiveRun
    <3>3. /\ \A v \in Workers \ {w} : pc'[v] = pc[v] /\ Current(v)' = Current(v)
          /\ InRun(w)' => Current(w)' = c
      BY <1>0, <2>1, <3>1 DEF Begin, BeginFails, Goto, Exit, Current, InRun,
         RunStages, Effects
    <3> HIDE DEF c
    <3>4. attempts'[c] = attempts[c] + 1 /\ attempts[c] \in Nat
      BY <1>0, <3>1
    <3>5. \A r \in refused : r[2] \in 1 .. attempts'[r[1]]
      <4> TAKE r \in refused
      <4>1. r[1] \in Candles /\ r[2] \in 1 .. attempts[r[1]]
        BY <1>0 DEF RefusedInv
      <4>2. /\ attempts[r[1]] \in Nat /\ attempts'[r[1]] \in Nat
            /\ attempts[r[1]] <= attempts'[r[1]]
        BY <1>0, <3>1, <4>1
      <4>3. QED
        BY <4>1, <4>2
    <3>6. <<c, attempts'[c]>> \notin refused
      <4>1. ASSUME <<c, attempts'[c]>> \in refused PROVE attempts'[c] \in 1 .. attempts[c]
        BY <4>1 DEF RefusedInv
      <4>2. QED
        BY <3>4, <4>1
    <3>7. ASSUME NEW v \in Workers, InRun(v)', pc'[v] # "fail"
          PROVE  <<Current(v)', attempts'[Current(v)']>> \notin refused
      <4>1. CASE v = w
        BY <3>3, <3>6, <3>7, <4>1
      <4>2. CASE v # w
        <5>1. InRun(v) /\ pc[v] # "fail" /\ Current(v)' = Current(v)
          BY <3>3, <3>7, <4>2 DEF InRun
        <5>2. attempts'[Current(v)] = attempts[Current(v)]
          BY <1>0, <3>1, <3>2, <5>1
        <5>3. QED
          BY <5>1, <5>2 DEF RefusedInv
      <4>3. QED
        BY <4>1, <4>2
    <3>8. QED
      BY <3>1, <3>5, <3>7 DEF RefusedInv
  <2>2. CASE \/ PersistCandle(w) \/ SaveSignal(w) \/ PublishSignal(w)
             \/ SaveDecision(w) \/ PublishDecision(w) \/ CheckSafety(w)
             \/ SaveOrder(w) \/ SaveFailedOrder(w) \/ SaveTrade(w)
             \/ SaveOrderEvents(w) \/ SaveAccount(w) \/ PublishExecution(w)
             \/ CallFails(w)
    <3>1. Advance(w) /\ InRun(w)
      BY <2>2, RunStepsAdvance DEF CoreInv, Advance
    <3>2. UNCHANGED <<attempts, refused, stream, pos>> /\ pc[w] # "fail"
      BY <2>2 DEF PersistCandle, SaveSignal, PublishSignal, SaveDecision,
         PublishDecision, CheckSafety, SaveOrder, SaveFailedOrder, SaveTrade,
         SaveOrderEvents, SaveAccount, PublishExecution, CallFails, Call, Effects,
         runVars
    <3>3. /\ \A v \in Workers : Current(v)' = Current(v) /\ (InRun(v)' => InRun(v))
          /\ \A v \in Workers \ {w} : pc'[v] = pc[v]
      BY <1>0, <3>1, <3>2 DEF Advance, Current, InRun
    <3>4. <<Current(w), attempts[Current(w)]>> \notin refused
      BY <3>1, <3>2 DEF RefusedInv
    <3>5. \A r \in refused : <<"trade", r[1], r[2]>> \notin effects'
      <4> TAKE r \in refused
      <4>1. r = <<r[1], r[2]>>
        BY <1>0
      <4>2. \A e : <<"trade", r[1], r[2]>> # Made(w, e)
        BY <3>4, <4>1 DEF Made
      <4>3. QED
        BY <3>1, <4>2 DEF RefusedInv, Advance
    <3>6. QED
      BY <3>2, <3>3, <3>4, <3>5 DEF RefusedInv
  <2>3. CASE Refuse(w)
    <3> DEFINE c == Current(w)
               n == attempts[c]
    <3>1. /\ InRun(w) /\ pc[w] \in {"signal", "decision"} /\ pc'[w] = "fail"
          /\ UNCHANGED <<attempts, effects, stream, pos>>
          /\ refused' = refused \cup {<<c, n>>}
          /\ \A v \in Workers \ {w} : pc'[v] = pc[v]
      BY <1>0, <2>3 DEF Refuse, Goto, InRun, RunStages, Effects
    <3>2. c \in Candles /\ n \in Nat /\ n >= 1 /\ AtStage(pc[w], verdict[w], MadeIn(c, n))
      BY <1>0, <3>1, RunnerIsAlone DEF StoryInv, Story
    <3>3. <<"trade", c, n>> \notin effects
      <4>1. "trade" \notin MadeIn(c, n)
        BY <3>1, <3>2 DEF AtStage
      <4>2. QED
        BY <4>1 DEF MadeIn, Effects
    <3>4. \A v \in Workers : Current(v)' = Current(v)
      BY <3>1 DEF Current
    <3>5. \A v \in Workers \ {w} : InRun(v) => Current(v) # c
      BY <3>1 DEF CoreInv, ExclusiveRun
    <3> HIDE DEF c, n
    <3>6. \A r \in refused' :
            r[2] \in 1 .. attempts[r[1]] /\ <<"trade", r[1], r[2]>> \notin effects
      <4> TAKE r \in refused'
      <4>1. CASE r \in refused
        BY <4>1 DEF RefusedInv
      <4>2. CASE r = <<c, n>>
        <5>1. attempts[c] = n
          BY DEF n
        <5>2. r[1] = c /\ r[2] = n
          BY <4>2
        <5>3. QED
          BY <3>2, <3>3, <5>1, <5>2
      <4>3. QED
        BY <3>1, <4>1, <4>2
    <3>7. ASSUME NEW v \in Workers, InRun(v)', pc'[v] # "fail"
          PROVE  <<Current(v), attempts[Current(v)]>> \notin refused'
      <4>1. v # w /\ InRun(v) /\ pc[v] # "fail" /\ Current(v) # c
        BY <3>1, <3>5, <3>7 DEF InRun
      <4>2. <<Current(v), attempts[Current(v)]>> \notin refused
        BY <4>1 DEF RefusedInv
      <4>3. QED
        BY <3>1, <4>1, <4>2
    <3>8. QED
      BY <3>1, <3>4, <3>6, <3>7 DEF RefusedInv
  <2>4. CASE \/ Start(w) \/ Read(w) \/ Skip(w) \/ Reject(w) \/ Ack(w)
             \/ AlreadyBegun(w) \/ ReadLost(w) \/ AckFails(w) \/ FailFails(w)
             \/ Crash(w) \/ (BeginFails(w) /\ UNCHANGED runVars)
             \/ Complete(w) \/ CompleteFails(w) \/ Fail(w)
    <3>1. UNCHANGED <<attempts, refused, effects, stream>>
      BY <2>4 DEF Start, Read, Skip, Reject, Ack, AlreadyBegun, ReadLost, AckFails,
         FailFails, Crash, BeginFails, runVars, Complete, CompleteFails, Fail
    <3>2. /\ ~InRun(w)'
          /\ \A v \in Workers \ {w} : pc'[v] = pc[v] /\ pos'[v] = pos[v]
      BY <1>0, <2>4 DEF Start, Read, Skip, Reject, Ack, AlreadyBegun, ReadLost,
         AckFails, FailFails, Crash, BeginFails, Exit, Goto, HandlesClosed,
         Complete, CompleteFails, Fail, InRun, RunStages, Effects
    <3>3. \A v \in Workers : InRun(v)' /\ pc'[v] # "fail" =>
            InRun(v) /\ pc[v] # "fail" /\ Current(v)' = Current(v)
      BY <3>1, <3>2 DEF Current, InRun
    <3>4. QED
      BY <1>a, <3>1, <3>3
  <2>5. QED
    BY <1>1, <2>1, <2>2, <2>3, <2>4
       DEF WorkerStep, RunStep, FaultStep, BeginFails
<1>2. CASE Publish \/ UNCHANGED vars
  <2>1. UNCHANGED <<attempts, refused, effects, pc, pos>>
    BY <1>2 DEF Publish, vars, runVars
  <2>2. \A v \in Workers : InRun(v) => Current(v)' = Current(v)
    BY <1>2, RunsSeeTheirEntry
  <2>3. QED
    BY <1>a, <2>1, <2>2 DEF InRun
<1>3. QED
  BY <1>1, <1>2 DEF Next, Poll

\* The attempts that count are finitely many, and change with runs begun and
\* refused only.
LEMMA ChargedFinite ==
  ASSUME CoreInv, NEW c \in Candles
  PROVE  IsFiniteSet(Charged(c)) /\ Cardinality(Charged(c)) \in Nat
<1>1. attempts[c] \in Nat
  BY DEF CoreInv, TypeOK
<1>2. IsFiniteSet(1 .. attempts[c]) /\ Charged(c) \in SUBSET (1 .. attempts[c])
  BY <1>1, FS_Interval DEF Charged
<1>3. IsFiniteSet(Charged(c))
  BY <1>2, FS_Subset
<1>4. QED
  BY <1>3, FS_CardinalityType

LEMMA CostKept ==
  ASSUME CoreInv, StoryInv, RefusedInv, CostInv, [Next]_vars
  PROVE  CostInv'
<1>0. /\ pc \in [Workers -> Stages] /\ pos \in [Workers -> Nat \ {0}]
      /\ runs \in [Candles -> RunStatus] /\ attempts \in [Candles -> Nat]
      /\ faults \in Nat
  BY PipelineAssumption DEF CoreInv, TypeOK
<1> DEFINE Cost(c) == Cardinality(Charged(c))
<1>b. \A c \in Candles : Cost(c) \in Nat
  BY ChargedFinite
<1>c. CostInv <=>
        /\ \A c \in Candles :
             /\ Cost(c) <= faults + 1
             /\ runs[c] \in {"none", "failed"} => Cost(c) <= faults
        /\ \A w \in Workers : pc[w] = "fail" => Cost(Current(w)) <= faults
  BY DEF CostInv
<1>d. CostInv' <=>
        /\ \A c \in Candles :
             /\ Cost(c)' <= faults' + 1
             /\ runs'[c] \in {"none", "failed"} => Cost(c)' <= faults'
        /\ \A w \in Workers : pc'[w] = "fail" => Cost(Current(w))' <= faults'
  BY DEF CostInv
<1>e. UNCHANGED <<attempts, refused>> => \A c : Cost(c)' = Cost(c)
  BY DEF Charged
<1>f. \A v \in Workers : InRun(v) => Current(v) \in Candles
  BY RunnerIsAlone
<1>g. ASSUME NEW v \in Workers, NEW c, Current(v)' = c
      PROVE  Cost(Current(v))' = Cost(c)'
  BY <1>g DEF Charged
<1> HIDE DEF Cost
\* Steps after which no other run is refused, failed or begun.
<1>a. ASSUME UNCHANGED <<attempts, refused>>, faults' \in {faults, faults + 1},
             \A c \in Candles : runs'[c] \in {runs[c], "completed"},
             \A v \in Workers : pc'[v] = "fail" =>
               pc[v] = "fail" /\ Current(v)' = Current(v)
      PROVE  CostInv'
  <2>1. \A v \in Workers : pc[v] = "fail" => Current(v) \in Candles
    BY <1>f DEF InRun, RunStages
  <2>2. \A v \in Workers : pc'[v] = "fail" =>
          Cost(Current(v))' = Cost(Current(v)) /\ Cost(Current(v)) \in Nat
                              /\ Cost(Current(v)) <= faults
    BY <1>a, <1>b, <1>c, <1>e, <1>g, <2>1
  <2>3. QED
    BY <1>0, <1>a, <1>b, <1>c, <1>d, <1>e, <2>2
<1>1. ASSUME NEW w \in Workers, WorkerStep(w) \/ FaultStep(w)
      PROVE  CostInv'
  <2>1. CASE Begin(w) \/ (BeginFails(w) /\ BeginRun(Current(w)))
    <3>c. PICK c : c = Current(w)
      OBVIOUS
    <3>1. /\ c \in Candles /\ runs[c] \in {"none", "failed"}
          /\ runs' = [runs EXCEPT ![c] = "processing"]
          /\ attempts' = [attempts EXCEPT ![c] = @ + 1]
          /\ UNCHANGED <<stream, refused>>
      BY <2>1, <3>c, HeldInStream DEF Begin, BeginFails, HandlesClosed, BeginRun,
         Startable, CoreInv
    <3>2. faults' \in {faults, faults + 1}
      BY <2>1 DEF Begin, BeginFails, Fault
    <3>3. \A v \in Workers : InRun(v) => Current(v) # c
      BY <3>1 DEF CoreInv, ExclusiveRun
    <3>4. /\ pc'[w] # "fail"
          /\ \A v \in Workers \ {w} : pc'[v] = pc[v] /\ Current(v)' = Current(v)
      BY <1>0, <2>1, <3>1 DEF Begin, BeginFails, Goto, Exit, Current
    <3>5. \A v \in Workers : pc'[v] = "fail" =>
            /\ pc[v] = "fail" /\ Current(v)' = Current(v) /\ Current(v) # c
            /\ Current(v) \in Candles
      BY <1>f, <3>3, <3>4 DEF InRun, RunStages
    <3>6. \A d \in Candles \ {c} : Cost(d)' = Cost(d)
      BY <1>0, <3>1 DEF Cost, Charged
    <3>7. Cost(c)' \in Nat /\ Cost(c)' <= Cost(c) + 1
      <4>1. IsFiniteSet(Charged(c))
        BY <3>1, ChargedFinite
      <4>2. Charged(c)' \in SUBSET (Charged(c) \cup {attempts[c] + 1})
        <5>1. attempts'[c] = attempts[c] + 1 /\ attempts[c] \in Nat
          BY <1>0, <3>1
        <5>2. ASSUME NEW n \in 1 .. attempts'[c]
              PROVE  n \in 1 .. attempts[c] \/ n = attempts[c] + 1
          BY <5>1, <5>2
        <5>3. QED
          BY <3>1, <5>2 DEF Charged
      <4>3. /\ IsFiniteSet(Charged(c) \cup {attempts[c] + 1})
            /\ Cardinality(Charged(c) \cup {attempts[c] + 1}) \in {Cost(c), Cost(c) + 1}
        BY <4>1, FS_AddElement DEF Cost
      <4>4. /\ IsFiniteSet(Charged(c)')
            /\ Cost(c)' <= Cardinality(Charged(c) \cup {attempts[c] + 1})
        BY <4>2, <4>3, FS_Subset DEF Cost
      <4>5. Cost(c)' \in Nat
        BY <4>4, FS_CardinalityType DEF Cost
      <4>6. QED
        BY <1>b, <3>1, <4>3, <4>4, <4>5
    <3>8. \A v \in Workers : pc'[v] = "fail" => Cost(Current(v))' <= faults
      BY <1>c, <1>g, <3>5, <3>6
    <3>9. Cost(c) <= faults
      BY <1>c, <3>1
    <3>10. \A d \in Candles : /\ Cost(d)' <= faults' + 1
                              /\ runs'[d] \in {"none", "failed"} => Cost(d)' <= faults'
      <4> TAKE d \in Candles
      <4>1. CASE d = c
        BY <1>0, <1>b, <3>1, <3>2, <3>7, <3>9, <4>1
      <4>2. CASE d # c
        BY <1>0, <1>b, <1>c, <3>1, <3>2, <3>6, <4>2
      <4>3. QED
        BY <4>1, <4>2
    <3>11. \A v \in Workers : pc'[v] = "fail" => Cost(Current(v))' <= faults'
      BY <1>0, <1>b, <1>g, <3>2, <3>5, <3>6, <3>8
    <3>12. QED
      BY <1>d, <3>10, <3>11
  <2>2. CASE CallFails(w)
    <3>1. /\ UNCHANGED <<attempts, refused, runs, stream, pos>> /\ faults' = faults + 1
          /\ \A v \in Workers \ {w} : pc'[v] = pc[v]
          /\ InRun(w)
      BY <1>0, <2>2 DEF CallFails, Fault, Goto, runVars, InRun, RunStages
    <3>2. \A v \in Workers : Current(v)' = Current(v)
      BY <3>1 DEF Current
    <3>3. \A v \in Workers : pc'[v] = "fail" => InRun(v)
      BY <3>1 DEF InRun, RunStages
    <3>4. \A v \in Workers : pc'[v] = "fail" =>
            Cost(Current(v))' = Cost(Current(v)) /\ Cost(Current(v)) <= faults + 1
      BY <1>c, <1>e, <1>f, <1>g, <3>1, <3>2, <3>3
    <3>5. QED
      BY <1>0, <1>b, <1>c, <1>d, <1>e, <3>1, <3>4
  <2>3. CASE Refuse(w)
    <3>c. PICK c : c = Current(w)
      OBVIOUS
    <3>1. /\ InRun(w) /\ pc[w] # "fail" /\ pc' = [pc EXCEPT ![w] = "fail"]
          /\ UNCHANGED <<attempts, runs, stream, pos, faults>>
          /\ refused' = refused \cup {<<c, attempts[c]>>}
      BY <2>3, <3>c DEF Refuse, Goto, InRun, RunStages, Effects
    <3>2. /\ c \in Candles /\ attempts[c] \in Nat /\ attempts[c] >= 1
          /\ <<c, attempts[c]>> \notin refused
      BY <1>0, <1>f, <3>c, <3>1 DEF StoryInv, Story, RefusedInv
    <3>3. \A v \in Workers : Current(v)' = Current(v)
      BY <3>1 DEF Current
    <3>4. \A v \in Workers \ {w} : InRun(v) => Current(v) # c
      BY <3>c, <3>1 DEF CoreInv, ExclusiveRun
    <3>5. \A d \in Candles \ {c} : Cost(d)' = Cost(d)
      BY <3>1 DEF Cost, Charged
    <3>6. Cost(c)' = Cost(c) - 1
      <4>1. Charged(c)' = Charged(c) \ {attempts[c]} /\ attempts[c] \in Charged(c)
        BY <3>1, <3>2 DEF Charged
      <4>2. IsFiniteSet(Charged(c))
        BY <3>2, ChargedFinite
      <4>3. QED
        BY <4>1, <4>2, FS_RemoveElement DEF Cost
    <3>7. \A v \in Workers : pc'[v] = "fail" => Cost(Current(v))' <= faults
      <4> TAKE v \in Workers
      <4>1. CASE v = w
        <5>1. Cost(Current(v))' = Cost(c)'
          BY <3>c, <1>g, <3>3, <4>1
        <5>2. Cost(c) \in Nat /\ Cost(c) <= faults + 1
          BY <1>b, <1>c, <3>2
        <5>3. QED
          BY <1>0, <3>6, <5>1, <5>2
      <4>2. CASE v # w /\ pc'[v] = "fail"
        <5>1. pc[v] = "fail" /\ InRun(v)
          BY <1>0, <3>1, <4>2 DEF InRun, RunStages
        <5>2. Cost(Current(v))' = Cost(Current(v))
          BY <1>f, <1>g, <3>3, <3>4, <3>5, <4>2, <5>1
        <5>3. QED
          BY <1>c, <5>1, <5>2
      <4>3. QED
        BY <4>1, <4>2
    <3>8. QED
      BY <1>0, <1>b, <1>c, <1>d, <3>1, <3>2, <3>5, <3>6, <3>7
  <2>4. CASE Fail(w)
    <3>c. PICK c : c = Current(w)
      OBVIOUS
    <3>1. /\ pc[w] = "fail" /\ runs' = [runs EXCEPT ![c] = "failed"]
          /\ UNCHANGED <<attempts, refused, stream, faults>>
          /\ pc'[w] # "fail"
          /\ \A v \in Workers \ {w} : pc'[v] = pc[v] /\ pos'[v] = pos[v]
      BY <1>0, <2>4, <3>c DEF Fail, FailRun, Exit
    <3>2. Cost(c) <= faults
      BY <1>c, <3>c, <3>1
    <3>3. \A v \in Workers \ {w} : Current(v)' = Current(v)
      BY <3>1 DEF Current
    <3>4. \A v \in Workers : pc'[v] = "fail" => Cost(Current(v))' <= faults
      BY <1>c, <1>e, <1>g, <3>1, <3>3
    <3>5. QED
      BY <1>0, <1>c, <1>d, <1>e, <3>1, <3>2, <3>4
  <2>5. CASE Complete(w) \/ CompleteFails(w)
    <3>1. /\ \A d \in Candles : runs'[d] \in {runs[d], "completed"}
          /\ UNCHANGED <<attempts, refused, stream>> /\ faults' \in {faults, faults + 1}
          /\ pc'[w] # "fail"
          /\ \A v \in Workers \ {w} : pc'[v] = pc[v] /\ pos'[v] = pos[v]
      BY <1>0, <2>5 DEF Complete, CompleteFails, CompleteRun, Exit, Goto, Fault
    <3>2. \A v \in Workers : pc'[v] = "fail" =>
            pc[v] = "fail" /\ Current(v)' = Current(v)
      BY <3>1 DEF Current
    <3>3. QED
      BY <1>a, <3>1, <3>2
  <2>6. CASE \/ PersistCandle(w) \/ SaveSignal(w) \/ PublishSignal(w)
             \/ SaveDecision(w) \/ PublishDecision(w) \/ CheckSafety(w)
             \/ SaveOrder(w) \/ SaveFailedOrder(w) \/ SaveTrade(w)
             \/ SaveOrderEvents(w) \/ SaveAccount(w) \/ PublishExecution(w)
    <3>1. /\ UNCHANGED <<attempts, refused, runs, stream, pos, faults>>
          /\ \E s \in RunStages \ {"fail"} : pc' = [pc EXCEPT ![w] = s]
      BY <2>6 DEF PersistCandle, SaveSignal, PublishSignal, SaveDecision,
         PublishDecision, CheckSafety, SaveOrder, SaveFailedOrder, SaveTrade,
         SaveOrderEvents, SaveAccount, PublishExecution, Call, Goto, runVars,
         RunStages, Effects
    <3>2. \A v \in Workers : pc'[v] = "fail" =>
            pc[v] = "fail" /\ Current(v)' = Current(v)
      BY <1>0, <3>1 DEF Current
    <3>3. QED
      BY <1>a, <3>1, <3>2
  <2>7. CASE \/ Start(w) \/ Read(w) \/ Skip(w) \/ Reject(w) \/ Ack(w)
             \/ AlreadyBegun(w) \/ ReadLost(w) \/ AckFails(w) \/ FailFails(w)
             \/ Crash(w) \/ (BeginFails(w) /\ UNCHANGED runVars)
    <3>1. /\ UNCHANGED <<attempts, refused, runs, stream>>
          /\ faults' \in {faults, faults + 1}
      BY <2>7 DEF Start, Read, Skip, Reject, Ack, AlreadyBegun, ReadLost, AckFails,
         FailFails, Crash, BeginFails, runVars, Fault
    <3>2. /\ pc'[w] # "fail"
          /\ \A v \in Workers \ {w} : pc'[v] = pc[v] /\ pos'[v] = pos[v]
      BY <1>0, <2>7 DEF Start, Read, Skip, Reject, Ack, AlreadyBegun, ReadLost,
         AckFails, FailFails, Crash, BeginFails, Exit, Goto, HandlesClosed
    <3>3. \A v \in Workers : pc'[v] = "fail" =>
            pc[v] = "fail" /\ Current(v)' = Current(v)
      BY <3>1, <3>2 DEF Current
    <3>4. QED
      BY <1>a, <3>1, <3>3
  <2>8. QED
    BY <1>1, <2>1, <2>2, <2>3, <2>4, <2>5, <2>6, <2>7
       DEF WorkerStep, RunStep, FaultStep, BeginFails
<1>2. CASE Publish \/ UNCHANGED vars
  <2>1. UNCHANGED <<attempts, refused, runs, pc, pos, faults>>
    BY <1>2 DEF Publish, vars, runVars
  <2>2. \A v \in Workers : pc[v] = "fail" => Current(v)' = Current(v)
    BY <1>2, RunsSeeTheirEntry DEF InRun, RunStages
  <2>3. QED
    BY <1>a, <2>1, <2>2
<1>3. QED
  BY <1>1, <1>2 DEF Next, Poll

\* An attempt trades once, and one that is refused not at all.
LEMMA TradesCost ==
  ASSUME CoreInv, StoryInv, RefusedInv, CostInv
  PROVE  RepeatNeedsFault
<1> SUFFICES ASSUME NEW c \in Candles
             PROVE  Cardinality(Trades(c)) <= faults + 1
  BY DEF RepeatNeedsFault
<1>1. /\ faults \in Nat
      /\ Cardinality(Charged(c)) <= faults + 1
  BY PipelineAssumption DEF CoreInv, TypeOK, CostInv
<1>2. ASSUME NEW n \in Trades(c) PROVE n \in Charged(c)
  <2>1. n \in 1 .. attempts[c] /\ <<"trade", c, n>> \in effects
    BY DEF Trades, Row
  <2>2. ASSUME <<c, n>> \in refused PROVE FALSE
    BY <2>1, <2>2 DEF RefusedInv
  <2>3. QED
    BY <2>1, <2>2 DEF Charged
<1>3. IsFiniteSet(Charged(c)) /\ Cardinality(Charged(c)) \in Nat
  BY ChargedFinite
<1>4. Trades(c) \in SUBSET Charged(c)
  BY <1>2
<1>5. Cardinality(Trades(c)) <= Cardinality(Charged(c)) /\ IsFiniteSet(Trades(c))
  BY <1>3, <1>4, FS_Subset
<1>6. Cardinality(Trades(c)) \in Nat
  BY <1>5, FS_CardinalityType
<1>7. QED
  BY <1>1, <1>3, <1>5, <1>6

-----------------------------------------------------------------------------
(* The theorems about what runs leave behind.                              *)

\* What every attempt has made, stage by stage, and what the attempts of a
\* candle have cost, on top of the invariant of the control state: of attempts
\* that were not refused there is one more than faults at most.
THEOREM StoryInvariant == Spec => [](CoreInv /\ StoryInv /\ RefusedInv /\ CostInv)
<1>1. Init => CoreInv /\ StoryInv /\ RefusedInv /\ CostInv
  <2> SUFFICES ASSUME Init PROVE StoryInv /\ RefusedInv /\ CostInv
    BY InitCore
  <2>1. /\ \A w \in Workers : pc[w] = "stopped"
        /\ \A c \in Candles : runs[c] = "none" /\ attempts[c] = 0
        /\ effects = {} /\ refused = {} /\ faults = 0
    BY DEF Init
  <2>2. \A c, n : MadeIn(c, n) = {}
    BY <2>1 DEF MadeIn
  <2>3. StoryInv
    BY <2>1, <2>2 DEF StoryInv, Story, InOrder, InRun, RunStages, Effects
  <2>4. RefusedInv
    BY <2>1 DEF RefusedInv, InRun, RunStages, Effects
  <2>5. CostInv
    <3>1. \A c \in Candles : Charged(c) = {}
      BY <2>1 DEF Charged
    <3>2. QED
      BY <2>1, <3>1, FS_EmptySet DEF CostInv
  <2>6. QED
    BY <2>3, <2>4, <2>5
<1>2. CoreInv /\ StoryInv /\ RefusedInv /\ CostInv /\ [Next]_vars
        => (CoreInv /\ StoryInv /\ RefusedInv /\ CostInv)'
  BY NextCore, StoryKept, RefusedKept, CostKept
<1>3. QED
  BY <1>1, <1>2, PTL DEF Spec

\* Orchestrator.run, wherever an attempt is cut off: no row or publication
\* without the ones it needs.
THEOREM EffectsOrdered == Spec => []EffectsInOrder
<1>1. StoryInv => EffectsInOrder
  <2> SUFFICES ASSUME StoryInv, NEW c \in Candles,
                      NEW n \in 1 .. attempts[c]
               PROVE  /\ Row("signal", c, n) => Row("candle", c, n)
                      /\ Row("decision", c, n) => Row("signalEvent", c, n)
                      /\ Row("order", c, n) \/ Row("failedOrder", c, n)
                           => Row("decisionEvent", c, n)
                      /\ Row("order", c, n) => ~Row("failedOrder", c, n)
                      /\ Row("trade", c, n) => Row("order", c, n)
                      /\ Row("account", c, n)
                           => Row("trade", c, n) /\ Row("orderEvents", c, n)
                      /\ Row("executionEvent", c, n) =>
                           \/ Row("account", c, n)
                           \/ Row("failedOrder", c, n) /\ Row("orderEvents", c, n)
    BY DEF EffectsInOrder
  <2>1. \A e \in Effects : Row(e, c, n) <=> e \in MadeIn(c, n)
    BY DEF Row, MadeIn
  <2>2. InOrder(MadeIn(c, n))
    BY PipelineAssumption DEF StoryInv
  <2>3. QED
    BY <2>1, <2>2 DEF InOrder, Effects
<1>2. QED
  BY <1>1, StoryInvariant, PTL

\* Orchestrator.Handle: a run marked completed has announced what it decided,
\* and an order it placed is on the account and announced.
THEOREM CompletedAreWhole == Spec => []CompletedRunsAreWhole
<1>1. StoryInv => CompletedRunsAreWhole
  <2> SUFFICES ASSUME StoryInv, NEW c \in Candles, runs[c] = "completed"
               PROVE  LET n == attempts[c] IN
                      /\ Row("signalEvent", c, n) /\ Row("decisionEvent", c, n)
                      /\ Row("order", c, n) => Row("trade", c, n) /\ Row("account", c, n)
                      /\ Row("order", c, n) \/ Row("failedOrder", c, n)
                           => Row("executionEvent", c, n)
    BY DEF CompletedRunsAreWhole
  <2>1. \A e \in Effects : Row(e, c, attempts[c]) <=> e \in MadeIn(c, attempts[c])
    BY DEF Row, MadeIn
  <2>2. MadeIn(c, attempts[c]) \in Ends
    BY DEF StoryInv
  <2>3. QED
    BY <2>1, <2>2 DEF Ends, Decided, Opening, Filled, Unfilled, Effects
<1>2. QED
  BY <1>1, StoryInvariant, PTL

\* Begin starts a candle's run again only after a failed attempt: deliveries and
\* refused runs alone, however many, trade a candle once.
THEOREM RepeatsCostFaults == Spec => []RepeatNeedsFault
BY TradesCost, StoryInvariant, PTL

-----------------------------------------------------------------------------
(* The pipeline implements RunLog.                                         *)

\* A step that leaves the records, the rows and every worker's run alone is a
\* step the run log does not see.
LEMMA UnseenByLog ==
  ASSUME UNCHANGED <<runs, effects>>,
         \A v \in Workers : InRun(v)' <=> InRun(v),
         \A v \in Workers : InRun(v) => Current(v)' = Current(v)
  PROVE  UNCHANGED Log!logVars
<1>1. \A c \in Candles : Holders(c)' = Holders(c)
  BY DEF Holders
<1>2. QED
  BY <1>1 DEF Log!logVars

\* A worker that is in no run, and takes up none, is not seen either.
LEMMA IdleUnseen ==
  ASSUME CoreInv, NEW w \in Workers, ~InRun(w), ~InRun(w)',
         UNCHANGED <<stream, runs, effects>>,
         \A v \in Workers \ {w} : pc'[v] = pc[v] /\ pos'[v] = pos[v]
  PROVE  UNCHANGED Log!logVars
<1>1. \A v \in Workers : InRun(v)' <=> InRun(v)
  BY DEF InRun
<1>2. \A v \in Workers : InRun(v) => Current(v)' = Current(v)
  BY DEF Current
<1>3. QED
  BY <1>1, <1>2, UnseenByLog

\* A candle whose run may be begun is in nobody's run.
LEMMA StartableIsFree ==
  ASSUME CoreInv, NEW c \in Candles, Startable(c)
  PROVE  Holders(c) = {}
BY DEF CoreInv, ExclusiveRun, Startable, Holders

LEMMA BeginIsLogged ==
  ASSUME CoreInv, NEW w \in Workers, Begin(w)
  PROVE  Log!Begin(Current(w)) /\ Current(w) \in Candles
<1>c. PICK c : c = Current(w)
  OBVIOUS
<1>1. c \in Candles /\ Startable(c)
  BY <1>c, HeldInStream DEF CoreInv, Begin, HandlesClosed, BeginRun
<1>2. Holders(c) = {}
  BY <1>1, StartableIsFree
<1>3. ~InRun(w) /\ InRun(w)'
  BY DEF CoreInv, TypeOK, Begin, HandlesClosed, Goto, InRun, RunStages, Effects
<1>4. \A v \in Workers : Current(v)' = Current(v)
  BY DEF Begin, Current
<1>5. \A v \in Workers \ {w} : InRun(v)' <=> InRun(v)
  BY DEF CoreInv, TypeOK, Begin, Goto, InRun
<1>6. Holders(c)' = {w}
  BY <1>c, <1>1, <1>2, <1>3, <1>4, <1>5 DEF Holders
<1>7. \A d \in Candles \ {c} : Holders(d)' = Holders(d)
  BY <1>c, <1>3, <1>4, <1>5 DEF Holders
<1>8. [d \in Candles |-> Holders(d)']
        = [[d \in Candles |-> Holders(d)] EXCEPT ![c] = {w}]
  BY <1>1, <1>6, <1>7
<1>9. runs[c] \in {"none", "failed"} /\ runs' = [runs EXCEPT ![c] = "processing"]
  BY <1>c, <1>1 DEF Begin, BeginRun, Startable
<1>10. effects' = effects
  BY DEF Begin
<1>11. QED
  BY <1>c, <1>1, <1>2, <1>8, <1>9, <1>10 DEF Log!Begin

\* A Begin that took effect but answered with an error begins a run that no
\* worker is in.
LEMMA BeginFailsIsLogged ==
  ASSUME CoreInv, NEW w \in Workers, BeginFails(w)
  PROVE  [Log!Next]_(Log!logVars)
<1> DEFINE c == Current(w)
<1>1. ~InRun(w) /\ ~InRun(w)'
  BY DEF CoreInv, TypeOK, BeginFails, HandlesClosed, Exit, InRun, RunStages,
     Effects
<1>2. \A v \in Workers \ {w} : pc'[v] = pc[v] /\ pos'[v] = pos[v]
  BY DEF CoreInv, TypeOK, BeginFails, Exit
<1>3. CASE UNCHANGED runVars
  <2>1. UNCHANGED <<stream, runs, effects>>
    BY <1>3 DEF BeginFails, runVars
  <2>2. QED
    BY <1>1, <1>2, <2>1, IdleUnseen
<1>4. CASE BeginRun(c)
  <2>1. c \in Candles /\ Startable(c)
    BY <1>4, HeldInStream DEF CoreInv, BeginFails, HandlesClosed, BeginRun
  <2>2. Holders(c) = {}
    BY <2>1, StartableIsFree
  <2>3. \A v \in Workers : InRun(v)' <=> InRun(v)
    BY <1>1, <1>2 DEF InRun
  <2>4. \A v \in Workers : InRun(v) => Current(v)' = Current(v)
    BY <1>1, <1>2 DEF BeginFails, Current
  <2>5. \A d \in Candles : Holders(d)' = Holders(d)
    BY <2>3, <2>4 DEF Holders
  <2>6. runs[c] \in {"none", "failed"} /\ runs' = [runs EXCEPT ![c] = "processing"]
    BY <1>4 DEF BeginRun, Startable
  <2>7. effects' = effects
    BY DEF BeginFails
  <2>8. Log!Begin(c)
    BY <2>1, <2>2, <2>5, <2>6, <2>7 DEF Log!Begin
  <2>9. QED
    BY <2>1, <2>8 DEF Log!Next
<1>5. QED
  BY <1>3, <1>4 DEF BeginFails

\* The calls of a run are work on its candle.
LEMMA AdvanceIsLogged ==
  ASSUME CoreInv, NEW w \in Workers, Advance(w)
  PROVE  \E c \in Candles : Log!Work(c)
<1>c. PICK c : c = Current(w)
  OBVIOUS
<1>1. /\ c \in Candles
      /\ runs[c] = "processing"
      /\ Holders(c) = {w}
  BY <1>c, RunnerIsAlone DEF Advance
<1>2. \A v \in Workers : (InRun(v)' <=> InRun(v)) /\ Current(v)' = Current(v)
  BY DEF CoreInv, TypeOK, Advance, InRun, Current
<1>3. \A d \in Candles : Holders(d)' = Holders(d)
  BY <1>2 DEF Holders
<1>4. /\ effects \subseteq effects'
      /\ \A r \in effects' : r \in effects \/ r[2] = c
  BY <1>c DEF Advance, Made
<1>5. runs' = runs
  BY DEF Advance
<1>6. QED
  BY <1>1, <1>3, <1>4, <1>5 DEF Log!Work

\* Completing, failing and dying are the ways to leave a run.
LEMMA LeavingIsLogged ==
  ASSUME CoreInv, NEW w \in Workers, InRun(w), ~InRun(w)',
         NEW s \in {"processing", "completed", "failed"},
         runs' = [runs EXCEPT ![Current(w)] = s],
         UNCHANGED <<stream, effects>>,
         \A v \in Workers \ {w} : pc'[v] = pc[v] /\ pos'[v] = pos[v]
  PROVE  Log!Leave(Current(w)) /\ Current(w) \in Candles
<1>c. PICK c : c = Current(w)
  OBVIOUS
<1>1. /\ c \in Candles
      /\ runs[c] = "processing"
      /\ Holders(c) = {w}
  BY <1>c, RunnerIsAlone
<1>2. \A v \in Workers \ {w} :
        (InRun(v)' <=> InRun(v)) /\ Current(v)' = Current(v)
  BY DEF InRun, Current
<1>3. Holders(c)' = {}
  BY <1>c, <1>1, <1>2 DEF Holders
<1>4. \A d \in Candles \ {c} : Holders(d)' = Holders(d)
  BY <1>c, <1>2 DEF Holders
<1>5. [d \in Candles |-> Holders(d)']
        = [[d \in Candles |-> Holders(d)] EXCEPT ![c] = {}]
  BY <1>1, <1>3, <1>4
<1>6. QED
  BY <1>c, <1>1, <1>5 DEF Log!Leave

LEMMA LeaversAreLogged ==
  ASSUME CoreInv, NEW w \in Workers, InRun(w),
         \/ Complete(w) \/ Fail(w) \/ CompleteFails(w) \/ FailFails(w)
         \/ Crash(w)
  PROVE  Log!Leave(Current(w)) /\ Current(w) \in Candles
<1>1. /\ runs \in [Candles -> RunStatus] /\ pc \in [Workers -> Stages]
      /\ pos \in [Workers -> Nat \ {0}]
  BY DEF CoreInv, TypeOK
<1>2. Current(w) \in Candles /\ runs[Current(w)] = "processing"
  BY RunnerIsAlone
<1>3. /\ ~InRun(w)'
      /\ UNCHANGED <<stream, effects>>
      /\ \A v \in Workers \ {w} : pc'[v] = pc[v] /\ pos'[v] = pos[v]
  BY <1>1 DEF Complete, Fail, CompleteFails, FailFails, Crash, Exit, Goto, InRun,
     RunStages, Effects
<1>4. \E s \in {"processing", "completed", "failed"} :
        runs' = [runs EXCEPT ![Current(w)] = s]
  <2>1. runs = [runs EXCEPT ![Current(w)] = "processing"]
    BY <1>1, <1>2
  <2>2. QED
    BY <2>1 DEF Complete, Fail, CompleteFails, FailFails, Crash, CompleteRun,
       FailRun, runVars
<1>5. QED
  BY <1>3, <1>4, LeavingIsLogged

LEMMA IdleStepsUnseen ==
  ASSUME CoreInv, NEW w \in Workers,
         \/ Start(w) \/ Read(w) \/ Skip(w) \/ Reject(w) \/ Ack(w)
         \/ AlreadyBegun(w) \/ ReadLost(w) \/ AckFails(w)
         \/ Crash(w) /\ ~InRun(w)
  PROVE  UNCHANGED Log!logVars
<1>1. pc \in [Workers -> Stages] /\ pos \in [Workers -> Nat \ {0}]
  BY DEF CoreInv, TypeOK
<1> USE DEF runVars, groupVars, Exit, Goto
<1>2. UNCHANGED <<stream, runs, effects>>
  BY DEF Start, Read, Skip, Reject, Ack, AlreadyBegun, ReadLost, AckFails, Crash
<1>3. ~InRun(w) /\ ~InRun(w)'
  BY <1>1 DEF InRun, RunStages, Effects, Start, Read, Skip, Reject, Ack,
     AlreadyBegun, HandlesClosed, ReadLost, AckFails, Crash
<1>4. \A v \in Workers \ {w} : pc'[v] = pc[v] /\ pos'[v] = pos[v]
  BY <1>1 DEF Start, Read, Skip, Reject, Ack, AlreadyBegun, ReadLost, AckFails,
     Crash
<1>5. QED
  BY <1>2, <1>3, <1>4, IdleUnseen

LEMMA EnvironmentUnseen ==
  ASSUME CoreInv, Publish \/ UNCHANGED vars
  PROVE  UNCHANGED Log!logVars
<1>1. UNCHANGED <<runs, effects, pc, pos>>
  BY DEF Publish, vars, runVars
<1>2. \A v \in Workers : InRun(v)' <=> InRun(v)
  BY <1>1 DEF InRun
<1>3. \A v \in Workers : InRun(v) => Current(v)' = Current(v)
  BY RunsSeeTheirEntry
<1>4. QED
  BY <1>1, <1>2, <1>3, UnseenByLog

LEMMA StepsAreLogged ==
  ASSUME CoreInv, [Next]_vars
  PROVE  [Log!Next]_(Log!logVars)
<1>1. ASSUME NEW w \in Workers, WorkerStep(w) \/ FaultStep(w)
      PROVE  [Log!Next]_(Log!logVars)
  <2>1. CASE Begin(w)
    BY <2>1, BeginIsLogged DEF Log!Next
  <2>2. CASE BeginFails(w)
    BY <2>2, BeginFailsIsLogged
  <2>3. CASE \/ PersistCandle(w) \/ SaveSignal(w) \/ PublishSignal(w)
             \/ SaveDecision(w) \/ PublishDecision(w) \/ CheckSafety(w)
             \/ SaveOrder(w) \/ SaveFailedOrder(w) \/ SaveTrade(w)
             \/ SaveOrderEvents(w) \/ SaveAccount(w) \/ PublishExecution(w)
             \/ Refuse(w) \/ CallFails(w)
    <3>1. Advance(w)
      BY <2>3, RunStepsAdvance DEF CoreInv
    <3>2. QED
      BY <3>1, AdvanceIsLogged DEF Log!Next
  <2>4. CASE \/ Complete(w) \/ Fail(w) \/ CompleteFails(w) \/ FailFails(w)
             \/ Crash(w) /\ InRun(w)
    <3>1. InRun(w)
      BY <2>4 DEF Complete, Fail, CompleteFails, FailFails, InRun, RunStages
    <3>2. QED
      BY <2>4, <3>1, LeaversAreLogged DEF Log!Next
  <2>5. CASE \/ Start(w) \/ Read(w) \/ Skip(w) \/ Reject(w) \/ Ack(w)
             \/ AlreadyBegun(w) \/ ReadLost(w) \/ AckFails(w)
             \/ Crash(w) /\ ~InRun(w)
    BY <2>5, IdleStepsUnseen
  <2>6. QED
    BY <1>1, <2>1, <2>2, <2>3, <2>4, <2>5 DEF WorkerStep, RunStep, FaultStep
<1>2. CASE Publish \/ UNCHANGED vars
  BY <1>2, EnvironmentUnseen
<1>3. QED
  BY <1>1, <1>2 DEF Next, Poll

LEMMA StartsAsLog ==
  ASSUME Init
  PROVE  Log!Init
<1>1. \A c \in Candles : Holders(c) = {}
  BY DEF Init, Holders, InRun, RunStages, Effects
<1>2. QED
  BY <1>1 DEF Init, Log!Init

\* The pipeline, with any number of workers and candles and whatever its
\* stream, its calls and its processes do, implements the run log.
THEOREM PipelineKeepsRunLog == Spec => KeepsRunLog
<1>1. Init => Log!Init
  BY StartsAsLog
<1>2. CoreInv /\ [Next]_vars => [Log!Next]_(Log!logVars)
  BY StepsAreLogged
<1>3. QED
  BY <1>1, <1>2, CoreInvariant, PTL DEF Spec, KeepsRunLog, Log!Spec

-----------------------------------------------------------------------------
(* How much work a worker has left: what fairness makes it do.             *)

Remaining(w) == IF HasBatch(w) THEN end[w] - pos[w] + 1 ELSE 0

\* The steps a worker at a stage takes until it turns to another entry.
StepsFrom(s) ==
  CASE s = "stopped"        -> 16
    [] s = "read"           -> 15
    [] s = "candle"         -> 14
    [] s = "signal"         -> 13
    [] s = "signalEvent"    -> 12
    [] s = "decision"       -> 11
    [] s = "decisionEvent"  -> 10
    [] s = "safety"         -> 9
    [] s = "order"          -> 8
    [] s = "trade"          -> 7
    [] s = "failedOrder"    -> 7
    [] s = "orderEvents"    -> 6
    [] s = "account"        -> 5
    [] s = "executionEvent" -> 4
    [] s = "complete"       -> 3
    [] s = "fail"           -> 2
    [] s = "ack"            -> 1

\* An entry of the batch costs fewer than 20 steps, an entry nobody was handed
\* yet no more than reading and handling it, and a fault a restart.
Weigh(entries, budget, batch, steps) ==
  40 * entries + 20 * budget + 20 * batch + steps

Work(w) == Weigh(Len(stream) - delivered, MaxFaults - faults,
                 Remaining(w), StepsFrom(pc[w]))

\* Each step of a worker, restarts included, leaves it less to do, and until an
\* entry is added nobody gives it more.
WorkShrinks ==
  [][\A w \in Workers :
       /\ UNCHANGED stream => Work(w)' <= Work(w)
       /\ WorkerStep(w) \/ FaultStep(w) => Work(w)' < Work(w)]_vars

LEMMA LeftOver ==
  ASSUME NEW m \in Nat, NEW n \in 0 .. m
  PROVE  m - n \in Nat
OBVIOUS

LEMMA WeighTyped ==
  ASSUME NEW a \in Nat, NEW f \in Nat, NEW r \in Nat, NEW s \in Nat
  PROVE  Weigh(a, f, r, s) \in Nat
BY DEF Weigh

LEMMA WeighMost ==
  ASSUME NEW a \in Nat, NEW f \in Nat, NEW r \in Nat, NEW s \in Nat,
         NEW b \in Nat, NEW g \in Nat, b <= a, g <= f
  PROVE  Weigh(b, g, r, s) <= Weigh(a, f, r, s)
BY DEF Weigh

LEMMA StepsTyped ==
  ASSUME NEW s \in Stages
  PROVE  StepsFrom(s) \in 1 .. 16
BY DEF StepsFrom, Stages, RunStages, Effects

\* What Work is made of.
LEMMA WorkParts ==
  ASSUME TypeOK, NEW w \in Workers
  PROVE  /\ Len(stream) \in Nat /\ delivered \in 0 .. Len(stream)
         /\ faults \in 0 .. MaxFaults /\ MaxFaults \in Nat
         /\ pos[w] \in Nat \ {0} /\ end[w] \in Nat
         /\ Remaining(w) \in Nat /\ (HasBatch(w) <=> Remaining(w) > 0)
         /\ pc[w] \in Stages /\ StepsFrom(pc[w]) \in 1 .. 16
<1>1. /\ Len(stream) \in Nat /\ delivered \in 0 .. Len(stream)
      /\ faults \in 0 .. MaxFaults /\ MaxFaults \in Nat
      /\ pos[w] \in Nat \ {0} /\ end[w] \in Nat /\ pc[w] \in Stages
  BY PipelineAssumption DEF TypeOK
<1>2. Remaining(w) \in Nat /\ (HasBatch(w) <=> Remaining(w) > 0)
  BY <1>1 DEF Remaining, HasBatch
<1>3. QED
  BY <1>1, <1>2, StepsTyped

LEMMA WorkTyped ==
  ASSUME TypeOK, NEW w \in Workers
  PROVE  Work(w) \in Nat
<1>1. /\ Len(stream) \in Nat /\ delivered \in 0 .. Len(stream)
      /\ faults \in 0 .. MaxFaults /\ MaxFaults \in Nat
  BY WorkParts
<1>2. Remaining(w) \in Nat /\ StepsFrom(pc[w]) \in Nat
  BY WorkParts
<1>3. Len(stream) - delivered \in Nat /\ MaxFaults - faults \in Nat
  BY <1>1
<1>4. QED
  BY <1>2, <1>3, WeighTyped DEF Work

\* A process that ends gives its batch up.
LEMMA ExitDrops ==
  ASSUME TypeOK, NEW w \in Workers, Exit(w)
  PROVE  Remaining(w)' = 0 /\ pc'[w] = "stopped"
BY DEF TypeOK, Exit, Remaining, HasBatch

\* A step of a run, or a skipped entry, leads to a stage nearer to the next.
LEMMA NearerStage ==
  ASSUME TypeOK, NEW w \in Workers,
         \/ Start(w) \/ Skip(w) \/ Begin(w) \/ AlreadyBegun(w)
         \/ PersistCandle(w) \/ SaveSignal(w) \/ PublishSignal(w)
         \/ SaveDecision(w) \/ PublishDecision(w) \/ CheckSafety(w)
         \/ SaveOrder(w) \/ SaveFailedOrder(w) \/ SaveTrade(w)
         \/ SaveOrderEvents(w) \/ SaveAccount(w) \/ PublishExecution(w)
         \/ Complete(w) \/ Refuse(w)
  PROVE  /\ UNCHANGED <<stream, delivered, faults, pos, end>>
         /\ StepsFrom(pc'[w]) < StepsFrom(pc[w])
<1> USE DEF Goto, Call, groupVars, runVars, TypeOK
<1>1. UNCHANGED <<stream, delivered, faults, pos, end>>
  BY DEF Start, Skip, Begin, AlreadyBegun, PersistCandle, SaveSignal,
         PublishSignal, SaveDecision, PublishDecision, CheckSafety, SaveOrder,
         SaveFailedOrder, SaveTrade, SaveOrderEvents, SaveAccount,
         PublishExecution, Complete, Refuse
<1>2. CASE Start(w) \/ Skip(w) \/ Begin(w) \/ AlreadyBegun(w) \/ Complete(w)
  <2>1. \/ pc[w] = "stopped" /\ pc'[w] = "read"
        \/ pc[w] = "read" /\ pc'[w] \in {"candle", "ack"}
        \/ pc[w] = "complete" /\ pc'[w] = "ack"
    BY <1>2 DEF Start, Skip, Begin, AlreadyBegun, HandlesClosed, Complete
  <2>2. QED
    BY <1>1, <2>1 DEF StepsFrom
<1>3. CASE \/ PersistCandle(w) \/ SaveSignal(w) \/ PublishSignal(w)
           \/ SaveDecision(w) \/ PublishDecision(w) \/ CheckSafety(w)
  <2>1. \/ pc[w] = "candle" /\ pc'[w] = "signal"
        \/ pc[w] = "signal" /\ pc'[w] = "signalEvent"
        \/ pc[w] = "signalEvent" /\ pc'[w] = "decision"
        \/ pc[w] = "decision" /\ pc'[w] = "decisionEvent"
        \/ pc[w] = "decisionEvent" /\ pc'[w] \in {"safety", "complete"}
        \/ pc[w] = "safety" /\ pc'[w] \in {"order", "failedOrder", "complete"}
    BY <1>3 DEF PersistCandle, SaveSignal, PublishSignal, SaveDecision,
                PublishDecision, CheckSafety
  <2>2. QED
    BY <1>1, <2>1 DEF StepsFrom
<1>4. CASE \/ SaveOrder(w) \/ SaveFailedOrder(w) \/ SaveTrade(w)
           \/ SaveOrderEvents(w) \/ SaveAccount(w) \/ PublishExecution(w)
  <2>1. \/ pc[w] = "order" /\ pc'[w] = "trade"
        \/ pc[w] \in {"trade", "failedOrder"} /\ pc'[w] = "orderEvents"
        \/ pc[w] = "orderEvents" /\ pc'[w] \in {"account", "executionEvent"}
        \/ pc[w] = "account" /\ pc'[w] = "executionEvent"
        \/ pc[w] = "executionEvent" /\ pc'[w] = "complete"
    BY <1>4 DEF SaveOrder, SaveFailedOrder, SaveTrade, SaveOrderEvents,
                SaveAccount, PublishExecution
  <2>2. QED
    BY <1>1, <2>1 DEF StepsFrom
<1>5. CASE Refuse(w)
  <2>1. pc[w] \in {"signal", "decision"} /\ pc'[w] = "fail"
    BY <1>5 DEF Refuse
  <2>2. QED
    BY <1>1, <2>1 DEF StepsFrom
<1>6. QED
  BY <1>2, <1>3, <1>4, <1>5

\* A fault spends part of the budget, whatever else it costs the worker.
LEMMA FaultsSpend ==
  ASSUME CoreInv, NEW w \in Workers, FaultStep(w)
  PROVE  /\ faults' = faults + 1 /\ UNCHANGED stream
         /\ delivered' \in delivered .. Len(stream)
         /\ pc'[w] \in Stages
         /\ Remaining(w)' = Remaining(w) \/ Remaining(w)' = 0
<1>1. /\ TypeOK /\ delivered \in Nat /\ Len(stream) \in Nat
      /\ delivered <= Len(stream) /\ pc \in [Workers -> Stages]
  BY WorkParts DEF CoreInv, TypeOK
<1>2. faults' = faults + 1 /\ UNCHANGED stream
  BY DEF FaultStep, Fault, ReadLost, BeginFails, CallFails, CompleteFails,
         FailFails, AckFails, Crash
<1>3. CASE ReadLost(w)
  <2>1. delivered' \in Nat /\ delivered < delivered' /\ delivered' <= Len(stream)
    BY <1>1, <1>2, <1>3, DeliverMoves DEF ReadLost
  <2>2. UNCHANGED <<pc, pos, end>>
    BY <1>3 DEF ReadLost
  <2>3. QED
    BY <1>1, <1>2, <2>1, <2>2 DEF Remaining, HasBatch
<1>4. CASE CallFails(w)
  BY <1>1, <1>2, <1>4
     DEF CallFails, Goto, groupVars, Remaining, HasBatch, Stages, RunStages
<1>5. CASE \/ BeginFails(w) \/ CompleteFails(w) \/ FailFails(w) \/ AckFails(w)
           \/ Crash(w)
  <2>1. Exit(w) /\ UNCHANGED delivered
    BY <1>5 DEF BeginFails, CompleteFails, FailFails, AckFails, Crash, groupVars
  <2>2. QED
    BY <1>1, <1>2, <2>1, ExitDrops DEF Stages
<1>6. QED
  BY <1>3, <1>4, <1>5 DEF FaultStep

LEMMA OwnWorkShrinks ==
  ASSUME CoreInv, NEW w \in Workers, WorkerStep(w) \/ FaultStep(w)
  PROVE  Work(w)' \in Nat /\ Work(w)' < Work(w)
<1>1. TypeOK
  BY DEF CoreInv
<1> DEFINE a == Len(stream) - delivered
           f == MaxFaults - faults
           r == Remaining(w)
           s == StepsFrom(pc[w])
           b == Len(stream') - delivered'
           g == MaxFaults - faults'
           q == Remaining(w)'
           t == StepsFrom(pc'[w])
<1>2. a \in Nat /\ f \in Nat /\ r \in Nat /\ s \in 1 .. 16
  BY <1>1, WorkParts
<1>3. b \in Nat /\ g \in Nat /\ q \in Nat /\ t \in 1 .. 16
  <2>1. TypeOK'
    BY NextCore DEF CoreInv, Next
  <2>2. /\ Len(stream') \in Nat /\ delivered' \in 0 .. Len(stream')
        /\ faults' \in 0 .. MaxFaults /\ MaxFaults \in Nat
    BY <2>1, PipelineAssumption DEF TypeOK
  <2>3. pos'[w] \in Nat \ {0} /\ end'[w] \in Nat /\ pc'[w] \in Stages
    BY <2>1, <2>2 DEF TypeOK
  <2>4. q \in Nat
    BY <2>3 DEF Remaining, HasBatch
  <2>5. t \in 1 .. 16
    BY <2>3, StepsTyped
  <2>6. b \in Nat /\ g \in Nat
    BY <2>2, LeftOver
  <2> HIDE DEF b, g, q, t
  <2>7. QED
    BY <2>4, <2>5, <2>6
\* Reading entries, being done with one, a fault, and a step on an entry.
<1>4. \/ b < a /\ g = f /\ r = 0 /\ q = a - b /\ t = s
      \/ b = a /\ g = f /\ q < r
      \/ b <= a /\ g < f /\ q <= r
      \/ b = a /\ g = f /\ q = r /\ t < s
  <2>1. CASE Read(w)
    <3>1. /\ delivered' \in Nat /\ delivered < delivered' /\ delivered' <= Len(stream)
          /\ UNCHANGED <<stream, pc, faults>>
      BY <1>1, <2>1, DeliverMoves DEF Read
    <3>2. pos'[w] = delivered + 1 /\ end'[w] = delivered'
      BY <1>1, <2>1 DEF Read, Deliver, TypeOK
    <3>3. delivered \in Nat /\ Len(stream) \in Nat
      BY <1>1, WorkParts
    <3>4. q = delivered' - delivered
      <4>1. /\ delivered + 1 <= delivered'
            /\ delivered' - (delivered + 1) + 1 = delivered' - delivered
        BY <3>1, <3>3
      <4>2. HasBatch(w)' /\ q = end'[w] - pos'[w] + 1
        BY <3>2, <4>1 DEF Remaining, HasBatch
      <4>3. QED
        BY <3>2, <4>1, <4>2
    <3>5. r = 0
      BY <2>1 DEF Read, Remaining
    <3>6. b < a /\ q = a - b
      BY <3>1, <3>3, <3>4
    <3>7. g = f /\ t = s
      BY <3>1
    <3>8. QED
      BY <3>5, <3>6, <3>7
  <2>2. CASE Ack(w)
    <3>1. /\ UNCHANGED <<stream, delivered, faults, end>>
          /\ pos'[w] = pos[w] + 1 /\ HasBatch(w)
      BY <1>1, <2>2, RunsHold DEF Ack, Goto, TypeOK, CoreInv
    <3>2. q = r - 1
      BY <1>1, <3>1, WorkParts DEF Remaining, HasBatch
    <3>3. QED
      BY <1>2, <3>1, <3>2
  <2>3. CASE Reject(w) \/ Fail(w)
    <3>1. /\ Exit(w) /\ UNCHANGED <<stream, delivered, faults>>
          /\ HasBatch(w)
      BY <1>1, <2>3, RunsHold
         DEF Reject, Fail, groupVars, CoreInv, InRun, RunStages
    <3>2. r > 0 /\ q = 0
      BY <1>1, <3>1, ExitDrops, WorkParts
    <3>3. QED
      BY <1>2, <3>1, <3>2
  <2>4. CASE FaultStep(w)
    <3>1. /\ faults' = faults + 1 /\ UNCHANGED stream
          /\ delivered' \in delivered .. Len(stream)
          /\ q = r \/ q = 0
      BY <2>4, FaultsSpend
    <3>2. faults \in Nat /\ MaxFaults \in Nat /\ delivered \in Nat /\ Len(stream) \in Nat
      BY <1>1, WorkParts
    <3>3. b <= a /\ g < f /\ q <= r
      BY <1>2, <3>1, <3>2
    <3>4. QED
      BY <3>3
  <2>5. CASE WorkerStep(w) /\ ~(Read(w) \/ Ack(w) \/ Reject(w) \/ Fail(w))
    <3>1. /\ UNCHANGED <<stream, delivered, faults, pos, end>>
          /\ t < s
      BY <1>1, <2>5, NearerStage DEF WorkerStep, RunStep
    <3>2. q = r
      BY <3>1 DEF Remaining, HasBatch
    <3>3. QED
      BY <3>1, <3>2
  <2>6. QED
    BY <2>1, <2>2, <2>3, <2>4, <2>5
<1>5. Work(w) = Weigh(a, f, r, s) /\ Work(w)' = Weigh(b, g, q, t)
  BY DEF Work
<1> HIDE DEF a, f, r, s, b, g, q, t
<1>6. Weigh(b, g, q, t) \in Nat
  BY <1>3 DEF Weigh
<1>7. Weigh(b, g, q, t) < Weigh(a, f, r, s)
  BY <1>2, <1>3, <1>4 DEF Weigh
<1>8. QED
  BY <1>5, <1>6, <1>7

\* Other workers may only take entries and faults away from a worker.
LEMMA OthersTakeAway ==
  ASSUME CoreInv, [Next]_vars, UNCHANGED stream, NEW w \in Workers,
         ~WorkerStep(w), ~FaultStep(w)
  PROVE  Work(w)' <= Work(w)
<1>1. TypeOK
  BY DEF CoreInv
<1>2. /\ pc'[w] = pc[w] /\ pos'[w] = pos[w] /\ end'[w] = end[w]
      /\ delivered' \in delivered .. Len(stream)
      /\ faults' \in faults .. MaxFaults
  <2>1. CASE UNCHANGED <<delivered, faults, pc, pos, end>>
    BY <1>1, <2>1, WorkParts
  <2>2. CASE Publish \/ UNCHANGED vars
    BY <2>1, <2>2 DEF Publish, vars, groupVars
  <2>3. CASE \E v \in Workers : WorkerStep(v) \/ FaultStep(v)
    <3>1. PICK v \in Workers : WorkerStep(v) \/ FaultStep(v)
      BY <2>3
    <3>2. v # w
      BY <3>1
    <3>3. pc'[w] = pc[w] /\ pos'[w] = pos[w] /\ end'[w] = end[w]
      <4> USE <1>1, <3>2 DEF TypeOK, Goto, Exit, Call
      <4>1. CASE WorkerStep(v)
        BY <4>1 DEF WorkerStep, RunStep, Start, Read, Skip, Reject, Ack, Begin,
             AlreadyBegun, PersistCandle, SaveSignal, PublishSignal,
             SaveDecision, PublishDecision, CheckSafety, SaveOrder,
             SaveFailedOrder, SaveTrade, SaveOrderEvents, SaveAccount,
             PublishExecution, Complete, Fail, Refuse
      <4>2. CASE FaultStep(v)
        BY <4>2 DEF FaultStep, ReadLost, BeginFails, CallFails, CompleteFails,
             FailFails, AckFails, Crash
      <4>3. QED
        BY <3>1, <4>1, <4>2
    <3>4. CASE FaultStep(v)
      <4>1. faults' = faults + 1 /\ delivered' \in delivered .. Len(stream)
        BY <3>4, FaultsSpend
      <4>2. faults < MaxFaults
        BY <3>4 DEF FaultStep, Fault, ReadLost, BeginFails, CallFails,
                    CompleteFails, FailFails, AckFails, Crash
      <4>3. QED
        BY <1>1, <3>3, <4>1, <4>2, WorkParts
    <3>5. CASE Read(v)
      <4>1. delivered' \in Nat /\ delivered < delivered' /\ delivered' <= Len(stream)
        BY <1>1, <3>5, DeliverMoves DEF Read
      <4>2. UNCHANGED faults
        BY <3>5 DEF Read
      <4>3. QED
        BY <1>1, <3>3, <4>1, <4>2, WorkParts
    <3>6. CASE WorkerStep(v) /\ ~Read(v)
      <4>1. UNCHANGED <<delivered, faults>>
        BY <3>6 DEF WorkerStep, RunStep, Start, Skip, Reject, Ack, Begin,
             AlreadyBegun, PersistCandle, SaveSignal, PublishSignal,
             SaveDecision, PublishDecision, CheckSafety, SaveOrder,
             SaveFailedOrder, SaveTrade, SaveOrderEvents, SaveAccount,
             PublishExecution, Complete, Fail, Refuse, Call, groupVars
      <4>2. QED
        BY <1>1, <3>3, <4>1, WorkParts
    <3>7. QED
      BY <3>1, <3>4, <3>5, <3>6
  <2>4. QED
    BY <2>2, <2>3 DEF Next, Poll
<1>3. Remaining(w)' = Remaining(w)
  BY <1>2 DEF Remaining, HasBatch
<1>4. Work(w)' = Weigh(Len(stream) - delivered', MaxFaults - faults',
                        Remaining(w), StepsFrom(pc[w]))
  BY <1>2, <1>3 DEF Work
<1>5. /\ Len(stream) - delivered \in Nat /\ MaxFaults - faults \in Nat
      /\ Remaining(w) \in Nat /\ StepsFrom(pc[w]) \in Nat
  <2>1. /\ Len(stream) \in Nat /\ delivered \in 0 .. Len(stream)
        /\ faults \in 0 .. MaxFaults /\ MaxFaults \in Nat
    BY <1>1, WorkParts
  <2>2. Remaining(w) \in Nat
    BY <1>1, WorkParts
  <2>3. StepsFrom(pc[w]) \in 1 .. 16
    BY <1>1, WorkParts
  <2>4. Len(stream) - delivered \in Nat /\ MaxFaults - faults \in Nat
    BY <2>1
  <2>5. QED
    BY <2>2, <2>3, <2>4
<1>6. /\ Len(stream) - delivered' \in Nat /\ MaxFaults - faults' \in Nat
      /\ Len(stream) - delivered' <= Len(stream) - delivered
      /\ MaxFaults - faults' <= MaxFaults - faults
  BY <1>1, <1>2, WorkParts
<1>7. QED
  BY <1>4, <1>5, <1>6, WeighMost DEF Work

\* Consumer.Run and Orchestrator.run: over duplicates, undecodable entries,
\* failed calls and restarts, a worker takes no more steps than a number worked
\* out from the entries and faults that are left, unless entries are added. With
\* workers that take the steps they can, the stream comes to rest.
THEOREM WorkersComeToRest == Spec => [](\A w \in Workers : Work(w) \in Nat) /\ WorkShrinks
<1>1. CoreInv => \A w \in Workers : Work(w) \in Nat
  BY WorkTyped DEF CoreInv
<1>2. CoreInv /\ [Next]_vars =>
        [\A w \in Workers :
           /\ UNCHANGED stream => Work(w)' <= Work(w)
           /\ WorkerStep(w) \/ FaultStep(w) => Work(w)' < Work(w)]_vars
  <2>1. SUFFICES ASSUME CoreInv, [Next]_vars, NEW w \in Workers
                 PROVE  /\ UNCHANGED stream => Work(w)' <= Work(w)
                        /\ WorkerStep(w) \/ FaultStep(w) => Work(w)' < Work(w)
    OBVIOUS
  <2>2. WorkerStep(w) \/ FaultStep(w) => Work(w)' < Work(w)
    BY <2>1, OwnWorkShrinks
  <2>3. WorkerStep(w) \/ FaultStep(w) => Work(w)' <= Work(w)
    <3>1. SUFFICES ASSUME WorkerStep(w) \/ FaultStep(w)
                   PROVE  Work(w)' <= Work(w)
      OBVIOUS
    <3>2. Work(w)' \in Nat /\ Work(w)' < Work(w) /\ Work(w) \in Nat
      BY <2>1, <3>1, OwnWorkShrinks, WorkTyped DEF CoreInv
    <3>3. QED
      BY <3>2
  <2>4. QED
    BY <2>1, <2>2, <2>3, OthersTakeAway
<1>3. QED
  BY <1>1, <1>2, CoreInvariant, PTL DEF Spec, WorkShrinks

-----------------------------------------------------------------------------
(* Runs left without an end.                                               *)

StuckInv == IsFiniteSet(Stuck) /\ Cardinality(Stuck) <= faults

\* The run log changes the records and holders of one candle at a time.
LEMMA LogChangesOne ==
  ASSUME CoreInv, [Log!Next]_(Log!logVars)
  PROVE  \E c : \A d \in Candles \ {c} : runs'[d] = runs[d] /\ Holders(d)' = Holders(d)
<1> DEFINE held == [c \in Candles |-> Holders(c)]
<1>1. CASE UNCHANGED <<runs, held>>
  <2>1. \A d \in Candles : Holders(d) = held[d] /\ Holders(d)' = held'[d]
    OBVIOUS
  <2>2. QED
    BY <1>1, <2>1
<1>2. ASSUME NEW c \in Candles, Log!Begin(c) \/ Log!Work(c) \/ Log!Leave(c)
      PROVE  \A d \in Candles \ {c} : runs'[d] = runs[d] /\ Holders(d)' = Holders(d)
  <2>1. /\ UNCHANGED runs \/ \E s : runs' = [runs EXCEPT ![c] = s]
        /\ UNCHANGED held \/ \E h : held' = [held EXCEPT ![c] = h]
    BY <1>2, Zenon DEF Log!Begin, Log!Work, Log!Leave
  <2>2. \A d \in Candles : Holders(d) = held[d] /\ Holders(d)' = held'[d]
    OBVIOUS
  <2>3. DOMAIN held = Candles /\ DOMAIN runs = Candles
    BY DEF CoreInv, TypeOK
  <2> HIDE DEF held
  <2>4. \A d \in Candles \ {c} : runs'[d] = runs[d] /\ held'[d] = held[d]
    BY <2>1, <2>3
  <2>5. QED
    BY <2>2, <2>4
<1>3. QED
  BY <1>1, <1>2 DEF Log!Next, Log!logVars

\* What the run log does not see gets no candle stuck.
LEMMA UnseenSticksNothing ==
  ASSUME UNCHANGED Log!logVars
  PROVE  Stuck' = Stuck
<1>1. runs' = runs /\ [c \in Candles |-> Holders(c)'] = [c \in Candles |-> Holders(c)]
  BY DEF Log!logVars
<1>2. \A c \in Candles : Holders(c)' = Holders(c)
  BY <1>1
<1>3. QED
  BY <1>1, <1>2 DEF Stuck

LEMMA WorkersStickNothing ==
  ASSUME CoreInv, NEW w \in Workers, WorkerStep(w)
  PROVE  Stuck' \subseteq Stuck /\ UNCHANGED faults
<1>0. /\ runs \in [Candles -> RunStatus] /\ pc \in [Workers -> Stages]
      /\ pos \in [Workers -> Nat \ {0}]
  BY DEF CoreInv, TypeOK
<1>c. PICK c : c = Current(w)
  OBVIOUS
<1>1. CASE Begin(w)
  <2>1. /\ c \in Candles /\ runs' = [runs EXCEPT ![c] = "processing"]
        /\ UNCHANGED <<stream, pos, faults>> /\ pc' = [pc EXCEPT ![w] = "candle"]
        /\ ~InRun(w)
    BY <1>1, <1>c, HeldInStream
       DEF Begin, HandlesClosed, BeginRun, Goto, CoreInv, InRun, RunStages, Effects
  <2>2. \A v \in Workers : /\ Current(v)' = Current(v)
                           /\ InRun(v) => InRun(v)'
    BY <1>0, <2>1 DEF Current, InRun
  <2>3. w \in Holders(c)'
    BY <1>0, <1>c, <2>1, <2>2 DEF Holders, InRun, RunStages, Effects
  <2>4. \A d \in Candles : Holders(d) \subseteq Holders(d)'
    BY <2>2 DEF Holders
  <2>5. QED
    BY <1>0, <2>1, <2>3, <2>4 DEF Stuck
<1>2. CASE Complete(w) \/ Fail(w)
  <2>1. /\ runs' = [runs EXCEPT ![c] = "completed"] \/ runs' = [runs EXCEPT ![c] = "failed"]
        /\ UNCHANGED <<stream, faults>>
        /\ \A v \in Workers \ {w} : pc'[v] = pc[v] /\ pos'[v] = pos[v]
        /\ InRun(w)
    BY <1>0, <1>2, <1>c DEF Complete, Fail, CompleteRun, FailRun, Exit, Goto, InRun,
       RunStages
  <2>2. c \in Candles
    BY <1>c, <2>1, RunnerIsAlone
  <2>3. \A d \in Candles \ {c} : Holders(d) \subseteq Holders(d)'
    BY <1>c, <2>1 DEF Holders, InRun, Current
  <2>4. QED
    BY <1>0, <2>1, <2>2, <2>3 DEF Stuck
<1>3. CASE \/ PersistCandle(w) \/ SaveSignal(w) \/ PublishSignal(w)
           \/ SaveDecision(w) \/ PublishDecision(w) \/ CheckSafety(w)
           \/ SaveOrder(w) \/ SaveFailedOrder(w) \/ SaveTrade(w)
           \/ SaveOrderEvents(w) \/ SaveAccount(w) \/ PublishExecution(w)
           \/ Refuse(w)
  <2>1. Advance(w) /\ UNCHANGED faults
    BY <1>3, RunStepsAdvance DEF CoreInv, PersistCandle, SaveSignal, PublishSignal,
       SaveDecision, PublishDecision, CheckSafety, SaveOrder, SaveFailedOrder,
       SaveTrade, SaveOrderEvents, SaveAccount, PublishExecution, Refuse, Call
  <2>2. \A v \in Workers : (InRun(v)' <=> InRun(v)) /\ Current(v)' = Current(v)
    BY <1>0, <2>1 DEF Advance, InRun, Current
  <2>3. runs' = runs /\ \A d \in Candles : Holders(d)' = Holders(d)
    BY <2>1, <2>2 DEF Holders, Advance
  <2>4. QED
    BY <2>1, <2>3 DEF Stuck
<1>4. CASE Start(w) \/ Read(w) \/ Skip(w) \/ Reject(w) \/ Ack(w) \/ AlreadyBegun(w)
  <2>1. UNCHANGED faults
    BY <1>4 DEF Start, Read, Skip, Reject, Ack, AlreadyBegun
  <2>2. QED
    BY <1>4, <2>1, IdleStepsUnseen, UnseenSticksNothing
<1>5. QED
  BY <1>1, <1>2, <1>3, <1>4 DEF WorkerStep, RunStep

LEMMA StuckKept ==
  ASSUME CoreInv, StuckInv, [Next]_vars
  PROVE  StuckInv'
<1>0. faults \in Nat /\ Cardinality(Stuck) \in Nat
  BY PipelineAssumption, FS_CardinalityType DEF CoreInv, TypeOK, StuckInv
<1>1. ASSUME Stuck' \subseteq Stuck, UNCHANGED faults
      PROVE  StuckInv'
  <2>1. IsFiniteSet(Stuck') /\ Cardinality(Stuck') <= Cardinality(Stuck)
    BY <1>1, FS_Subset DEF StuckInv
  <2>2. Cardinality(Stuck') \in Nat
    BY <2>1, FS_CardinalityType
  <2>3. QED
    BY <1>0, <1>1, <2>1, <2>2 DEF StuckInv
<1>2. ASSUME NEW w \in Workers, FaultStep(w)
      PROVE  StuckInv'
  <2>1. faults' = faults + 1
    BY <1>2, FaultsSpend
  <2>2. PICK c : \A d \in Candles \ {c} : runs'[d] = runs[d] /\ Holders(d)' = Holders(d)
    BY <1>2, StepsAreLogged, LogChangesOne DEF Next
  <2>3. Stuck' \subseteq Stuck \cup {c}
    BY <2>2 DEF Stuck
  <2>4. /\ IsFiniteSet(Stuck \cup {c})
        /\ Cardinality(Stuck \cup {c}) \in {Cardinality(Stuck), Cardinality(Stuck) + 1}
    BY FS_AddElement DEF StuckInv
  <2>5. IsFiniteSet(Stuck') /\ Cardinality(Stuck') <= Cardinality(Stuck \cup {c})
    BY <2>3, <2>4, FS_Subset
  <2>6. Cardinality(Stuck') \in Nat
    BY <2>5, FS_CardinalityType
  <2>7. QED
    BY <1>0, <2>1, <2>4, <2>5, <2>6 DEF StuckInv
<1>3. CASE Publish \/ UNCHANGED vars
  <2>1. UNCHANGED faults
    BY <1>3 DEF Publish, vars
  <2>2. Stuck' \subseteq Stuck
    BY <1>3, EnvironmentUnseen, UnseenSticksNothing
  <2>3. QED
    BY <1>1, <2>1, <2>2
<1>4. QED
  BY <1>1, <1>2, <1>3, WorkersStickNothing DEF Next, Poll

\* Orchestrator.Handle leaves a record 'processing' with nobody in the run at
\* most once for each call that failed and each process that died: runs that
\* are refused, duplicates and restarts alone strand no candle.
THEOREM StuckRunsCostFaults == Spec => []StuckRunsNeedFaults
<1>1. Init => StuckInv
  <2>1. Init => Stuck = {} /\ faults = 0
    BY DEF Init, Stuck
  <2>2. QED
    BY <2>1, FS_EmptySet DEF StuckInv
<1>2. CoreInv /\ StuckInv /\ [Next]_vars => StuckInv'
  BY StuckKept
<1>3. StuckInv => StuckRunsNeedFaults
  BY DEF StuckInv, StuckRunsNeedFaults
<1>4. QED
  BY <1>1, <1>2, <1>3, CoreInvariant, PTL DEF Spec

===============================================================================
