-------------------------- MODULE EvaluationRunProofs ------------------------
(***************************************************************************)
(* Proofs about EvaluationRun, for every set of messages, evaluators,      *)
(* drivers and workers and every value of the other constants.             *)
(***************************************************************************)
EXTENDS EvaluationRun, TLAPS

LEMMA FirstNSubset == ASSUME NEW S, NEW k PROVE FirstN(S, k) \subseteq S
  BY DEF FirstN

LEMMA ChunksSubset == ASSUME NEW S, NEW k PROVE Chunks(S, k) \subseteq SUBSET S
  BY DEF Chunks

\* Every assignment of an action keeps the memory of a tick in its type.
LEMMA TickEdits ==
  ASSUME NEW t \in Tick
  PROVE  /\ \A ids \in SUBSET Messages : [t EXCEPT !.pc = "locked", !.ids = ids] \in Tick
         /\ \A r \in SUBSET Messages : [t EXCEPT !.pc = "counted", !.remaining = r] \in Tick
         /\ \A pc \in {"stalled", "sending", "finalizing"} : [t EXCEPT !.pc = pc] \in Tick
         /\ \A pc \in {"claiming", "sending"}, batches \in SUBSET (SUBSET Messages),
               terminal \in {"none", "empty", "success", "error"} :
              [t EXCEPT !.pc = pc, !.batches = batches, !.terminal = terminal] \in Tick
         /\ \A batches \in SUBSET (SUBSET Messages) : [t EXCEPT !.batches = batches] \in Tick
         /\ IdleTick \in Tick
  BY DEF Tick, IdleTick

\* Likewise for the memory of a worker.
LEMMA WorkerEdits ==
  ASSUME NEW b \in Batch
  PROVE  /\ \A left \in SUBSET Messages : [b EXCEPT !.pc = "judging", !.left = left] \in Batch
         /\ \A left, message \in SUBSET Messages, pending \in SUBSET Evaluators :
              [b EXCEPT !.left = left, !.message = message, !.pending = pending] \in Batch
         /\ \A pc \in {"judging", "scoring"}, message \in SUBSET Messages,
               pending \in SUBSET Evaluators, due \in SUBSET Pairs :
              [b EXCEPT !.pc = pc, !.message = message, !.pending = pending, !.scoring = due] \in Batch
         /\ [b EXCEPT !.pc = "judging", !.scoring = {}] \in Batch
         /\ IdleWorker \in Batch
  BY DEF Batch, IdleWorker

USE DEF NonTerminal, Terminal, Drivable, FirstTick, AllDone, Aggregatable, ScoresDue

LEMMA TypeCorrect == Spec => []TypeOK
<1>1. Init => TypeOK
  <2> SUFFICES ASSUME Init PROVE TypeOK
    OBVIOUS
  <2> USE DEF Init, TypeOK
  <2>1. faults \in 0..MaxFaults
    BY FaultsAssumption
  <2>2. tick \in [Drivers -> Tick]
    BY DEF IdleTick, Tick
  <2>3. worker \in [Workers -> Batch]
    BY DEF IdleWorker, Batch
  <2>4. results \in [Pairs -> {"none", "ok", "error"}]
    OBVIOUS
  <2>5. QED BY <2>1, <2>2, <2>3, <2>4
<1>2. TypeOK /\ [Next]_vars => TypeOK'
  <2> SUFFICES ASSUME TypeOK, [Next]_vars PROVE TypeOK'
    OBVIOUS
  <2> USE DEF TypeOK
  <2>0. faults < MaxFaults => faults + 1 \in 0..MaxFaults
    BY FaultsAssumption
  <2>1. ASSUME NEW messages \in SUBSET Messages, NEW chosen \in SUBSET Evaluators,
               NEW broken \in SUBSET Evaluators, CreateRun(messages, chosen, broken)
        PROVE TypeOK'
    BY <2>1 DEF CreateRun, output, outside
  <2>2. ASSUME NEW d \in Drivers, TickStep(d) PROVE TypeOK'
    <3> USE DEF Commit, row, plan, output, outside
    <3>1. CASE TickLocks(d)
      BY <3>1, TickEdits DEF TickLocks
    <3>2. CASE TickCompletesEmpty(d)
      BY <3>2, TickEdits DEF TickCompletesEmpty
    <3>3. CASE TickFailsUnconfigured(d)
      BY <3>3, TickEdits DEF TickFailsUnconfigured
    <3>4. CASE TickCounts(d)
      <4>1. tick[d].ids \ Done(tick[d].ids) \in SUBSET Messages
        BY DEF Tick
      <4>2. QED BY <3>4, <4>1, TickEdits DEF TickCounts
    <3>5. CASE TickCompletes(d)
      BY <3>5, TickEdits DEF TickCompletes
    <3>6. CASE TickDispatches(d)
      <4> DEFINE dispatched == FirstN(tick[d].remaining, BATCHES_PER_TICK * BATCH_SIZE)
      <4>1. dispatched \subseteq Messages
        BY FirstNSubset DEF Tick
      <4>2. Chunks(dispatched, BATCH_SIZE) \subseteq SUBSET Messages
        BY <4>1, ChunksSubset
      <4> HIDE DEF dispatched
      <4>3. QED BY <3>6, <4>1, <4>2, TickEdits DEF TickDispatches, dispatched
    <3>7. CASE TickFindsStall(d)
      BY <3>7, TickEdits DEF TickFindsStall
    <3>8. CASE TickFindsProgress(d)
      BY <3>8, TickEdits DEF TickFindsProgress
    <3>9. CASE TickFailsStalled(d)
      <4>1. stall_count' \in Nat /\ barren' \in Nat
        BY <3>9 DEF TickFailsStalled, NextStallCount, NextBarren
      <4>2. QED BY <3>9, <4>1, TickEdits DEF TickFailsStalled
    <3>10. CASE TickRedispatches(d)
      <4>1. Unfinished(d) \subseteq Messages
        BY DEF Unfinished
      <4>2. Chunks(Unfinished(d), BATCH_SIZE) \subseteq SUBSET Messages
        BY <4>1, ChunksSubset
      <4>3. stall_count' \in Nat /\ barren' \in Nat
        BY <3>10 DEF TickRedispatches, NextStallCount, NextBarren
      <4>4. QED BY <3>10, <4>1, <4>2, <4>3, TickEdits DEF TickRedispatches
    <3>11. CASE TickCreatesTask(d)
      <4>1. PICK next \in {IdleTick, [tick[d] EXCEPT !.pc = "sending"]} :
              tick' = [tick EXCEPT ![d] = next]
        BY <3>11 DEF TickCreatesTask
      <4>2. next \in Tick
        <5>1. CASE next = IdleTick
          BY <5>1, TickEdits
        <5>2. CASE next = [tick[d] EXCEPT !.pc = "sending"]
          BY <5>2, TickEdits
        <5>3. QED BY <5>1, <5>2
      <4>3. tick' \in [Drivers -> Tick]
        BY <4>1, <4>2
      <4>4. tb_roots' \in Nat
        BY <3>11 DEF TickCreatesTask
      <4>5. QED BY <3>11, <4>3, <4>4 DEF TickCreatesTask
    <3>12. CASE TickPublishesBatch(d)
      <4>1. tick[d].batches \subseteq SUBSET Messages
        BY DEF Tick
      <4>2. PICK batch \in tick[d].batches :
              /\ broker' = broker \cup {batch}
              /\ tick' = [tick EXCEPT ![d] = [@ EXCEPT !.batches = tick[d].batches \ {batch}]]
        BY <3>12 DEF TickPublishesBatch
      <4>3. tick' \in [Drivers -> Tick]
        BY <4>1, <4>2, TickEdits
      <4>4. broker' \subseteq SUBSET Messages
        BY <4>1, <4>2
      <4>5. QED BY <3>12, <4>3, <4>4 DEF TickPublishesBatch
    <3>13. CASE TickPublishesProgress(d)
      <4>1. tick' \in [Drivers -> Tick]
        BY <3>13, TickEdits DEF TickPublishesProgress
      <4>2. progress' \in {"none", "running", "stopped"}
        BY <3>13 DEF TickPublishesProgress, StoreResult, Announcement
      <4>3. faults' \in 0..MaxFaults
        BY <2>0, <3>13 DEF TickPublishesProgress
      <4>4. QED BY <3>13, <4>1, <4>2, <4>3 DEF TickPublishesProgress
    <3>14. CASE TickDispatchesFinalize(d)
      BY <3>14, TickEdits DEF TickDispatchesFinalize
    <3>15. QED BY <2>2, <3>1, <3>2, <3>3, <3>4, <3>5, <3>6, <3>7, <3>8, <3>9,
                  <3>10, <3>11, <3>12, <3>13, <3>14 DEF TickStep
  <2>3. ASSUME NEW w \in Workers, WorkerStep(w) PROVE TypeOK'
    <3> USE DEF row, plan, output, outside
    <3>1. ASSUME NEW batch \in broker, WorkerReceives(w, batch) PROVE TypeOK'
      BY <3>1, WorkerEdits DEF WorkerReceives
    <3>2. CASE WorkerStartsMessage(w)
      <4> DEFINE m == Least(worker[w].left)
                 left == worker[w].left \ {m}
                 pending == IF m \in scoped THEN PendingEvaluators(m) ELSE {}
                 message == IF pending = {} THEN {} ELSE {m}
      <4>1. /\ left \in SUBSET Messages
            /\ pending \in SUBSET Evaluators
            /\ message \in SUBSET Messages
        BY DEF PendingEvaluators, Batch
      <4>2. worker' = [worker EXCEPT ![w] =
                         [@ EXCEPT !.left = left, !.message = message, !.pending = pending]]
        BY <3>2 DEF WorkerStartsMessage
      <4> HIDE DEF m, left, pending, message
      <4>3. worker' \in [Workers -> Batch]
        BY <4>1, <4>2, WorkerEdits
      <4>4. QED BY <3>2, <4>3 DEF WorkerStartsMessage
    <3>3. CASE WorkerEndsBatch(w)
      BY <3>3, WorkerEdits DEF WorkerEndsBatch
    <3>4. ASSUME NEW e \in Evaluators, NEW outcome \in {"ok", "error"},
                 WorkerJudges(w, e, outcome)
          PROVE TypeOK'
      <4> DEFINE m == CHOOSE n \in worker[w].message : TRUE
                 inserted == Insertable(m, e)
                 due == IF inserted /\ outcome = "ok" THEN {<<m, e>>} ELSE {}
                 rest == worker[w].pending \ {e}
                 pc == IF due = {} THEN "judging" ELSE "scoring"
                 message == IF rest = {} THEN {} ELSE worker[w].message
      <4>1. due \in SUBSET Pairs
        BY DEF Insertable, Pairs
      <4>2. rest \in SUBSET Evaluators /\ message \in SUBSET Messages
        BY DEF Batch
      <4>3. pc \in {"judging", "scoring"}
        OBVIOUS
      <4>4. worker' = [worker EXCEPT ![w] =
                         [@ EXCEPT !.pc = pc, !.message = message, !.pending = rest, !.scoring = due]]
        BY <3>4 DEF WorkerJudges
      <4>5. results' \in [Pairs -> {"none", "ok", "error"}]
        BY <3>4 DEF WorkerJudges
      <4>6. quiet' \in BOOLEAN
        BY <3>4 DEF WorkerJudges
      <4> HIDE DEF due, rest, pc, message
      <4>7. worker' \in [Workers -> Batch]
        BY <4>1, <4>2, <4>3, <4>4, WorkerEdits
      <4>8. QED BY <3>4, <4>5, <4>6, <4>7 DEF WorkerJudges
    <3>5. CASE WorkerWritesScores(w)
      BY <3>5, WorkerEdits DEF WorkerWritesScores, OkPairs
    <3>6. CASE WorkerFailsToScore(w)
      <4>1. worker' \in [Workers -> Batch]
        BY <3>6, WorkerEdits DEF WorkerFailsToScore
      <4>2. QED BY <3>6, <4>1, <2>0 DEF WorkerFailsToScore
    <3>7. CASE WorkerDies(w)
      <4>1. worker' \in [Workers -> Batch]
        BY <3>7, WorkerEdits DEF WorkerDies
      <4>2. faults' \in 0..MaxFaults
        BY <3>7, <2>0 DEF WorkerDies
      <4>3. QED BY <3>7, <4>1, <4>2 DEF WorkerDies
    <3>8. QED BY <2>3, <3>1, <3>2, <3>3, <3>4, <3>5, <3>6, <3>7 DEF WorkerStep
  <2>4. CASE FinalizerStep
    BY <2>4 DEF FinalizerStep, FinalizerStarts, FinalizerAggregates, FinalizerStamps,
                row, plan, output, outside, OkPairs
  <2>5. CASE StallTimeoutPasses
    BY <2>5 DEF StallTimeoutPasses, row, plan, output, outside
  <2>6. ASSUME NEW d \in Drivers, TickDies(d) PROVE TypeOK'
    <3>1. tick' \in [Drivers -> Tick]
      BY <2>6, TickEdits DEF TickDies
    <3>2. QED BY <2>6, <3>1, <2>0 DEF TickDies, row, plan, output, outside
  <2>7. CASE FinalizerDies
    BY <2>7, <2>0 DEF FinalizerDies, row, plan, output, outside
  <2>8. ASSUME NEW m \in Messages, DeleteMessage(m) PROVE TypeOK'
    BY <2>8, <2>0 DEF DeleteMessage, Fault, CascadeResults, row, outside
  <2>9. ASSUME NEW e \in Evaluators, DeleteEvaluator(e) PROVE TypeOK'
    BY <2>9, <2>0 DEF DeleteEvaluator, Fault, CascadeResults, row, outside
  <2>10. CASE DeleteRun
    <3>1. results' \in [Pairs -> {"none", "ok", "error"}] /\ scores' \subseteq Pairs
      BY <2>10 DEF DeleteRun, CascadeResults
    <3>2. faults' \in 0..MaxFaults
      BY <2>10, <2>0 DEF DeleteRun, Fault
    <3>3. QED BY <2>10, <3>1, <3>2 DEF DeleteRun, outside
  <2>11. CASE UNCHANGED vars
    BY <2>11 DEF vars, row, plan, output, outside
  <2>12. QED
    BY <2>1, <2>2, <2>3, <2>4, <2>5, <2>6, <2>7, <2>8, <2>9, <2>10, <2>11
       DEF Next, Environment
<1>3. QED
  BY <1>1, <1>2, PTL DEF Spec

-----------------------------------------------------------------------------
(* What each kind of step leaves alone.                                    *)

LEMMA TickFrame ==
  ASSUME NEW d \in Drivers, TickStep(d)
  PROVE  /\ UNCHANGED <<plan, output, worker>>
         /\ faults' = faults \/ faults' = faults + 1
  BY DEF TickStep, TickLocks, TickCompletesEmpty, TickFailsUnconfigured, TickCounts,
         TickCompletes, TickDispatches, TickFindsStall, TickFindsProgress,
         TickFailsStalled, TickRedispatches, TickCreatesTask, TickPublishesBatch,
         TickPublishesProgress, TickDispatchesFinalize, Commit

LEMMA WorkerFrame ==
  ASSUME NEW w \in Workers, WorkerStep(w)
  PROVE  UNCHANGED <<row, plan, aggregated, outside, tick, finalizer>>
  BY DEF WorkerStep, WorkerReceives, WorkerStartsMessage, WorkerEndsBatch, WorkerJudges,
         WorkerWritesScores, WorkerFailsToScore, WorkerDies, output

LEMMA FinalizerFrame ==
  ASSUME FinalizerStep
  PROVE  UNCHANGED <<status, error_message, in_flight, stall_count, barren, plan,
                     results, scores, outside, quiet, tick, worker, faults>>
  BY DEF FinalizerStep, FinalizerStarts, FinalizerAggregates, FinalizerStamps, row, output

\* The plan only shrinks, a result is inserted only for a planned pair, and one
\* disappears only with its message or its evaluator.
PlanShrinks ==
  /\ scoped' \subseteq scoped
  /\ evaluator_ids' = evaluator_ids
  /\ evaluators' \subseteq evaluators
  /\ \A p \in Pairs :
       \/ /\ p \in scoped' \X (evaluator_ids' \cap evaluators')
          /\ results'[p] = results[p] \/ results[p] = "none"
       \/ /\ p \notin scoped' \X (evaluator_ids' \cap evaluators')
          /\ results'[p] = "none"

LEMMA PlanStep ==
  ASSUME TypeOK, ResultsWithinPlan, WorkersInPlan, [Next]_vars
  PROVE  PlanShrinks \/ (status = "none" /\ status' = "pending" /\ UNCHANGED results)
<1> USE DEF PlanShrinks
<1>1. ASSUME NEW messages \in SUBSET Messages, NEW chosen \in SUBSET Evaluators,
             NEW broken \in SUBSET Evaluators, CreateRun(messages, chosen, broken)
      PROVE  status = "none" /\ status' = "pending" /\ UNCHANGED results
  BY <1>1 DEF CreateRun, output
<1>2. ASSUME NEW d \in Drivers, TickStep(d) PROVE PlanShrinks
  BY <1>2, TickFrame DEF plan, output, ResultsWithinPlan
<1>3. ASSUME NEW w \in Workers, NEW e \in Evaluators, NEW outcome \in {"ok", "error"},
             WorkerJudges(w, e, outcome)
      PROVE  PlanShrinks
  <2> DEFINE m == CHOOSE n \in worker[w].message : TRUE
  <2>1. UNCHANGED plan
    BY <1>3 DEF WorkerJudges
  <2>2. e \in evaluator_ids
    BY <1>3 DEF WorkerJudges, WorkersInPlan
  <2>3. CASE Insertable(m, e)
    <3>1. results' = [results EXCEPT ![<<m, e>>] = outcome]
      BY <1>3, <2>3 DEF WorkerJudges
    <3> HIDE DEF m
    <3>2. results[<<m, e>>] = "none" /\ m \in scoped /\ e \in evaluator_ids \cap evaluators
      BY <2>2, <2>3 DEF Insertable
    <3>3. \A p \in Pairs : p # <<m, e>> => results'[p] = results[p]
      BY <3>1 DEF TypeOK
    <3>4. QED BY <2>1, <3>2, <3>3 DEF plan, ResultsWithinPlan
  <2>4. CASE ~Insertable(m, e)
    <3>1. results' = results
      BY <1>3, <2>4 DEF WorkerJudges
    <3>2. QED BY <2>1, <3>1 DEF plan, ResultsWithinPlan
  <2>5. QED BY <2>3, <2>4
<1>4. ASSUME NEW w \in Workers, WorkerStep(w) PROVE PlanShrinks
  <2>1. UNCHANGED plan
    BY <1>4, WorkerFrame
  <2>2. CASE \E e \in Evaluators, outcome \in {"ok", "error"} : WorkerJudges(w, e, outcome)
    BY <2>2, <1>3
  <2>3. CASE UNCHANGED results
    BY <2>1, <2>3 DEF plan, ResultsWithinPlan
  <2>4. QED
    BY <1>4, <2>2, <2>3 DEF WorkerStep, WorkerReceives, WorkerStartsMessage, WorkerEndsBatch,
       WorkerWritesScores, WorkerFailsToScore, WorkerDies, output
<1>5. ASSUME NEW m \in Messages, DeleteMessage(m) PROVE PlanShrinks
  <2>1. /\ scoped' = scoped \ {m}
        /\ UNCHANGED <<evaluator_ids, evaluators>>
        /\ results' = [p \in Pairs |-> IF p \in {m} \X Evaluators THEN "none" ELSE results[p]]
    BY <1>5 DEF DeleteMessage, CascadeResults
  <2>2. QED BY <2>1 DEF Pairs, ResultsWithinPlan
<1>6. ASSUME NEW e \in Evaluators, DeleteEvaluator(e) PROVE PlanShrinks
  <2>1. /\ evaluators' = evaluators \ {e}
        /\ UNCHANGED <<evaluator_ids, scoped>>
        /\ results' = [p \in Pairs |-> IF p \in Messages \X {e} THEN "none" ELSE results[p]]
    BY <1>6 DEF DeleteEvaluator, CascadeResults
  <2>2. QED BY <2>1 DEF Pairs, ResultsWithinPlan
<1>7. CASE DeleteRun
  <2>1. /\ scoped' = {}
        /\ UNCHANGED <<evaluator_ids, evaluators>>
        /\ results' = [p \in Pairs |-> IF p \in Pairs THEN "none" ELSE results[p]]
    BY <1>7 DEF DeleteRun, CascadeResults
  <2>2. QED BY <2>1
<1>8. ASSUME UNCHANGED <<plan, results>> PROVE PlanShrinks
  BY <1>8 DEF plan, ResultsWithinPlan
<1>9. QED
  <2>1. FinalizerStep => UNCHANGED <<plan, results>>
    BY FinalizerFrame
  <2>2. StallTimeoutPasses => UNCHANGED <<plan, results>>
    BY DEF StallTimeoutPasses, output
  <2>3. \A d \in Drivers : TickDies(d) => UNCHANGED <<plan, results>>
    BY DEF TickDies, output
  <2>4. FinalizerDies => UNCHANGED <<plan, results>>
    BY DEF FinalizerDies, output
  <2>5. UNCHANGED vars => UNCHANGED <<plan, results>>
    BY DEF vars, output
  <2>6. QED
    BY <1>1, <1>2, <1>4, <1>5, <1>6, <1>7, <1>8, <2>1, <2>2, <2>3, <2>4, <2>5
       DEF Next, Environment

\* The row changes its status only by creation, in a transaction, or by deletion.
LEMMA StatusStep ==
  ASSUME [Next]_vars
  PROVE  \/ UNCHANGED status
         \/ status = "none" /\ status' = "pending"
         \/ \E d \in Drivers : InTransaction(d) /\ status' \in {"processing"} \cup Terminal
         \/ ~RowLocked /\ status' = "deleted" /\ status # "none" /\ scoped' = {}
<1>1. ASSUME NEW d \in Drivers, TickStep(d)
      PROVE UNCHANGED status \/ (InTransaction(d) /\ status' \in {"processing"} \cup Terminal)
  BY <1>1 DEF TickStep, TickLocks, TickCompletesEmpty, TickFailsUnconfigured, TickCounts,
         TickCompletes, TickDispatches, TickFindsStall, TickFindsProgress,
         TickFailsStalled, TickRedispatches, TickCreatesTask, TickPublishesBatch,
         TickPublishesProgress, TickDispatchesFinalize, Commit, InTransaction, row
<1>2. \A w \in Workers : WorkerStep(w) => UNCHANGED status
  BY WorkerFrame DEF row
<1>3. FinalizerStep => UNCHANGED status
  BY FinalizerFrame
<1>4. StallTimeoutPasses => UNCHANGED status
  BY DEF StallTimeoutPasses, row
<1>5. \A d \in Drivers : TickDies(d) => UNCHANGED status
  BY DEF TickDies, row
<1>6. FinalizerDies => UNCHANGED status
  BY DEF FinalizerDies, row
<1>7. /\ \A m \in Messages : DeleteMessage(m) => UNCHANGED status
      /\ \A e \in Evaluators : DeleteEvaluator(e) => UNCHANGED status
  BY DEF DeleteMessage, DeleteEvaluator, row
<1>8. DeleteRun => ~RowLocked /\ status' = "deleted" /\ status # "none" /\ scoped' = {}
  BY DEF DeleteRun, Fault
<1>9. UNCHANGED vars => UNCHANGED status
  BY DEF vars, row
<1>10. \A messages \in SUBSET Messages, chosen, broken \in SUBSET Evaluators :
         CreateRun(messages, chosen, broken) => status = "none" /\ status' = "pending"
  BY DEF CreateRun
<1>11. QED
  BY <1>1, <1>2, <1>3, <1>4, <1>5, <1>6, <1>7, <1>8, <1>9, <1>10 DEF Next, Environment

-----------------------------------------------------------------------------
(* The steps of a tick, by what they do to the lock and to the row.        *)

Inside(d) == TickCounts(d) \/ TickFindsStall(d)
Commits(d) ==
  \/ TickCompletesEmpty(d)
  \/ TickFailsUnconfigured(d)
  \/ TickCompletes(d)
  \/ TickDispatches(d)
  \/ TickFindsProgress(d)
  \/ TickFailsStalled(d)
  \/ TickRedispatches(d)
Sends(d) ==
  \/ TickCreatesTask(d)
  \/ TickPublishesBatch(d)
  \/ TickPublishesProgress(d)
  \/ TickDispatchesFinalize(d)

LEMMA TickKinds ==
  ASSUME NEW d \in Drivers, TickStep(d)
  PROVE  TickLocks(d) \/ Inside(d) \/ Commits(d) \/ Sends(d)
  BY DEF TickStep, Inside, Commits, Sends

LEMMA LockEffect ==
  ASSUME TypeOK, NEW d \in Drivers, TickLocks(d)
  PROVE  /\ ~RowLocked
         /\ status \in NonTerminal
         /\ tick[d].pc = "idle"
         /\ UNCHANGED <<row, outside, finalizer, scoped>>
         /\ tick'[d].pc = "locked"
         /\ tick'[d].ids = scoped
         /\ tick'[d].terminal = tick[d].terminal
         /\ \A c \in Drivers \ {d} : tick'[c] = tick[c]
  BY DEF TickLocks, TypeOK, Tick, plan

LEMMA InsideEffect ==
  ASSUME TypeOK, NEW d \in Drivers, Inside(d)
  PROVE  /\ InTransaction(d)
         /\ UNCHANGED <<row, outside, finalizer>>
         /\ tick'[d].pc \in {"counted", "stalled"}
         /\ tick'[d].pc = "stalled" => status # "pending"
         /\ tick'[d].ids = tick[d].ids
         /\ tick'[d].terminal = tick[d].terminal
         /\ \A c \in Drivers \ {d} : tick'[c] = tick[c]
<1>1. CASE TickCounts(d)
  BY <1>1 DEF TickCounts, InTransaction, TypeOK, Tick
<1>2. CASE TickFindsStall(d)
  BY <1>2 DEF TickFindsStall, InTransaction, TypeOK, Tick
<1>3. QED BY <1>1, <1>2 DEF Inside

LEMMA CommitEffect ==
  ASSUME IInv, NEW d \in Drivers, Commits(d)
  PROVE  /\ InTransaction(d)
         /\ UNCHANGED <<outside, finalizer>>
         /\ tick'[d].pc = IF status = "pending" THEN "claiming" ELSE "sending"
         /\ \/ tick'[d].terminal = "none" /\ status' = "processing"
            \/ tick'[d].terminal \in {"empty", "success"} /\ status' = "completed"
            \/ tick'[d].terminal = "error" /\ status' = "failed"
         /\ \A c \in Drivers \ {d} : tick'[c] = tick[c]
<1>1. /\ InTransaction(d)
      /\ UNCHANGED <<outside, finalizer>>
      /\ \E batches, terminal : Commit(d, batches, terminal)
  BY DEF Commits, TickCompletesEmpty, TickFailsUnconfigured, TickCompletes, TickDispatches,
         TickFindsProgress, TickFailsStalled, TickRedispatches, Commit, InTransaction
<1>2. /\ tick'[d].pc = IF status = "pending" THEN "claiming" ELSE "sending"
      /\ \A c \in Drivers \ {d} : tick'[c] = tick[c]
  BY <1>1 DEF Commit, IInv, TypeOK, Tick
<1>3. \A batches, terminal : Commit(d, batches, terminal) => tick'[d].terminal = terminal
  BY DEF Commit, IInv, TypeOK, Tick
<1>4. \/ tick'[d].terminal = "none" /\ status' = "processing"
      \/ tick'[d].terminal \in {"empty", "success"} /\ status' = "completed"
      \/ tick'[d].terminal = "error" /\ status' = "failed"
  <2>1. status \in NonTerminal /\ (tick[d].pc = "stalled" => status = "processing")
    BY <1>1 DEF IInv, OneTransaction
  <2>2. QED
    BY <1>3, <2>1 DEF Commits, TickCompletesEmpty, TickFailsUnconfigured, TickCompletes,
       TickDispatches, TickFindsProgress, TickFailsStalled, TickRedispatches, row
<1>5. QED BY <1>1, <1>2, <1>4

LEMMA SendEffect ==
  ASSUME TypeOK, NEW d \in Drivers, Sends(d)
  PROVE  /\ tick[d].pc \in {"claiming", "sending", "finalizing"}
         /\ UNCHANGED row
         /\ tick'[d].pc \in {"idle", "sending", "finalizing"}
         /\ tick'[d].terminal \in {tick[d].terminal, "none"}
         /\ tick'[d].pc = "finalizing" => tick'[d].terminal = "success"
         /\ tick'[d].pc = "idle" => tick'[d].terminal = "none"
         /\ \A c \in Drivers \ {d} : tick'[c] = tick[c]
<1>1. CASE TickCreatesTask(d)
  BY <1>1 DEF TickCreatesTask, TypeOK, Tick, IdleTick
<1>2. CASE TickPublishesBatch(d)
  BY <1>2 DEF TickPublishesBatch, TypeOK, Tick
<1>3. CASE TickPublishesProgress(d)
  BY <1>3 DEF TickPublishesProgress, HasToFinalize, TypeOK, Tick, IdleTick
<1>4. CASE TickDispatchesFinalize(d)
  BY <1>4 DEF TickDispatchesFinalize, TypeOK, Tick, IdleTick
<1>5. QED BY <1>1, <1>2, <1>3, <1>4 DEF Sends

\* Everything else: either a tick dies, or no tick moves and the row is at most
\* created or deleted.
LEMMA OtherStep ==
  ASSUME TypeOK, [Next]_vars
  PROVE  \/ \E d \in Drivers : TickStep(d)
         \/ \E d \in Drivers : TickDies(d)
         \/ /\ UNCHANGED <<tick, outside>>
            /\ \/ UNCHANGED <<status, error_message, in_flight, stall_count, barren>>
               \/ status = "none" /\ status' = "pending" /\ UNCHANGED <<error_message, stall_count, barren, finalizer, finalized_at>>
               \/ /\ ~RowLocked /\ status' = "deleted" /\ status # "none"
                  /\ UNCHANGED <<error_message, stall_count, barren, finalizer>>
            /\ finalizer' # "none" => finalizer # "none"
<1>1. \A w \in Workers : WorkerStep(w) => UNCHANGED <<row, tick, outside, finalizer>>
  BY WorkerFrame
<1>2. FinalizerStep => /\ UNCHANGED <<status, error_message, in_flight, stall_count, barren, tick, outside>>
                       /\ finalizer # "none"
  BY FinalizerFrame DEF FinalizerStep, FinalizerStarts, FinalizerAggregates, FinalizerStamps
<1>3. StallTimeoutPasses => UNCHANGED <<row, tick, outside, finalizer>>
  BY DEF StallTimeoutPasses
<1>4. FinalizerDies => UNCHANGED <<row, tick, outside>> /\ finalizer' = "none"
  BY DEF FinalizerDies
<1>5. /\ \A m \in Messages : DeleteMessage(m) => UNCHANGED <<row, tick, outside, finalizer>>
      /\ \A e \in Evaluators : DeleteEvaluator(e) => UNCHANGED <<row, tick, outside, finalizer>>
  BY DEF DeleteMessage, DeleteEvaluator
<1>6. DeleteRun => /\ UNCHANGED <<tick, outside, finalizer, error_message, stall_count, barren>>
                   /\ ~RowLocked /\ status' = "deleted" /\ status # "none"
  BY DEF DeleteRun, Fault
<1>7. UNCHANGED vars => UNCHANGED <<row, tick, outside, finalizer>>
  BY DEF vars
<1>8. \A messages \in SUBSET Messages, chosen, broken \in SUBSET Evaluators :
         CreateRun(messages, chosen, broken) =>
           /\ UNCHANGED <<tick, outside, finalizer, error_message, stall_count, barren, finalized_at>>
           /\ status = "none" /\ status' = "pending"
  BY DEF CreateRun
<1>9. QED
  BY <1>1, <1>2, <1>3, <1>4, <1>5, <1>6, <1>7, <1>8 DEF Next, Environment, row

-----------------------------------------------------------------------------
(* One lemma per conjunct of the inductive invariant.                      *)

LEMMA PlanLifetimeStep == ASSUME IInv, [Next]_vars PROVE PlanLifetime'
  BY PlanStep, StatusStep DEF IInv, PlanLifetime, PlanShrinks

LEMMA ResultsWithinPlanStep == ASSUME IInv, [Next]_vars PROVE ResultsWithinPlan'
<1>1. CASE PlanShrinks
  BY <1>1 DEF PlanShrinks, ResultsWithinPlan
<1>2. CASE status = "none" /\ UNCHANGED results
  <2>1. scoped = {}
    BY <1>2 DEF IInv, PlanLifetime
  <2>2. QED BY <1>2, <2>1 DEF IInv, ResultsWithinPlan
<1>3. QED BY <1>1, <1>2, PlanStep DEF IInv

\* The pairs that are covered stay covered.
LEMMA CoverStep ==
  ASSUME IInv, PlanShrinks, NEW S \in SUBSET Messages,
         \A m \in scoped \ S, e \in evaluator_ids \cap evaluators : results[<<m, e>>] # "none"
  PROVE  \A m \in scoped' \ S, e \in evaluator_ids' \cap evaluators' : results'[<<m, e>>] # "none"
<1> SUFFICES ASSUME NEW m \in scoped' \ S, NEW e \in evaluator_ids' \cap evaluators'
             PROVE  results'[<<m, e>>] # "none"
  OBVIOUS
<1>1. m \in scoped \ S /\ e \in evaluator_ids \cap evaluators
  BY DEF PlanShrinks
<1>2. results[<<m, e>>] # "none"
  BY <1>1
<1>3. <<m, e>> \in Pairs
  BY <1>1 DEF Pairs, IInv, TypeOK
<1>4. QED BY <1>2, <1>3 DEF PlanShrinks

\* scoped only changes by shrinking, except at the creation of the run.
LEMMA ScopedStep ==
  ASSUME IInv, [Next]_vars
  PROVE  scoped' \subseteq scoped \/ (status = "none" /\ status' = "pending")
  BY PlanStep DEF IInv, PlanShrinks

LEMMA OneTransactionStep == ASSUME IInv, [Next]_vars PROVE OneTransaction'
<1> USE DEF InTransaction
<1>0. TypeOK /\ OneTransaction
  BY DEF IInv
<1>1. ASSUME NEW d \in Drivers, TickStep(d) PROVE OneTransaction'
  <2>0. UNCHANGED scoped
    BY <1>1, TickFrame DEF plan
  <2>1. CASE TickLocks(d)
    BY <1>0, <2>1, LockEffect DEF OneTransaction, RowLocked, row
  <2>2. CASE Inside(d)
    BY <1>0, <2>0, <2>2, InsideEffect DEF OneTransaction, row
  <2>3. CASE Commits(d)
    BY <1>0, <2>0, <2>3, CommitEffect DEF OneTransaction
  <2>4. CASE Sends(d)
    BY <1>0, <2>0, <2>4, SendEffect DEF OneTransaction, row
  <2>5. QED BY <1>1, <2>1, <2>2, <2>3, <2>4, TickKinds
<1>2. ASSUME NEW d \in Drivers, TickDies(d) PROVE OneTransaction'
  BY <1>0, <1>2 DEF TickDies, OneTransaction, TypeOK, IdleTick, row, plan
<1>3. CASE UNCHANGED tick /\ UNCHANGED status
  BY <1>0, <1>3, ScopedStep DEF OneTransaction
<1>4. CASE UNCHANGED tick /\ status = "none"
  BY <1>0, <1>4 DEF OneTransaction
<1>5. CASE UNCHANGED tick /\ ~RowLocked
  BY <1>0, <1>5 DEF OneTransaction, RowLocked
<1>6. QED BY <1>0, <1>1, <1>2, <1>3, <1>4, <1>5, OtherStep

LEMMA CountIsSafeStep == ASSUME IInv, [Next]_vars PROVE CountIsSafe'
<1>0. TypeOK /\ OneTransaction /\ CountIsSafe
  BY DEF IInv
<1> SUFFICES ASSUME NEW d \in Drivers, tick'[d].pc \in {"counted", "stalled"}
             PROVE  \A m \in scoped' \ tick'[d].remaining, e \in evaluator_ids' \cap evaluators' :
                      results'[<<m, e>>] # "none"
  BY DEF CountIsSafe
<1>1. ASSUME TickCounts(d)
      PROVE  \A m \in scoped' \ tick'[d].remaining, e \in evaluator_ids' \cap evaluators' :
               results'[<<m, e>>] # "none"
  <2>1. UNCHANGED <<plan, output>>
    BY <1>1 DEF TickCounts
  <2>2. tick'[d].remaining = tick[d].ids \ Done(tick[d].ids)
    BY <1>0, <1>1 DEF TickCounts, TypeOK, Tick
  <2>3. scoped \subseteq tick[d].ids
    BY <1>0, <1>1 DEF TickCounts, OneTransaction, InTransaction
  <2>4. QED BY <2>1, <2>2, <2>3 DEF plan, output, Done
<1>2. ASSUME tick[d].pc \in {"counted", "stalled"}, tick'[d].remaining = tick[d].remaining
      PROVE  \A m \in scoped' \ tick'[d].remaining, e \in evaluator_ids' \cap evaluators' :
               results'[<<m, e>>] # "none"
  <2>1. status \in NonTerminal
    BY <1>0, <1>2 DEF OneTransaction, InTransaction
  <2>2. PlanShrinks
    BY <1>0, <2>1, PlanStep DEF IInv
  <2>3. tick[d].remaining \in SUBSET Messages
    BY <1>0 DEF TypeOK, Tick
  <2>4. \A m \in scoped \ tick[d].remaining, e \in evaluator_ids \cap evaluators :
          results[<<m, e>>] # "none"
    BY <1>0, <1>2 DEF CountIsSafe
  <2>5. QED BY <1>2, <2>2, <2>3, <2>4, CoverStep
<1>3. CASE \E c \in Drivers : TickStep(c)
  <2>1. PICK c \in Drivers : TickStep(c)
    BY <1>3
  <2>2. CASE c # d
    <3>1. tick'[d] = tick[d]
      BY <1>0, <2>1, <2>2, TickKinds, LockEffect, InsideEffect, CommitEffect, SendEffect
    <3>2. QED BY <3>1, <1>2
  <2>3. CASE c = d
    <3>1. TickFindsStall(d) =>
            tick[d].pc \in {"counted", "stalled"} /\ tick'[d].remaining = tick[d].remaining
      BY <1>0 DEF TickFindsStall, TypeOK, Tick
    <3>2. TickLocks(d) \/ Commits(d) \/ Sends(d) => tick'[d].pc \notin {"counted", "stalled"}
      BY <1>0, LockEffect, CommitEffect, SendEffect
    <3>3. QED BY <1>1, <1>2, <2>1, <2>3, <3>1, <3>2, TickKinds DEF Inside
  <2>4. QED BY <2>2, <2>3
<1>4. CASE \E c \in Drivers : TickDies(c)
  <2>1. tick'[d] = tick[d] \/ tick'[d] = IdleTick
    BY <1>0, <1>4 DEF TickDies, TypeOK
  <2>2. tick'[d] = tick[d]
    BY <2>1 DEF IdleTick
  <2>3. QED BY <2>2, <1>2
<1>5. CASE UNCHANGED tick
  BY <1>5, <1>2
<1>6. QED BY <1>0, <1>3, <1>4, <1>5, OtherStep

LEMMA CompletedCoversStep == ASSUME IInv, [Next]_vars PROVE CompletedCoversPlan'
<1>0. TypeOK /\ OneTransaction /\ CountIsSafe /\ CompletedCoversPlan
  BY DEF IInv
<1> SUFFICES ASSUME status' = "completed"
             PROVE  \A m \in scoped', e \in evaluator_ids' \cap evaluators' :
                      results'[<<m, e>>] # "none"
  BY DEF CompletedCoversPlan
<1>1. CASE status = "completed"
  <2>1. PlanShrinks
    BY <1>0, <1>1, PlanStep DEF IInv
  <2>2. \A m \in scoped \ {}, e \in evaluator_ids \cap evaluators : results[<<m, e>>] # "none"
    BY <1>0, <1>1 DEF CompletedCoversPlan
  <2>3. \A m \in scoped' \ {}, e \in evaluator_ids' \cap evaluators' : results'[<<m, e>>] # "none"
    BY <2>1, <2>2, CoverStep
  <2>4. QED BY <2>3
<1>2. CASE status # "completed"
  <2>1. \E d \in Drivers : InTransaction(d) /\ TickStep(d)
    BY <1>0, <1>2, OtherStep, TickKinds, LockEffect, InsideEffect, CommitEffect, SendEffect
       DEF TickDies, row
  <2>2. PICK d \in Drivers : InTransaction(d) /\ TickStep(d)
    BY <2>1
  <2>3. TickCompletesEmpty(d) \/ TickCompletes(d)
    BY <1>0, <1>2, <2>2 DEF TickStep, TickLocks, TickFailsUnconfigured, TickCounts,
         TickDispatches, TickFindsStall, TickFindsProgress,
         TickFailsStalled, TickRedispatches, TickCreatesTask, TickPublishesBatch,
         TickPublishesProgress, TickDispatchesFinalize, Commit, row
  <2>4. UNCHANGED <<plan, output>>
    BY <2>2, TickFrame
  <2>5. CASE TickCompletes(d)
    <3>1. tick[d].pc = "counted" /\ tick[d].remaining = {}
      BY <2>5 DEF TickCompletes
    <3>2. QED BY <1>0, <2>4, <3>1 DEF CountIsSafe, plan, output
  <2>6. CASE TickCompletesEmpty(d)
    <3>1. tick[d].ids = {} \/ evaluator_ids = {}
      BY <2>6 DEF TickCompletesEmpty, NothingToDo
    <3>2. scoped \subseteq tick[d].ids
      BY <1>0, <2>2 DEF OneTransaction
    <3>3. QED BY <2>4, <3>1, <3>2 DEF plan, output
  <2>7. QED BY <2>3, <2>5, <2>6
<1>3. QED BY <1>1, <1>2

\* Once terminal, a run stays what it is or is deleted; a deleted run stays so.
LEMMA TerminalStep ==
  ASSUME IInv, [Next]_vars
  PROVE  /\ status \in Terminal => status' \in {status, "deleted"}
         /\ status = "deleted" => status' = "deleted"
<1>1. \A d \in Drivers : InTransaction(d) => status \in NonTerminal
  BY DEF IInv, OneTransaction
<1>2. QED BY <1>1, StatusStep

LEMMA AnnouncesTruthStep == ASSUME IInv, [Next]_vars PROVE AnnouncesTruth'
<1>0. TypeOK /\ OneTransaction /\ AnnouncesTruth
  BY DEF IInv
<1>1. ASSUME NEW d \in Drivers, TickStep(d) PROVE AnnouncesTruth'
  <2>1. CASE TickLocks(d)
    BY <1>0, <2>1, LockEffect DEF AnnouncesTruth, row
  <2>2. CASE Inside(d)
    BY <1>0, <2>2, InsideEffect DEF AnnouncesTruth, InTransaction, row
  <2>3. CASE Commits(d)
    <3>1. InTransaction(d) /\ status \in NonTerminal
      BY <1>0, <2>3, CommitEffect DEF OneTransaction
    <3>2. finalizer' = "none"
      BY <1>0, <2>3, <3>1, CommitEffect DEF AnnouncesTruth
    <3>3. \A c \in Drivers \ {d} : tick'[c].terminal = "none" /\ tick'[c].pc # "finalizing"
      BY <1>0, <2>3, <3>1, CommitEffect DEF AnnouncesTruth
    <3>4. QED BY <2>3, <3>2, <3>3, CommitEffect DEF AnnouncesTruth
  <2>4. CASE Sends(d)
    <3>1. finalizer' # "none" => status \in {"completed", "deleted"}
      BY <1>0, <2>4 DEF Sends, TickCreatesTask, TickPublishesBatch, TickPublishesProgress,
         TickDispatchesFinalize, AnnouncesTruth
    <3>2. QED BY <1>0, <2>4, <3>1, SendEffect DEF AnnouncesTruth, row
  <2>5. QED BY <1>1, <2>1, <2>2, <2>3, <2>4, TickKinds
<1>2. ASSUME NEW d \in Drivers, TickDies(d) PROVE AnnouncesTruth'
  <2>1. UNCHANGED <<status, finalizer>>
    BY <1>2 DEF TickDies, row
  <2>2. \A c \in Drivers : tick'[c] = tick[c] \/ tick'[c] = IdleTick
    BY <1>0, <1>2 DEF TickDies, TypeOK
  <2>3. IdleTick.pc = "idle" /\ IdleTick.terminal = "none"
    BY DEF IdleTick
  <2>4. QED BY <1>0, <2>1, <2>2, <2>3 DEF AnnouncesTruth
<1>3. CASE /\ UNCHANGED tick
           /\ finalizer' # "none" => finalizer # "none"
           /\ status' = status \/ status' = "deleted"
  BY <1>0, <1>3 DEF AnnouncesTruth
<1>4. CASE UNCHANGED <<tick, finalizer>> /\ status = "none"
  BY <1>0, <1>4 DEF AnnouncesTruth
<1>5. QED BY <1>0, <1>1, <1>2, <1>3, <1>4, OtherStep

LEMMA StopsOnlyWhenTerminalStep == ASSUME IInv, [Next]_vars PROVE StopsOnlyWhenTerminal'
<1>0. TypeOK /\ OneTransaction /\ AnnouncesTruth /\ StopsOnlyWhenTerminal
  BY DEF IInv
<1>1. CASE progress' = "stopped" /\ progress # "stopped"
  <2>1. \E d \in Drivers : TickPublishesProgress(d)
    <3>1. \E d \in Drivers : TickStep(d)
      BY <1>0, <1>1, OtherStep DEF TickDies, outside
    <3>2. PICK d \in Drivers : TickStep(d)
      BY <3>1
    <3>3. QED BY <1>1, <3>2 DEF TickStep, TickLocks, TickCompletesEmpty, TickFailsUnconfigured,
         TickCounts, TickCompletes, TickDispatches, TickFindsStall, TickFindsProgress,
         TickFailsStalled, TickRedispatches, TickCreatesTask, TickPublishesBatch,
         TickDispatchesFinalize, Commit, outside
  <2>2. PICK d \in Drivers : TickPublishesProgress(d)
    BY <2>1
  <2>3. tick[d].terminal # "none" /\ UNCHANGED status
    BY <1>1, <2>2 DEF TickPublishesProgress, StoreResult, Announcement, row
  <2>4. QED BY <1>0, <2>3 DEF AnnouncesTruth, StopsOnlyWhenTerminal
<1>2. CASE progress = "stopped"
  BY <1>0, <1>2, TerminalStep DEF StopsOnlyWhenTerminal
<1>3. CASE progress' # "stopped"
  BY <1>3 DEF StopsOnlyWhenTerminal
<1>4. QED BY <1>1, <1>2, <1>3

LEMMA RootTaskClaimStep == ASSUME IInv, [Next]_vars PROVE RootTaskClaim'
<1> USE DEF Claims
<1>0. TypeOK /\ OneTransaction /\ RootTaskClaim
  BY DEF IInv
<1>1. ASSUME NEW d \in Drivers, TickStep(d) PROVE RootTaskClaim'
  <2>1. CASE TickLocks(d)
    BY <1>0, <2>1, LockEffect DEF RootTaskClaim, row, outside
  <2>2. CASE Inside(d)
    BY <1>0, <2>2, InsideEffect DEF RootTaskClaim, row, outside
  <2>3. CASE Commits(d)
    <3>1. status \in NonTerminal
      BY <1>0, <2>3, CommitEffect DEF OneTransaction
    <3>2. CASE status = "pending"
      BY <1>0, <2>3, <3>2, CommitEffect DEF RootTaskClaim, outside
    <3>3. CASE status = "processing"
      BY <1>0, <2>3, <3>3, CommitEffect DEF RootTaskClaim, outside
    <3>4. QED BY <3>1, <3>2, <3>3
  <2>4. CASE Sends(d)
    <3>1. CASE tick[d].pc = "claiming"
      <4>1. tb_roots = 0 /\ status \notin {"none", "pending"}
        BY <1>0, <3>1 DEF RootTaskClaim
      <4>2. tb_roots' \in {0, 1}
        BY <2>4, <3>1, <4>1 DEF Sends, TickCreatesTask, TickPublishesBatch,
           TickPublishesProgress, TickDispatchesFinalize
      <4>3. \A c \in Drivers : tick'[c].pc # "claiming"
        BY <1>0, <2>4, <3>1, SendEffect DEF RootTaskClaim
      <4>4. UNCHANGED status
        BY <1>0, <2>4, SendEffect DEF row
      <4>5. QED BY <4>1, <4>2, <4>3, <4>4 DEF RootTaskClaim
    <3>2. CASE tick[d].pc # "claiming"
      <4>1. UNCHANGED tb_roots
        BY <2>4, <3>2 DEF Sends, TickCreatesTask, TickPublishesBatch,
           TickPublishesProgress, TickDispatchesFinalize, outside
      <4>2. QED BY <1>0, <2>4, <4>1, SendEffect DEF RootTaskClaim, row
    <3>3. QED BY <3>1, <3>2
  <2>5. QED BY <1>1, <2>1, <2>2, <2>3, <2>4, TickKinds
<1>2. ASSUME NEW d \in Drivers, TickDies(d) PROVE RootTaskClaim'
  <2>1. UNCHANGED <<status, tb_roots>>
    BY <1>2 DEF TickDies, row, outside
  <2>2. \A c \in Drivers : tick'[c] = tick[c] \/ tick'[c] = IdleTick
    BY <1>0, <1>2 DEF TickDies, TypeOK
  <2>3. IdleTick.pc # "claiming"
    BY DEF IdleTick
  <2>4. QED BY <1>0, <2>1, <2>2, <2>3 DEF RootTaskClaim
<1>3. CASE /\ UNCHANGED <<tick, outside>>
           /\ status' = status \/ status' = "deleted" \/ status = "none"
  BY <1>0, <1>3 DEF RootTaskClaim, outside
<1>4. QED BY <1>0, <1>1, <1>2, <1>3, OtherStep

LEMMA StallCountingStep == ASSUME IInv, [Next]_vars PROVE StallCounting'
<1>0. TypeOK /\ OneTransaction /\ StallCounting /\ MAX_STALLS \in Nat /\ MAX_STALLS >= 2
  BY StallsAssumption DEF IInv
<1> USE DEF StallCounting, FailsOnlyAfterBarrenStalls
<1>1. ASSUME NEW d \in Drivers, TickStep(d) PROVE StallCounting'
  <2>1. CASE TickLocks(d)
    BY <1>0, <2>1, LockEffect DEF row
  <2>2. CASE Inside(d)
    BY <1>0, <2>2, InsideEffect DEF row
  <2>3. CASE Commits(d)
    <3>1. status \in NonTerminal
      BY <1>0, <2>3, CommitEffect DEF OneTransaction
    <3>2. CASE TickFailsStalled(d)
      BY <1>0, <3>1, <3>2 DEF TickFailsStalled, GivesUp, NextStallCount, NextBarren, TypeOK
    <3>3. CASE TickRedispatches(d)
      BY <1>0, <3>1, <3>3 DEF TickRedispatches, GivesUp, NextStallCount, NextBarren, TypeOK
    <3>4. CASE TickCompletesEmpty(d) \/ TickFailsUnconfigured(d) \/ TickCompletes(d)
      BY <1>0, <3>1, <3>4 DEF TickCompletesEmpty, TickFailsUnconfigured, TickCompletes
    <3>5. CASE TickDispatches(d) \/ TickFindsProgress(d)
      BY <1>0, <3>1, <3>5 DEF TickDispatches, TickFindsProgress, row
    <3>6. QED BY <2>3, <3>2, <3>3, <3>4, <3>5 DEF Commits
  <2>4. CASE Sends(d)
    BY <1>0, <2>4, SendEffect DEF row
  <2>5. QED BY <1>1, <2>1, <2>2, <2>3, <2>4, TickKinds
<1>2. ASSUME NEW d \in Drivers, TickDies(d) PROVE StallCounting'
  BY <1>0, <1>2 DEF TickDies, row
<1>3. CASE UNCHANGED <<status, error_message, stall_count, barren>>
  BY <1>0, <1>3
<1>4. CASE status = "none" /\ UNCHANGED <<error_message, stall_count, barren>>
  BY <1>0, <1>4
<1>5. CASE status' = "deleted" /\ UNCHANGED <<error_message, stall_count, barren>>
  BY <1>0, <1>5
<1>6. QED BY <1>0, <1>1, <1>2, <1>3, <1>4, <1>5, OtherStep

LEMMA WorkersInPlanStep == ASSUME IInv, [Next]_vars PROVE WorkersInPlan'
<1>0. TypeOK /\ WorkersInPlan /\ PlanLifetime
  BY DEF IInv
<1>1. evaluator_ids \subseteq evaluator_ids'
  <2>1. PlanShrinks => evaluator_ids' = evaluator_ids
    BY DEF PlanShrinks
  <2>2. status = "none" => evaluator_ids = {}
    BY <1>0 DEF PlanLifetime
  <2>3. QED BY <2>1, <2>2, PlanStep DEF IInv
<1>2. ASSUME NEW w \in Workers, WorkerStep(w) PROVE WorkersInPlan'
  <2> DEFINE Fits(b) == /\ b.pending \subseteq evaluator_ids
                        /\ b.pending # {} => b.message # {}
                        /\ b.pc = "scoring" <=> b.scoring # {}
  <2>1. UNCHANGED evaluator_ids
    BY <1>2, WorkerFrame DEF plan
  <2>2. Fits(worker[w])
    BY <1>0 DEF WorkersInPlan
  <2>3. worker[w] \in Batch
    BY <1>0 DEF TypeOK
  <2>4. Fits(IdleWorker)
    BY DEF IdleWorker
  <2>5. Fits(worker'[w]) /\ \A v \in Workers \ {w} : worker'[v] = worker[v]
    <3> USE <1>0 DEF TypeOK
    <3>1. ASSUME NEW batch \in broker, WorkerReceives(w, batch) 
          PROVE  Fits(worker'[w]) /\ \A v \in Workers \ {w} : worker'[v] = worker[v]
      <4>1. worker' = [worker EXCEPT ![w] = [worker[w] EXCEPT !.pc = "judging", !.left = batch]]
            /\ worker[w].pc = "idle"
        BY <3>1 DEF WorkerReceives
      <4>2. QED BY <2>2, <2>3, <4>1 DEF Batch
    <3>2. CASE WorkerStartsMessage(w)
      <4> DEFINE m == Least(worker[w].left)
                 left == worker[w].left \ {m}
                 pending == IF m \in scoped THEN PendingEvaluators(m) ELSE {}
                 message == IF pending = {} THEN {} ELSE {m}
      <4>1. worker' = [worker EXCEPT ![w] =
                 [worker[w] EXCEPT !.left = left, !.message = message, !.pending = pending]]
        BY <3>2 DEF WorkerStartsMessage
      <4>2. pending \subseteq evaluator_ids /\ (pending # {} => message # {})
        BY DEF PendingEvaluators
      <4> HIDE DEF m, left, pending, message
      <4>3. QED BY <2>2, <2>3, <4>1, <4>2 DEF Batch
    <3>3. CASE WorkerEndsBatch(w) \/ WorkerDies(w)
      BY <2>4, <3>3 DEF WorkerEndsBatch, WorkerDies
    <3>4. ASSUME NEW e \in Evaluators, NEW outcome \in {"ok", "error"},
                 WorkerJudges(w, e, outcome)
          PROVE  Fits(worker'[w]) /\ \A v \in Workers \ {w} : worker'[v] = worker[v]
      <4> DEFINE m == CHOOSE n \in worker[w].message : TRUE
                 inserted == Insertable(m, e)
                 due == IF inserted /\ outcome = "ok" THEN {<<m, e>>} ELSE {}
                 rest == worker[w].pending \ {e}
                 pc == IF due = {} THEN "judging" ELSE "scoring"
                 message == IF rest = {} THEN {} ELSE worker[w].message
      <4>1. worker' = [worker EXCEPT ![w] =
                 [worker[w] EXCEPT !.pc = pc, !.message = message, !.pending = rest, !.scoring = due]]
        BY <3>4 DEF WorkerJudges
      <4>2. /\ rest \subseteq evaluator_ids
            /\ rest # {} => message # {}
            /\ pc = "scoring" <=> due # {}
        BY <2>2
      <4> HIDE DEF m, inserted, due, rest, pc, message
      <4>3. QED BY <2>3, <4>1, <4>2 DEF Batch
    <3>5. CASE WorkerWritesScores(w) \/ WorkerFailsToScore(w)
      <4>1. worker' = [worker EXCEPT ![w] = [worker[w] EXCEPT !.pc = "judging", !.scoring = {}]]
        BY <3>5 DEF WorkerWritesScores, WorkerFailsToScore
      <4>2. QED BY <2>2, <2>3, <4>1 DEF Batch
    <3>6. QED BY <1>2, <3>1, <3>2, <3>3, <3>4, <3>5 DEF WorkerStep
  <2>6. QED BY <1>0, <2>1, <2>5 DEF WorkersInPlan
<1>3. CASE UNCHANGED worker
  BY <1>0, <1>1, <1>3 DEF WorkersInPlan
<1>4. CASE FinalizerStep
  BY <1>3, <1>4, FinalizerFrame
<1>5. CASE \E d \in Drivers : TickStep(d)
  BY <1>3, <1>5, TickFrame
<1>6. CASE StallTimeoutPasses
  BY <1>3, <1>6 DEF StallTimeoutPasses
<1>7. CASE Environment
  BY <1>3, <1>7 DEF Environment, CreateRun, TickDies, FinalizerDies, DeleteMessage,
     DeleteEvaluator, DeleteRun
<1>8. CASE UNCHANGED vars
  BY <1>3, <1>8 DEF vars
<1>9. QED BY <1>2, <1>4, <1>5, <1>6, <1>7, <1>8 DEF Next

\* Nothing is added to the successful results of a completed or deleted run.
LEMMA CompletedKeepsResults ==
  ASSUME IInv, [Next]_vars, status \in {"completed", "deleted"}
  PROVE  OkPairs' \subseteq OkPairs
<1>1. PlanShrinks
  BY PlanStep DEF IInv
<1>2. \A m \in scoped, e \in evaluator_ids \cap evaluators : results[<<m, e>>] # "none"
  BY DEF IInv, CompletedCoversPlan, PlanLifetime
<1>3. ASSUME NEW p \in Pairs, results'[p] = "ok" PROVE results[p] = "ok"
  <2>1. p \in scoped' \X (evaluator_ids' \cap evaluators')
    BY <1>1, <1>3 DEF PlanShrinks
  <2>2. results[p] # "none"
    BY <1>1, <1>2, <2>1 DEF PlanShrinks
  <2>3. QED BY <1>1, <1>3, <2>2 DEF PlanShrinks
<1>4. QED BY <1>3 DEF OkPairs

\* An aggregated result that is still there stays aggregated.
LEMMA AggregatedKept ==
  ASSUME IInv, [Next]_vars
  PROVE  OkPairs' \cap aggregated \subseteq aggregated'
<1>1. CASE UNCHANGED aggregated
  BY <1>1
<1>2. CASE FinalizerStep
  <2>1. OkPairs' = OkPairs
    BY <1>2, FinalizerFrame DEF OkPairs
  <2>2. aggregated' = aggregated \/ aggregated' = OkPairs
    BY <1>2 DEF FinalizerStep, FinalizerStarts, FinalizerAggregates, FinalizerStamps, output
  <2>3. QED BY <2>1, <2>2
<1>3. ASSUME NEW e \in Evaluators, DeleteEvaluator(e)
      PROVE  OkPairs' \cap aggregated \subseteq aggregated'
  <2>1. /\ results' = [p \in Pairs |-> IF p \in Messages \X {e} THEN "none" ELSE results[p]]
        /\ aggregated' = aggregated \ (Messages \X {e})
    BY <1>3 DEF DeleteEvaluator, CascadeResults
  <2>2. QED BY <2>1 DEF OkPairs
<1>4. CASE DeleteRun
  <2>1. results' = [p \in Pairs |-> IF p \in Pairs THEN "none" ELSE results[p]]
    BY <1>4 DEF DeleteRun, CascadeResults
  <2>2. QED BY <2>1 DEF OkPairs
<1>5. CASE \E d \in Drivers : TickStep(d)
  BY <1>1, <1>5, TickFrame DEF output
<1>6. CASE \E w \in Workers : WorkerStep(w)
  BY <1>1, <1>6, WorkerFrame
<1>7. CASE StallTimeoutPasses
  BY <1>1, <1>7 DEF StallTimeoutPasses, output
<1>8. CASE Environment
  <2>1. CASE \E messages \in SUBSET Messages, chosen, broken \in SUBSET Evaluators :
               CreateRun(messages, chosen, broken)
    BY <1>1, <2>1 DEF CreateRun, output
  <2>2. CASE (\E d \in Drivers : TickDies(d)) \/ FinalizerDies
    BY <1>1, <2>2 DEF TickDies, FinalizerDies, output
  <2>3. CASE \E m \in Messages : DeleteMessage(m)
    BY <1>1, <2>3 DEF DeleteMessage
  <2>4. QED BY <1>3, <1>4, <1>8, <2>1, <2>2, <2>3 DEF Environment
<1>9. CASE UNCHANGED vars
  BY <1>1, <1>9 DEF vars, output
<1>10. QED BY <1>2, <1>5, <1>6, <1>7, <1>8, <1>9 DEF Next

\* How the finalizer and its stamp move.
LEMMA StampStep ==
  ASSUME IInv, [Next]_vars
  PROVE  /\ finalizer' = "stamping" =>
              finalizer = "stamping" \/ (aggregated' = OkPairs /\ UNCHANGED results)
         /\ finalized_at' =>
              \/ finalized_at /\ UNCHANGED status
              \/ /\ status' = "completed"
                 /\ status = "completed" /\ finalizer = "stamping"
              \/ /\ status' = "completed"
                 /\ \E d \in Drivers : TickCompletesEmpty(d)
<1>0. TypeOK /\ OneTransaction /\ AggregatesComplete
  BY DEF IInv
<1>1. ASSUME NEW d \in Drivers, TickStep(d)
      PROVE  /\ finalizer' = "stamping" => finalizer = "stamping"
             /\ finalized_at' => \/ finalized_at /\ UNCHANGED status
                                 \/ status' = "completed" /\ TickCompletesEmpty(d)
  <2>1. finalizer' \in {finalizer, "queued"}
    BY <1>1 DEF TickStep, TickLocks, TickCompletesEmpty, TickFailsUnconfigured, TickCounts,
         TickCompletes, TickDispatches, TickFindsStall, TickFindsProgress,
         TickFailsStalled, TickRedispatches, TickCreatesTask, TickPublishesBatch,
         TickPublishesProgress, TickDispatchesFinalize, Commit
  <2>2. CASE TickLocks(d)
    BY <2>1, <2>2, <1>0, LockEffect DEF row
  <2>3. CASE Inside(d)
    BY <2>1, <2>3, <1>0, InsideEffect DEF row
  <2>4. CASE Commits(d)
    <3>1. ~finalized_at
      BY <1>0, <2>4, CommitEffect DEF OneTransaction, AggregatesComplete
    <3>2. finalized_at' => TickCompletesEmpty(d)
      BY <2>4, <3>1 DEF Commits, TickFailsUnconfigured, TickCompletes, TickDispatches,
         TickFindsProgress, TickFailsStalled, TickRedispatches, row
    <3>3. QED BY <2>1, <3>2 DEF TickCompletesEmpty
  <2>5. CASE Sends(d)
    BY <2>1, <2>5, <1>0, SendEffect DEF row
  <2>6. QED BY <1>1, <2>2, <2>3, <2>4, <2>5, TickKinds
<1>2. CASE \E w \in Workers : WorkerStep(w)
  BY <1>2, WorkerFrame DEF row
<1>3. CASE FinalizerStep
  BY <1>3 DEF FinalizerStep, FinalizerStarts, FinalizerAggregates, FinalizerStamps, row
<1>4. CASE StallTimeoutPasses
  BY <1>4 DEF StallTimeoutPasses, row
<1>5. CASE Environment
  <2>1. CASE \E messages \in SUBSET Messages, chosen, broken \in SUBSET Evaluators :
               CreateRun(messages, chosen, broken)
    BY <1>0, <2>1 DEF CreateRun, AggregatesComplete
  <2>2. CASE (\E d \in Drivers : TickDies(d)) \/ FinalizerDies
    BY <2>2 DEF TickDies, FinalizerDies, row
  <2>3. CASE (\E m \in Messages : DeleteMessage(m)) \/ (\E e \in Evaluators : DeleteEvaluator(e))
    <3>1. UNCHANGED <<row, finalizer>>
      BY <2>3 DEF DeleteMessage, DeleteEvaluator
    <3>2. QED BY <3>1 DEF row
  <2>4. CASE DeleteRun
    BY <2>4 DEF DeleteRun
  <2>5. QED BY <1>5, <2>1, <2>2, <2>3, <2>4 DEF Environment
<1>6. CASE UNCHANGED vars
  BY <1>6 DEF vars, row
<1>7. QED BY <1>1, <1>2, <1>3, <1>4, <1>5, <1>6 DEF Next

LEMMA AggregatesCompleteStep == ASSUME IInv, [Next]_vars PROVE AggregatesComplete'
<1>0. TypeOK /\ OneTransaction /\ AnnouncesTruth /\ AggregatesComplete
  BY DEF IInv
<1> USE DEF FinalizedAggregatesAll
<1>1. (status \in {"completed", "deleted"} /\ OkPairs \subseteq aggregated)
        => OkPairs' \subseteq aggregated'
  BY CompletedKeepsResults, AggregatedKept
<1>2. ASSUME finalizer' = "stamping" PROVE OkPairs' \subseteq aggregated'
  <2>1. CASE finalizer = "stamping"
    BY <1>0, <1>1, <2>1 DEF AnnouncesTruth, AggregatesComplete
  <2>2. CASE aggregated' = OkPairs /\ UNCHANGED results
    BY <2>2 DEF OkPairs
  <2>3. QED BY <1>2, <2>1, <2>2, StampStep
<1>3. ASSUME finalized_at' PROVE status' = "completed" /\ OkPairs' \subseteq aggregated'
  <2>1. CASE finalized_at /\ UNCHANGED status
    BY <1>0, <1>1, <2>1 DEF AggregatesComplete
  <2>2. CASE status' = "completed" /\ status = "completed" /\ finalizer = "stamping"
    BY <1>0, <1>1, <2>2 DEF AggregatesComplete
  <2>3. ASSUME NEW d \in Drivers, TickCompletesEmpty(d), status' = "completed"
        PROVE  OkPairs' = {}
    <3>1. scoped \subseteq tick[d].ids
      BY <1>0, <2>3 DEF TickCompletesEmpty, OneTransaction, InTransaction
    <3>2. scoped = {} \/ evaluator_ids = {}
      BY <2>3, <3>1 DEF TickCompletesEmpty, NothingToDo
    <3>3. \A p \in Pairs : results[p] = "none"
      BY <3>2 DEF IInv, ResultsWithinPlan
    <3>4. UNCHANGED results
      BY <2>3 DEF TickCompletesEmpty, Commit, output
    <3>5. QED BY <3>3, <3>4 DEF OkPairs
  <2>4. QED BY <1>3, <2>1, <2>2, <2>3, StampStep
<1>4. QED BY <1>2, <1>3 DEF AggregatesComplete

LEMMA ScoredUnlessFaultStep == ASSUME IInv, [Next]_vars PROVE ScoredUnlessFault'
<1>0. TypeOK /\ WorkersInPlan /\ ScoredUnlessFault
  BY DEF IInv
<1> DEFINE Safe(p) == p \in scores \/ \E w \in Workers : p \in worker[w].scoring
           Kept == \A p \in Pairs : results'[p] = "ok" =>
                      p \in scores' \/ \E w \in Workers : p \in worker'[w].scoring
<1> SUFFICES ASSUME faults' = 0 PROVE Kept
  BY DEF ScoredUnlessFault, OkPairs
<1>1. ASSUME faults = 0, NEW p \in Pairs, results[p] = "ok" PROVE Safe(p)
  BY <1>0, <1>1 DEF ScoredUnlessFault, OkPairs
<1>2. ASSUME UNCHANGED <<results, scores, worker, faults>> PROVE Kept
  BY <1>1, <1>2
<1>3. faults \in Nat /\ faults + 1 # 0
  BY <1>0, FaultsAssumption DEF TypeOK
<1>4. ASSUME NEW w \in Workers, WorkerStep(w) PROVE Kept
  <2> USE <1>0 DEF TypeOK
  <2>0. worker[w] \in Batch /\ (worker[w].pc = "scoring" <=> worker[w].scoring # {})
    BY DEF WorkersInPlan
  <2>1. ASSUME UNCHANGED <<results, scores, faults>>,
               worker'[w].scoring = worker[w].scoring,
               \A v \in Workers \ {w} : worker'[v] = worker[v]
        PROVE  Kept
    BY <1>1, <2>1
  <2>2. ASSUME NEW batch \in broker, WorkerReceives(w, batch) PROVE Kept
    <3>1. worker'[w].scoring = worker[w].scoring
      BY <2>0, <2>2 DEF WorkerReceives, Batch
    <3>2. QED BY <2>1, <2>2, <3>1 DEF WorkerReceives, output
  <2>3. CASE WorkerStartsMessage(w)
    <3>1. worker'[w].scoring = worker[w].scoring
      BY <2>0, <2>3 DEF WorkerStartsMessage, Batch
    <3>2. QED BY <2>1, <2>3, <3>1 DEF WorkerStartsMessage, output
  <2>4. CASE WorkerEndsBatch(w) \/ WorkerDies(w)
    <3>1. worker'[w].scoring = {} /\ \A v \in Workers \ {w} : worker'[v] = worker[v]
      BY <2>4 DEF WorkerEndsBatch, WorkerDies, IdleWorker
    <3>2. worker[w].pc # "scoring" /\ UNCHANGED <<results, scores, faults>>
      BY <1>3, <2>4 DEF WorkerEndsBatch, WorkerDies, BetweenMessages, output
    <3>3. QED BY <2>0, <2>1, <3>1, <3>2
  <2>5. ASSUME NEW e \in Evaluators, NEW outcome \in {"ok", "error"},
               WorkerJudges(w, e, outcome)
        PROVE  Kept
    <3> DEFINE m == CHOOSE n \in worker[w].message : TRUE
               inserted == Insertable(m, e)
               due == IF inserted /\ outcome = "ok" THEN {<<m, e>>} ELSE {}
               rest == worker[w].pending \ {e}
    <3>1. /\ worker'[w].scoring = due
          /\ \A v \in Workers \ {w} : worker'[v] = worker[v]
      BY <2>0, <2>5 DEF WorkerJudges, Batch
    <3>2. /\ worker[w].scoring = {}
          /\ UNCHANGED <<scores, faults>>
          /\ results' = IF inserted THEN [results EXCEPT ![<<m, e>>] = outcome] ELSE results
      BY <2>0, <2>5 DEF WorkerJudges, Judging
    <3>3. \A p \in Pairs : results'[p] = "ok" => results[p] = "ok" \/ p \in due
      BY <3>2
    <3> HIDE DEF m, inserted, due
    <3>4. QED BY <1>1, <3>1, <3>2, <3>3
  <2>6. CASE WorkerWritesScores(w)
    <3>1. /\ scores' = scores \cup (worker[w].scoring \cap OkPairs)
          /\ UNCHANGED <<results, faults>>
          /\ \A v \in Workers \ {w} : worker'[v] = worker[v]
      BY <2>6 DEF WorkerWritesScores
    <3>2. QED BY <1>1, <3>1 DEF OkPairs
  <2>7. ~WorkerFailsToScore(w)
    BY <1>3 DEF WorkerFailsToScore
  <2>8. QED BY <1>4, <2>2, <2>3, <2>4, <2>5, <2>6, <2>7 DEF WorkerStep
<1>5. CASE \E d \in Drivers : TickStep(d)
  BY <1>2, <1>3, <1>5, TickFrame DEF output
<1>6. CASE FinalizerStep
  BY <1>2, <1>6, FinalizerFrame
<1>7. CASE StallTimeoutPasses
  BY <1>2, <1>7 DEF StallTimeoutPasses, output
<1>8. CASE Environment
  <2>1. CASE \E messages \in SUBSET Messages, chosen, broken \in SUBSET Evaluators :
               CreateRun(messages, chosen, broken)
    BY <1>2, <2>1 DEF CreateRun, output
  <2>2. CASE (\E d \in Drivers : TickDies(d)) \/ FinalizerDies
    BY <1>2, <1>3, <2>2 DEF TickDies, FinalizerDies, output
  <2>3. ~(\E m \in Messages : DeleteMessage(m)) /\ ~(\E e \in Evaluators : DeleteEvaluator(e)) /\ ~DeleteRun
    BY <1>3 DEF DeleteMessage, DeleteEvaluator, DeleteRun, Fault
  <2>4. QED BY <1>8, <2>1, <2>2, <2>3 DEF Environment
<1>9. CASE UNCHANGED vars
  BY <1>2, <1>9 DEF vars, output
<1>10. QED BY <1>4, <1>5, <1>6, <1>7, <1>8, <1>9 DEF Next

-----------------------------------------------------------------------------
(* The theorems.                                                           *)

LEMMA InitInductive == Init => IInv
<1> SUFFICES ASSUME Init PROVE IInv
  OBVIOUS
<1> USE DEF Init
<1>1. TypeOK
  <2>1. faults \in 0..MaxFaults
    BY FaultsAssumption
  <2>2. tick \in [Drivers -> Tick]
    BY DEF IdleTick, Tick
  <2>3. worker \in [Workers -> Batch]
    BY DEF IdleWorker, Batch
  <2>4. results \in [Pairs -> {"none", "ok", "error"}]
    OBVIOUS
  <2>5. QED BY <2>1, <2>2, <2>3, <2>4 DEF TypeOK
<1>2. OkPairs = {}
  BY DEF OkPairs
<1>3. \A d \in Drivers : tick[d].pc = "idle" /\ tick[d].terminal = "none"
  BY DEF IdleTick
<1>4. PlanLifetime /\ ResultsWithinPlan
  BY DEF PlanLifetime, ResultsWithinPlan
<1>5. OneTransaction /\ CountIsSafe /\ AnnouncesTruth
  BY <1>3 DEF OneTransaction, CountIsSafe, AnnouncesTruth, InTransaction
<1>6. CompletedCoversPlan /\ StopsOnlyWhenTerminal
  BY DEF CompletedCoversPlan, StopsOnlyWhenTerminal
<1>7. RootTaskClaim
  BY <1>3 DEF RootTaskClaim, Claims
<1>8. StallCounting
  BY StallsAssumption DEF StallCounting, FailsOnlyAfterBarrenStalls
<1>9. WorkersInPlan
  BY DEF WorkersInPlan, IdleWorker
<1>10. AggregatesComplete /\ ScoredUnlessFault
  BY <1>2 DEF AggregatesComplete, FinalizedAggregatesAll, ScoredUnlessFault
<1>11. QED
  BY <1>1, <1>4, <1>5, <1>6, <1>7, <1>8, <1>9, <1>10 DEF IInv

\* The inductive invariant: what a run is between any two steps, whatever the
\* drivers, the workers, the broker, the crashes and the deletions do.
THEOREM Safety == Spec => []IInv
<1>1. TypeOK /\ TypeOK' /\ IInv /\ [Next]_vars => IInv'
  BY PlanLifetimeStep, ResultsWithinPlanStep, OneTransactionStep, CountIsSafeStep,
     CompletedCoversStep, AnnouncesTruthStep, StopsOnlyWhenTerminalStep,
     RootTaskClaimStep, StallCountingStep, WorkersInPlanStep, AggregatesCompleteStep,
     ScoredUnlessFaultStep DEF IInv
<1>2. QED
  BY <1>1, InitInductive, TypeCorrect, PTL DEF Spec

\* A completed run has a result for every planned pair that still exists
\* (tasks.py:393-435): the count a tick took is still good when it commits.
THEOREM CompletionIsSound == Spec => []CompletedCoversPlan
<1>1. IInv => CompletedCoversPlan
  BY DEF IInv
<1>2. QED BY <1>1, Safety, PTL

\* However batches are delivered, results stay within the frozen plan
\* (tasks.py:80-90, models.py:783-789).
THEOREM PlanIsRespected == Spec => []ResultsWithinPlan
<1>1. IInv => ResultsWithinPlan
  BY DEF IInv
<1>2. QED BY <1>1, Safety, PTL

\* The root task is created at most once, although it is created after the
\* transaction that claims it (tasks.py:453-464, 561-594).
THEOREM RootTaskIsUnique == Spec => []OneRootTask
<1>1. IInv => OneRootTask
  BY DEF IInv, RootTaskClaim, OneRootTask
<1>2. QED BY <1>1, Safety, PTL

\* The poller is stopped only by a run that has ended (tasks.py:537-558).
THEOREM PollerStopsInTime == Spec => []StopsOnlyWhenTerminal
<1>1. IInv => StopsOnlyWhenTerminal
  BY DEF IInv
<1>2. QED BY <1>1, Safety, PTL

\* The sweep misses nothing: a finalized run has aggregated every successful
\* result it holds (tasks.py:477-502).
THEOREM SweepIsComplete == Spec => []FinalizedAggregatesAll
<1>1. IInv => FinalizedAggregatesAll
  BY DEF IInv, AggregatesComplete
<1>2. QED BY <1>1, Safety, PTL

\* Scores are lost only to a fault between the insert and their transaction
\* (tasks.py:152-165).
THEOREM ScoresSurvive == Spec => []ScoredUnlessFault
<1>1. IInv => ScoredUnlessFault
  BY DEF IInv
<1>2. QED BY <1>1, Safety, PTL

\* Together: the promises of a run hold in every state.
THEOREM RunSafety == Spec => []RunIsSafe
<1>1. IInv => RunIsSafe
  BY DEF IInv, RunIsSafe, RootTaskClaim, OneRootTask
<1>2. QED BY <1>1, Safety, PTL

\* A run is failed only after MAX_STALLS - 1 barren stalls in a row
\* (tasks.py:317-344).
THEOREM StallsAreBarren == Spec => []FailsOnlyAfterBarrenStalls
<1>1. IInv => FailsOnlyAfterBarrenStalls
  BY DEF IInv, StallCounting
<1>2. QED BY <1>1, Safety, PTL

\* A run that has ended never ends differently (tasks.py:447-451).
THEOREM TerminalStates == Spec => TerminalIsFinal
<1>1. IInv /\ [Next]_vars => (status \in Terminal => status' \in {status, "deleted"})
  BY TerminalStep
<1>2. QED BY <1>1, Safety, PTL DEF Spec, TerminalIsFinal

\* The first result of a pair wins, and a completed run receives no more
\* (tasks.py:93-134, models.py:783-789).
THEOREM FirstResultIsKept == Spec => FirstResultWins
<1> DEFINE Keeps == \A p \in Pairs :
             /\ results[p] # "none" => results'[p] \in {results[p], "none"}
             /\ status = "completed" => results'[p] \in {results[p], "none"}
<1>1. IInv /\ [Next]_vars => Keeps
  <2> SUFFICES ASSUME IInv, [Next]_vars, NEW p \in Pairs
               PROVE  /\ results[p] # "none" => results'[p] \in {results[p], "none"}
                      /\ status = "completed" => results'[p] \in {results[p], "none"}
    OBVIOUS
  <2>1. PlanShrinks \/ (status = "none" /\ UNCHANGED results)
    BY PlanStep DEF IInv
  <2>2. status = "completed" => \A m \in scoped, e \in evaluator_ids \cap evaluators :
                                   results[<<m, e>>] # "none"
    BY DEF IInv, CompletedCoversPlan
  <2>3. QED BY <2>1, <2>2 DEF PlanShrinks
<1>2. QED BY <1>1, Safety, PTL DEF Spec, FirstResultWins

-----------------------------------------------------------------------------
(* The run implements EvaluationPlan.                                      *)

Due == scoped \X (evaluator_ids \cap evaluators)

LEMMA PlanSimulation ==
  ASSUME IInv, [Next]_vars
  PROVE  [Plan!Next]_(Plan!planVars)
<1> USE DEF Phase, Plan!planVars
<1>0. TypeOK /\ OneTransaction /\ CompletedCoversPlan /\ ResultsWithinPlan /\ PlanLifetime
  BY DEF IInv
<1>1. ASSUME UNCHANGED <<plan, results>>, UNCHANGED status PROVE UNCHANGED Plan!planVars
  BY <1>1 DEF plan
<1>2. ASSUME NEW messages \in SUBSET Messages, NEW chosen \in SUBSET Evaluators,
             NEW broken \in SUBSET Evaluators, CreateRun(messages, chosen, broken)
      PROVE  Plan!Freeze
  <2>1. /\ status = "none" /\ status' = "pending"
        /\ scoped' \subseteq Messages /\ evaluator_ids' \subseteq Evaluators
        /\ UNCHANGED results
    BY <1>2 DEF CreateRun, output
  <2>2. Due' \subseteq Pairs
    BY <2>1 DEF Due, Pairs
  <2>3. QED BY <2>1, <2>2 DEF Plan!Freeze, Due
<1>3. ASSUME NEW d \in Drivers, TickStep(d) PROVE [Plan!Next]_(Plan!planVars)
  <2>1. UNCHANGED <<plan, results>>
    BY <1>3, TickFrame DEF output
  <2>2. CASE TickLocks(d) \/ Inside(d) \/ Sends(d)
    <3>1. UNCHANGED status
      BY <1>0, <2>2, LockEffect, InsideEffect, SendEffect DEF row
    <3>2. QED BY <1>1, <2>1, <3>1
  <2>3. CASE Commits(d)
    <3>1. status \in NonTerminal
      BY <1>0, <2>3, CommitEffect DEF OneTransaction
    <3>2. CASE status' = "processing"
      BY <2>1, <3>1, <3>2 DEF plan
    <3>3. CASE status' = "completed"
      <4>1. \A p \in Due : results[p] # "none"
        <5>1. CompletedCoversPlan'
          BY CompletedCoversStep
        <5>2. QED BY <2>1, <3>3, <5>1 DEF CompletedCoversPlan, plan, Due
      <4>2. Plan!Complete
        BY <2>1, <3>1, <3>3, <4>1 DEF Plan!Complete, plan, Due
      <4>3. QED BY <4>2 DEF Plan!Next
    <3>4. CASE status' = "failed"
      BY <2>1, <3>1, <3>4 DEF Plan!GiveUp, Plan!Next, plan
    <3>5. QED BY <2>3, <3>2, <3>3, <3>4, CommitEffect
  <2>4. QED BY <1>3, <2>2, <2>3, TickKinds
<1>4. ASSUME NEW w \in Workers, NEW e \in Evaluators, NEW outcome \in {"ok", "error"},
             WorkerJudges(w, e, outcome)
      PROVE  [Plan!Next]_(Plan!planVars)
  <2> DEFINE m == CHOOSE n \in worker[w].message : TRUE
  <2>1. UNCHANGED <<plan, status>>
    BY <1>4 DEF WorkerJudges, row
  <2>2. e \in evaluator_ids
    BY <1>4 DEF WorkerJudges, WorkersInPlan, IInv
  <2>3. CASE Insertable(m, e)
    <3>1. results' = [results EXCEPT ![<<m, e>>] = outcome]
      BY <1>4, <2>3 DEF WorkerJudges
    <3> HIDE DEF m
    <3>2. <<m, e>> \in Due /\ results[<<m, e>>] = "none"
      BY <2>2, <2>3 DEF Insertable, Due
    <3>3. status \in {"pending", "processing", "failed"}
      BY <1>0, <2>2, <2>3 DEF Insertable, PlanLifetime, CompletedCoversPlan, TypeOK
    <3>4. Plan!Judge
      BY <2>1, <3>1, <3>2, <3>3 DEF Plan!Judge, Due, plan
    <3>5. QED BY <3>4 DEF Plan!Next
  <2>4. CASE ~Insertable(m, e)
    <3>1. results' = results
      BY <1>4, <2>4 DEF WorkerJudges
    <3>2. QED BY <1>1, <2>1, <3>1
  <2>5. QED BY <2>3, <2>4
<1>5. ASSUME NEW w \in Workers, WorkerStep(w) PROVE [Plan!Next]_(Plan!planVars)
  <2>1. UNCHANGED <<plan, status>>
    BY <1>5, WorkerFrame DEF row
  <2>2. CASE \E e \in Evaluators, outcome \in {"ok", "error"} : WorkerJudges(w, e, outcome)
    BY <2>2, <1>4
  <2>3. CASE UNCHANGED results
    BY <1>1, <2>1, <2>3
  <2>4. QED
    BY <1>5, <2>2, <2>3 DEF WorkerStep, WorkerReceives, WorkerStartsMessage, WorkerEndsBatch,
       WorkerWritesScores, WorkerFailsToScore, WorkerDies, output
<1>6. ASSUME NEW m \in Messages, DeleteMessage(m) PROVE Plan!Withdraw
  <2>1. /\ scoped' = scoped \ {m}
        /\ UNCHANGED <<evaluator_ids, evaluators, status>>
        /\ status # "none"
        /\ results' = [p \in Pairs |-> IF p \in {m} \X Evaluators THEN "none" ELSE results[p]]
    BY <1>6 DEF DeleteMessage, CascadeResults, Fault, row
  <2>2. ASSUME NEW p \in Pairs
        PROVE  results'[p] = IF p \in Due \ Due' THEN "none" ELSE results[p]
    <3>1. CASE p \in {m} \X Evaluators
      BY <1>0, <2>1, <3>1 DEF ResultsWithinPlan, Due
    <3>2. CASE p \notin {m} \X Evaluators
      BY <2>1, <3>2 DEF Pairs, Due
    <3>3. QED BY <3>1, <3>2
  <2>3. results' = [p \in Pairs |-> IF p \in Due \ Due' THEN "none" ELSE results[p]]
    BY <2>1, <2>2
  <2>4. Due' \subseteq Due
    BY <2>1 DEF Due
  <2>5. QED BY <2>1, <2>3, <2>4 DEF Plan!Withdraw, Due
<1>7. ASSUME NEW e \in Evaluators, DeleteEvaluator(e) PROVE Plan!Withdraw
  <2>1. /\ evaluators' = evaluators \ {e}
        /\ UNCHANGED <<evaluator_ids, scoped, status>>
        /\ status # "none"
        /\ results' = [p \in Pairs |-> IF p \in Messages \X {e} THEN "none" ELSE results[p]]
    BY <1>7 DEF DeleteEvaluator, CascadeResults, Fault, row
  <2>2. ASSUME NEW p \in Pairs
        PROVE  results'[p] = IF p \in Due \ Due' THEN "none" ELSE results[p]
    <3>1. CASE p \in Messages \X {e}
      BY <1>0, <2>1, <3>1 DEF ResultsWithinPlan, Due
    <3>2. CASE p \notin Messages \X {e}
      BY <2>1, <3>2 DEF Pairs, Due
    <3>3. QED BY <3>1, <3>2
  <2>3. results' = [p \in Pairs |-> IF p \in Due \ Due' THEN "none" ELSE results[p]]
    BY <2>1, <2>2
  <2>4. Due' \subseteq Due
    BY <2>1 DEF Due
  <2>5. QED BY <2>1, <2>3, <2>4 DEF Plan!Withdraw, Due
<1>8. CASE DeleteRun
  <2>1. /\ scoped' = {} /\ status # "none" /\ status' = "deleted"
        /\ results' = [p \in Pairs |-> IF p \in Pairs THEN "none" ELSE results[p]]
    BY <1>8 DEF DeleteRun, CascadeResults, Fault
  <2>2. results' = [p \in Pairs |-> "none"] /\ Due' = {}
    BY <2>1 DEF Due
  <2>3. Plan!Delete
    BY <2>1, <2>2 DEF Plan!Delete, Due
  <2>4. QED BY <2>3 DEF Plan!Next
<1>9. QED
  <2>1. FinalizerStep => UNCHANGED <<plan, results, status>>
    BY FinalizerFrame
  <2>2. StallTimeoutPasses => UNCHANGED <<plan, results, status>>
    BY DEF StallTimeoutPasses, output, row
  <2>3. \A d \in Drivers : TickDies(d) => UNCHANGED <<plan, results, status>>
    BY DEF TickDies, output, row
  <2>4. FinalizerDies => UNCHANGED <<plan, results, status>>
    BY DEF FinalizerDies, output, row
  <2>5. UNCHANGED vars => UNCHANGED <<plan, results, status>>
    BY DEF vars, output, row
  <2>6. CASE UNCHANGED <<plan, results, status>>
    BY <1>1, <2>6
  <2>7. CASE Plan!Freeze \/ Plan!Withdraw
    BY <2>7 DEF Plan!Next
  <2>8. QED
    BY <1>2, <1>3, <1>5, <1>6, <1>7, <1>8, <2>1, <2>2, <2>3, <2>4, <2>5, <2>6, <2>7
       DEF Next, Environment

\* The ticks, the batches, the crashes and the deletions together do nothing but
\* what the abstract plan allows: judge what is due once, complete when all of it
\* is judged, give up, or lose what was deleted.
THEOREM RunImplementsPlan == Spec => ImplementsPlan
<1>1. Init => Plan!Init
  BY DEF Init, Plan!Init, Phase, Pairs
<1>2. IInv /\ [Next]_vars => [Plan!Next]_(Plan!planVars)
  BY PlanSimulation
<1>3. QED BY <1>1, <1>2, Safety, PTL DEF Spec, ImplementsPlan, Plan!Spec
=============================================================================
