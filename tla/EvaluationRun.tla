---------------------------- MODULE EvaluationRun ----------------------------
(***************************************************************************)
(* The deploy-safe evaluation run of apps/evaluations (ADR-0047).          *)
(*                                                                         *)
(* A run is created with a frozen plan: a set of messages and a set of     *)
(* evaluators.  Every 30 seconds the beat sends a tick to a driver, which  *)
(* locks the row of the run, recomputes the remaining work from the result *)
(* rows, and completes, fails, dispatches or re-dispatches.  Only after    *)
(* that transaction has committed are the batches, the progress and the    *)
(* finalization task sent.  Workers judge the messages of a batch one at a *)
(* time and insert one result per (message, evaluator).  Drivers, workers  *)
(* and the finalizer may die at every step, the broker may deliver a batch *)
(* any number of times, and rows of the plan may be deleted under the run. *)
(*                                                                         *)
(* The module models one run: ticks of different runs lock different rows  *)
(* and share nothing but the broker.                                       *)
(***************************************************************************)
EXTENDS Integers, FiniteSets

CONSTANTS
  Messages,          \* ids of the EvaluationMessage rows, integers
  Evaluators,        \* ids of the Evaluator rows
  Drivers,           \* processes that execute drive_evaluation_run
  Workers,           \* processes that execute evaluate_message_batch
  BATCH_SIZE,        \* messages per batch task
  BATCHES_PER_TICK,  \* batch tasks per dispatch
  MAX_STALLS,        \* stalls without progress that fail a run
  MaxFaults          \* bound: deletions, lost tasks and lost writes

ASSUME MessagesAreIds == Messages \subseteq Int
ASSUME BatchSizes == BATCH_SIZE \in Nat \ {0} /\ BATCHES_PER_TICK \in Nat \ {0}
ASSUME StallsAssumption == MAX_STALLS \in Nat /\ MAX_STALLS >= 2
ASSUME FaultsAssumption == MaxFaults \in Nat

VARIABLES
  status,         \* EvaluationRun.status, or "none" / "deleted" without a row
  error_message,  \* why the run failed: "none" / "unconfigured" / "stalled"
  scoped,         \* scoped_messages: the planned messages that still exist
  evaluator_ids,  \* the evaluator ids frozen at creation
  evaluators,     \* the Evaluator rows that exist
  unconfigured,   \* evaluators that need an LLM provider and have none
  in_flight,      \* message ids of the current batch
  stall_count,    \* EvaluationRun.stall_count
  quiet,          \* TRUE iff STALL_TIMEOUT passed since the newest result
                  \* and since batch_dispatched_at
  finalized_at,   \* TRUE iff finalized_at is set
  results,        \* the outcome of every (message, evaluator), "none" if no row
  scores,         \* the results whose Score rows were written
  aggregated,     \* the results the stored aggregates were computed from
  tick,           \* per driver: the tick it executes
  worker,         \* per worker: the batch it executes
  finalizer,      \* finalize_evaluation_run: its task and how far it is
  broker,         \* the batches ever published
  progress,       \* what the result backend says under job_id
  tb_roots,       \* root tasks created at Taskbadger
  barren,         \* history: stalls without progress since the last progress
  faults          \* deletions, lost ticks and lost writes so far

row == <<status, error_message, in_flight, stall_count, finalized_at, barren>>
plan == <<scoped, evaluator_ids, evaluators, unconfigured>>
output == <<results, scores, aggregated>>
outside == <<broker, progress, tb_roots>>
vars == <<row, plan, output, outside, quiet, tick, worker, finalizer, faults>>

NonTerminal == {"pending", "processing"}
Terminal == {"completed", "failed"}

Pairs == Messages \X Evaluators
OkPairs == {p \in Pairs : results[p] = "ok"}

-----------------------------------------------------------------------------
(* Ordered id lists, as sets of integers.                                  *)

Least(S) == CHOOSE m \in S : \A n \in S : m <= n
Rank(S, m) == Cardinality({n \in S : n < m})
FirstN(S, k) == {m \in S : Rank(S, m) < k}

\* sorted(S) cut into lists of k ids
Chunks(S, k) ==
  {{n \in S : Rank(S, n) \div k = Rank(S, m) \div k} : m \in S}

-----------------------------------------------------------------------------
(* What a tick and a batch task hold in memory.                            *)

\* A tick is in its transaction ("locked", "counted", "stalled"), then owes the
\* root task ("claiming"), the batches and the progress ("sending") and the
\* finalization task ("finalizing").
Tick == [pc: {"idle", "locked", "counted", "stalled",
              "claiming", "sending", "finalizing"},
         ids: SUBSET Messages,                \* plan_ids
         remaining: SUBSET Messages,
         batches: SUBSET (SUBSET Messages),
         terminal: {"none", "empty", "success", "error"}]
                                              \* "empty": success, nothing done

IdleTick == [pc |-> "idle", ids |-> {}, remaining |-> {}, batches |-> {},
             terminal |-> "none"]

Batch == [pc: {"idle", "judging", "scoring"},
          left: SUBSET Messages,       \* messages of the batch still to do
          message: SUBSET Messages,    \* the current message, or {}
          pending: SUBSET Evaluators,  \* evaluators still to run on it
          scoring: SUBSET Pairs]       \* the result whose scores are due, or {}

IdleWorker == [pc |-> "idle", left |-> {}, message |-> {}, pending |-> {},
               scoring |-> {}]

\* The row lock of the run lives as long as the transaction of a tick.
InTransaction(d) == tick[d].pc \in {"locked", "counted", "stalled"}
\* Mutant: no select_for_update.
NeverLocked == FALSE
RowLocked == \E d \in Drivers : InTransaction(d)

TypeOK ==
  /\ status \in {"none", "deleted"} \cup NonTerminal \cup Terminal
  /\ error_message \in {"none", "unconfigured", "stalled"}
  /\ scoped \subseteq Messages
  /\ evaluator_ids \subseteq Evaluators
  /\ evaluators \subseteq Evaluators
  /\ unconfigured \subseteq Evaluators
  /\ in_flight \subseteq Messages
  /\ stall_count \in Nat
  /\ quiet \in BOOLEAN
  /\ finalized_at \in BOOLEAN
  /\ results \in [Pairs -> {"none", "ok", "error"}]
  /\ scores \subseteq Pairs
  /\ aggregated \subseteq Pairs
  /\ tick \in [Drivers -> Tick]
  /\ worker \in [Workers -> Batch]
  /\ finalizer \in {"none", "queued", "aggregating", "stamping"}
  /\ broker \subseteq SUBSET Messages
  /\ progress \in {"none", "running", "stopped"}
  /\ tb_roots \in Nat
  /\ barren \in Nat
  /\ faults \in 0..MaxFaults

Init ==
  /\ status = "none"
  /\ error_message = "none"
  /\ scoped = {}
  /\ evaluator_ids = {}
  /\ evaluators = Evaluators
  /\ unconfigured = {}
  /\ in_flight = {}
  /\ stall_count = 0
  /\ quiet = FALSE
  /\ finalized_at = FALSE
  /\ results = [p \in Pairs |-> "none"]
  /\ scores = {}
  /\ aggregated = {}
  /\ tick = [d \in Drivers |-> IdleTick]
  /\ worker = [w \in Workers |-> IdleWorker]
  /\ finalizer = "none"
  /\ broker = {}
  /\ progress = "none"
  /\ tb_roots = 0
  /\ barren = 0
  /\ faults = 0

-----------------------------------------------------------------------------
(* EvaluationConfig.run: the plan is frozen in one transaction.  A FULL    *)
(* run plans every message of the dataset, a PREVIEW a sample of them, a   *)
(* DELTA the list it is given, so any set of messages may be the plan.     *)

CreateRun(messages, chosen, broken) ==
  /\ status = "none"
  /\ status' = "pending"
  /\ scoped' = messages
  /\ evaluator_ids' = chosen
  /\ unconfigured' = broken
  /\ UNCHANGED <<error_message, in_flight, stall_count, finalized_at, barren,
                 evaluators, output, outside, quiet, tick, worker, finalizer,
                 faults>>

-----------------------------------------------------------------------------
(* drive_evaluation_run: one tick, inside the transaction.                 *)

\* Mutant: a message is done once any evaluator has judged it.
DoneByOne(ids) ==
  {m \in ids : \E e \in evaluator_ids : results[<<m, e>>] # "none"}

\* The messages with a result from every evaluator of the frozen plan.  The
\* count of distinct evaluators is compared with the frozen list, so a deleted
\* evaluator leaves no message done.
Done(ids) ==
  {m \in ids : \A e \in evaluator_ids : results[<<m, e>>] # "none"}

\* Mutant: the terminal statuses are not excluded.
DrivableWhenEnded == status \in NonTerminal \cup Terminal
Drivable == status \in NonTerminal

\* select_for_update(skip_locked=True) on the non-terminal row; the plan is read.
TickLocks(d) ==
  /\ tick[d].pc = "idle"
  /\ Drivable
  /\ ~RowLocked
  /\ tick' = [tick EXCEPT ![d] = [@ EXCEPT !.pc = "locked", !.ids = scoped]]
  /\ UNCHANGED <<row, plan, output, outside, quiet, worker, finalizer, faults>>

NothingToDo(d) == tick[d].ids = {} \/ evaluator_ids = {}
Misconfigured ==
  status = "pending" /\ unconfigured \cap evaluator_ids \cap evaluators # {}

\* Mutant: every tick of a run without a root task creates one.
NoRootTask == tb_roots = 0
FirstTick == status = "pending"

\* The tick that read the run as PENDING also creates the root task.
Commit(d, batches, terminal) ==
  /\ tick' = [tick EXCEPT ![d] =
                 [@ EXCEPT !.pc = IF FirstTick THEN "claiming" ELSE "sending",
                           !.batches = batches,
                           !.terminal = terminal]]
  /\ UNCHANGED <<plan, output, outside, worker, finalizer, faults>>

\* _complete_run with nothing_to_finalize.
TickCompletesEmpty(d) ==
  /\ tick[d].pc = "locked"
  /\ NothingToDo(d)
  /\ status' = "completed"
  /\ finalized_at' = TRUE
  /\ Commit(d, {}, "empty")
  /\ UNCHANGED <<error_message, in_flight, stall_count, barren, quiet>>

\* _fail_run_for_unconfigured_evaluators: the pre-flight of the first tick.
TickFailsUnconfigured(d) ==
  /\ tick[d].pc = "locked"
  /\ ~NothingToDo(d)
  /\ Misconfigured
  /\ status' = "failed"
  /\ error_message' = "unconfigured"
  /\ Commit(d, {}, "error")
  /\ UNCHANGED <<in_flight, stall_count, finalized_at, barren, quiet>>

\* The query for the done messages, a statement after the one for the plan.
TickCounts(d) ==
  /\ tick[d].pc = "locked"
  /\ ~NothingToDo(d)
  /\ ~Misconfigured
  /\ tick' = [tick EXCEPT ![d] =
                 [@ EXCEPT !.pc = "counted",
                           !.remaining = tick[d].ids \ Done(tick[d].ids)]]
  /\ UNCHANGED <<row, plan, output, outside, quiet, worker, finalizer, faults>>

\* Mutant of AllDone: BatchDone.
BatchDone(d) == in_flight \cap tick[d].remaining = {}
AllDone(d) == tick[d].remaining = {}

\* _complete_run: only the transition, never the sweeps that follow it.
TickCompletes(d) ==
  /\ tick[d].pc = "counted"
  /\ AllDone(d)
  /\ status' = "completed"
  /\ Commit(d, {}, "success")
  /\ UNCHANGED <<error_message, in_flight, stall_count, finalized_at, barren,
                 quiet>>

\* _dispatch_new_batch: the first batch, or the next one.
TickDispatches(d) ==
  LET dispatched == FirstN(tick[d].remaining, BATCHES_PER_TICK * BATCH_SIZE)
  IN  /\ tick[d].pc = "counted"
      /\ ~AllDone(d)
      /\ FirstTick \/ BatchDone(d)
      /\ in_flight' = dispatched
      /\ quiet' = FALSE
      /\ stall_count' = 0
      /\ barren' = 0
      /\ status' = "processing"
      /\ Commit(d, Chunks(dispatched, BATCH_SIZE), "none")
      /\ UNCHANGED <<error_message, finalized_at>>

\* Mutant: batch_dispatched_at is not considered, a run without results never stalls.
StalledAfterResult == quiet /\ \E p \in Pairs : results[p] # "none"
Stalled == quiet

\* _is_stalled: its query for the newest result is one more statement.
TickFindsStall(d) ==
  /\ tick[d].pc = "counted"
  /\ ~AllDone(d)
  /\ ~(FirstTick \/ BatchDone(d))
  /\ Stalled
  /\ tick' = [tick EXCEPT ![d] = [@ EXCEPT !.pc = "stalled"]]
  /\ UNCHANGED <<row, plan, output, outside, quiet, worker, finalizer, faults>>

TickFindsProgress(d) ==
  /\ tick[d].pc = "counted"
  /\ ~AllDone(d)
  /\ ~(FirstTick \/ BatchDone(d))
  /\ ~Stalled
  /\ Commit(d, {}, "none")
  /\ UNCHANGED <<row, quiet>>

\* _redispatch_unfinished, in its two outcomes.
Unfinished(d) == in_flight \cap tick[d].remaining
MadeProgress(d) == Unfinished(d) # in_flight
NextStallCount(d) == IF MadeProgress(d) THEN 1 ELSE stall_count + 1
NextBarren(d) == IF MadeProgress(d) THEN 0 ELSE barren + 1
\* Mutant: off by one.
GivesUpEarly(d) == NextStallCount(d) >= MAX_STALLS - 1 /\ ~MadeProgress(d)
GivesUp(d) == NextStallCount(d) >= MAX_STALLS /\ ~MadeProgress(d)

TickFailsStalled(d) ==
  /\ tick[d].pc = "stalled"
  /\ GivesUp(d)
  /\ status' = "failed"
  /\ error_message' = "stalled"
  /\ stall_count' = NextStallCount(d)
  /\ barren' = NextBarren(d)
  /\ Commit(d, {}, "error")
  /\ UNCHANGED <<in_flight, finalized_at, quiet>>

TickRedispatches(d) ==
  /\ tick[d].pc = "stalled"
  /\ ~GivesUp(d)
  /\ in_flight' = Unfinished(d)
  /\ quiet' = FALSE
  /\ stall_count' = NextStallCount(d)
  /\ barren' = NextBarren(d)
  /\ Commit(d, Chunks(Unfinished(d), BATCH_SIZE), "none")
  /\ UNCHANGED <<status, error_message, finalized_at>>

-----------------------------------------------------------------------------
(* drive_evaluation_run: the side effects of a tick, after its commit.     *)

\* _ensure_taskbadger_task: create_task_safe may fail without a trace; the save
\* of the new id raises when the row is gone, and the read of the configuration
\* when it went with the row: that ends the tick.
TickCreatesTask(d) ==
  \E created \in {0, 1}, next \in {IdleTick, [tick[d] EXCEPT !.pc = "sending"]} :
    /\ tick[d].pc = "claiming"
    /\ next.pc = "idle" => status = "deleted"
    /\ status = "deleted" /\ created = 1 => next.pc = "idle"
    /\ tb_roots' = tb_roots + created
    /\ tick' = [tick EXCEPT ![d] = next]
    /\ UNCHANGED <<row, plan, output, broker, progress, quiet, worker, finalizer,
                   faults>>

\* The batches are sent in the order of their ids; any order covers that one.
TickPublishesBatch(d) ==
  \E batch \in tick[d].batches :
    /\ tick[d].pc = "sending"
    /\ broker' = broker \cup {batch}
    /\ tick' = [tick EXCEPT ![d] = [@ EXCEPT !.batches = tick[d].batches \ {batch}]]
    /\ UNCHANGED <<row, plan, output, progress, tb_roots, quiet, worker,
                   finalizer, faults>>

\* store_result of the result backend: a SUCCESS is never overwritten.
StoreResult(state) == IF progress = "stopped" THEN progress ELSE state

\* Mutant: the poller is stopped when the last batches are dispatched.
StopsWithLastBatch(d) ==
  IF tick[d].terminal = "none" /\ tick[d].remaining \ in_flight # {}
  THEN "running" ELSE "stopped"
\* What the tick publishes.
Announcement(d) == IF tick[d].terminal = "none" THEN "running" ELSE "stopped"

\* Mutant: finalization is dispatched for a run with nothing to finalize only.
FinalizesWhenEmpty(d) == tick[d].terminal = "empty"
\* Whether completion side effects are dispatched: success, and done > 0.
HasToFinalize(d) == tick[d].terminal = "success"

\* _publish_tick; a failure of the result backend is logged and swallowed.
TickPublishesProgress(d) ==
  /\ tick[d].pc = "sending"
  /\ tick[d].batches = {}
  /\ \/ progress' = StoreResult(Announcement(d)) /\ UNCHANGED faults
     \/ faults < MaxFaults /\ faults' = faults + 1 /\ UNCHANGED progress
  /\ tick' = [tick EXCEPT ![d] = IF HasToFinalize(d)
                                 THEN [tick[d] EXCEPT !.pc = "finalizing"]
                                 ELSE IdleTick]
  /\ UNCHANGED <<row, plan, output, broker, tb_roots, quiet, worker, finalizer>>

TickDispatchesFinalize(d) ==
  /\ tick[d].pc = "finalizing"
  /\ finalizer' = "queued"
  /\ tick' = [tick EXCEPT ![d] = IdleTick]
  /\ UNCHANGED <<row, plan, output, outside, quiet, worker, faults>>

\* The process dies, or a statement or a send raises: the transaction is rolled
\* back if it has not committed, the sends that were still due are lost if it has.
TickDies(d) ==
  /\ tick[d].pc # "idle"
  /\ faults < MaxFaults
  /\ faults' = faults + 1
  /\ tick' = [tick EXCEPT ![d] = IdleTick]
  /\ UNCHANGED <<row, plan, output, outside, quiet, worker, finalizer>>

-----------------------------------------------------------------------------
(* evaluate_message_batch.  The task is acknowledged late and Redis         *)
(* redelivers it after the visibility timeout, so every published batch may *)
(* be delivered again, to several workers at once; never delivered again is *)
(* a batch that was lost.                                                   *)

WorkerReceives(w, batch) ==
  /\ worker[w].pc = "idle"
  /\ batch \in broker
  /\ status = "processing"
  /\ worker' = [worker EXCEPT ![w] =
                 [@ EXCEPT !.pc = "judging", !.left = batch]]
  /\ UNCHANGED <<row, plan, output, outside, quiet, tick, finalizer, faults>>

\* evaluate_message up to the first evaluator: the pending evaluators are read
\* before the bot generates its response.
Judging(w) == worker[w].pc = "judging" /\ worker[w].pending # {}
BetweenMessages(w) == worker[w].pc = "judging" /\ worker[w].pending = {}

\* Mutant: the evaluators of the configuration, not those of the frozen plan.
LivePendingEvaluators(m) == {e \in evaluators : results[<<m, e>>] = "none"}

PendingEvaluators(m) ==
  {e \in evaluator_ids \cap evaluators : results[<<m, e>>] = "none"}

WorkerStartsMessage(w) ==
  LET m == Least(worker[w].left)
      pending == IF m \in scoped THEN PendingEvaluators(m) ELSE {}
  IN  /\ BetweenMessages(w)
      /\ worker[w].left # {}
      /\ worker' = [worker EXCEPT ![w] =
                     [@ EXCEPT !.left = worker[w].left \ {m},
                               !.message = IF pending = {} THEN {} ELSE {m},
                               !.pending = pending]]
      /\ UNCHANGED <<row, plan, output, outside, quiet, tick, finalizer, faults>>

WorkerEndsBatch(w) ==
  /\ BetweenMessages(w)
  /\ worker[w].left = {}
  /\ worker' = [worker EXCEPT ![w] = IdleWorker]
  /\ UNCHANGED <<row, plan, output, outside, quiet, tick, finalizer, faults>>

\* Mutant: no unique constraint, the row is updated.
Upsertable(m, e) == m \in scoped /\ e \in evaluators

\* The insert is refused by the unique constraint when the pair has a result,
\* and by a foreign key when the message, the evaluator or the run is gone.
Insertable(m, e) ==
  /\ results[<<m, e>>] = "none"
  /\ m \in scoped
  /\ e \in evaluators

\* Mutant: scores are written after the last evaluator of a message only.
ScoredLast(m, e, outcome, rest) ==
  IF Insertable(m, e) /\ outcome = "ok" /\ rest = {} THEN {<<m, e>>} ELSE {}
\* The result whose scores are to be written: a new one that is no error.
ScoresDue(m, e, outcome, rest) ==
  IF Insertable(m, e) /\ outcome = "ok" THEN {<<m, e>>} ELSE {}

\* _run_evaluator_on_message up to the insert; an exception of the evaluator is
\* stored as an error result.
WorkerJudges(w, e, outcome) ==
  LET m == CHOOSE n \in worker[w].message : TRUE
      inserted == Insertable(m, e)
      rest == worker[w].pending \ {e}
      due == ScoresDue(m, e, outcome, rest)
  IN  /\ Judging(w)
      /\ e \in worker[w].pending
      /\ results' = IF inserted THEN [results EXCEPT ![<<m, e>>] = outcome]
                                ELSE results
      /\ quiet' = IF inserted THEN FALSE ELSE quiet
      /\ worker' = [worker EXCEPT ![w] =
                     [@ EXCEPT !.pc = IF due = {} THEN "judging" ELSE "scoring",
                               !.message = IF rest = {} THEN {} ELSE worker[w].message,
                               !.pending = rest,
                               !.scoring = due]]
      /\ UNCHANGED <<row, plan, scores, aggregated, outside, tick, finalizer, faults>>

\* write_scores_from_evaluation_result, in a transaction of its own; it writes
\* nothing for a result that was deleted meanwhile.
WorkerWritesScores(w) ==
  /\ worker[w].pc = "scoring"
  /\ scores' = scores \cup (worker[w].scoring \cap OkPairs)
  /\ worker' = [worker EXCEPT ![w] =
                 [@ EXCEPT !.pc = "judging", !.scoring = {}]]
  /\ UNCHANGED <<row, plan, results, aggregated, outside, quiet, tick, finalizer,
                 faults>>

\* Its failure is logged and swallowed.
WorkerFailsToScore(w) ==
  /\ worker[w].pc = "scoring"
  /\ faults < MaxFaults
  /\ faults' = faults + 1
  /\ worker' = [worker EXCEPT ![w] =
                 [@ EXCEPT !.pc = "judging", !.scoring = {}]]
  /\ UNCHANGED <<row, plan, output, outside, quiet, tick, finalizer>>

\* SIGKILL in a deploy, or the soft time limit outside an evaluator.  Dying
\* between the insert and the scores loses the scores, and counts as a fault.
WorkerDies(w) ==
  /\ worker[w].pc # "idle"
  /\ \/ worker[w].pc # "scoring" /\ UNCHANGED faults
     \/ worker[w].pc = "scoring" /\ faults < MaxFaults /\ faults' = faults + 1
  /\ worker' = [worker EXCEPT ![w] = IdleWorker]
  /\ UNCHANGED <<row, plan, output, outside, quiet, tick, finalizer>>

-----------------------------------------------------------------------------
(* finalize_evaluation_run, dispatched by the one tick that completed the  *)
(* run.  Its task is acknowledged on receipt: dying loses it.              *)

FinalizerStarts ==
  /\ finalizer = "queued"
  /\ finalizer' = IF status = "completed" THEN "aggregating" ELSE "none"
  /\ UNCHANGED <<row, plan, output, outside, quiet, tick, worker, faults>>

\* Mutant: only the results of the last batch are aggregated.
LastBatch == {p \in OkPairs : p[1] \in in_flight}
Aggregatable == OkPairs

\* compute_aggregates_for_run; on a deleted run it raises.
FinalizerAggregates ==
  /\ finalizer = "aggregating"
  /\ status = "completed"
  /\ aggregated' = Aggregatable
  /\ finalizer' = "stamping"
  /\ UNCHANGED <<row, plan, results, scores, outside, quiet, tick, worker, faults>>

FinalizerStamps ==
  /\ finalizer = "stamping"
  /\ status = "completed"
  /\ finalized_at' = TRUE
  /\ finalizer' = "none"
  /\ UNCHANGED <<status, error_message, in_flight, stall_count, barren, plan,
                 output, outside, quiet, tick, worker, faults>>

FinalizerDies ==
  /\ finalizer # "none"
  /\ \/ status = "deleted" /\ finalizer # "queued" /\ UNCHANGED faults
     \/ faults < MaxFaults /\ faults' = faults + 1
  /\ finalizer' = "none"
  /\ UNCHANGED <<row, plan, output, outside, quiet, tick, worker>>

-----------------------------------------------------------------------------
(* The surroundings: time, and deletions under the run.  The guard         *)
(* raise_if_runs_in_flight is best effort: it does not see bulk deletes    *)
(* and cascades, and a run may be created after it has looked.             *)

StallTimeoutPasses ==
  /\ status = "processing"
  /\ ~quiet
  /\ quiet' = TRUE
  /\ UNCHANGED <<row, plan, output, outside, tick, worker, finalizer, faults>>

Fault ==
  /\ status \notin {"none", "deleted"}
  /\ faults < MaxFaults
  /\ faults' = faults + 1

\* The rows of gone cascade away: results with their scores.
CascadeResults(gone) ==
  /\ results' = [p \in Pairs |-> IF p \in gone THEN "none" ELSE results[p]]
  /\ scores' = scores \ gone

DeleteMessage(m) ==
  /\ Fault
  /\ m \in scoped
  /\ scoped' = scoped \ {m}
  /\ CascadeResults({m} \X Evaluators)
  /\ UNCHANGED <<row, evaluator_ids, evaluators, unconfigured, aggregated,
                 outside, quiet, tick, worker, finalizer>>

DeleteEvaluator(e) ==
  /\ Fault
  /\ e \in evaluators
  /\ evaluators' = evaluators \ {e}
  /\ CascadeResults(Messages \X {e})
  /\ aggregated' = aggregated \ (Messages \X {e})
  /\ UNCHANGED <<row, scoped, evaluator_ids, unconfigured, outside, quiet, tick,
                 worker, finalizer>>

\* cleanup_old_preview_evaluation_runs, whatever the status of the run, or the
\* cascade of a deleted configuration; it waits for the row lock.
DeleteRun ==
  /\ Fault
  /\ ~RowLocked
  /\ status' = "deleted"
  /\ finalized_at' = FALSE
  /\ scoped' = {}
  /\ CascadeResults(Pairs)
  /\ aggregated' = {}
  /\ UNCHANGED <<error_message, in_flight, stall_count, barren, evaluator_ids,
                 evaluators, unconfigured, outside, quiet, tick, worker,
                 finalizer>>

-----------------------------------------------------------------------------
TickStep(d) ==
  \/ TickLocks(d)
  \/ TickCompletesEmpty(d)
  \/ TickFailsUnconfigured(d)
  \/ TickCounts(d)
  \/ TickCompletes(d)
  \/ TickDispatches(d)
  \/ TickFindsStall(d)
  \/ TickFindsProgress(d)
  \/ TickFailsStalled(d)
  \/ TickRedispatches(d)
  \/ TickCreatesTask(d)
  \/ TickPublishesBatch(d)
  \/ TickPublishesProgress(d)
  \/ TickDispatchesFinalize(d)

WorkerStep(w) ==
  \/ \E batch \in broker : WorkerReceives(w, batch)
  \/ WorkerStartsMessage(w)
  \/ WorkerEndsBatch(w)
  \/ \E e \in Evaluators, outcome \in {"ok", "error"} : WorkerJudges(w, e, outcome)
  \/ WorkerWritesScores(w)
  \/ WorkerFailsToScore(w)
  \/ WorkerDies(w)

FinalizerStep ==
  \/ FinalizerStarts
  \/ FinalizerAggregates
  \/ FinalizerStamps

Environment ==
  \/ \E messages \in SUBSET Messages, chosen, broken \in SUBSET Evaluators :
        CreateRun(messages, chosen, broken)
  \/ \E d \in Drivers : TickDies(d)
  \/ FinalizerDies
  \/ \E m \in Messages : DeleteMessage(m)
  \/ \E e \in Evaluators : DeleteEvaluator(e)
  \/ DeleteRun

Next ==
  \/ \E d \in Drivers : TickStep(d)
  \/ \E w \in Workers : WorkerStep(w)
  \/ FinalizerStep
  \/ StallTimeoutPasses
  \/ Environment

Spec == Init /\ [][Next]_vars

\* The beat never stops sending ticks, a tick that does not die goes on, the
\* finalization task that was sent is executed, and time passes.  Nothing is
\* assumed of the workers: a run must end even if no batch is ever executed.
Fairness ==
  /\ \A d \in Drivers : WF_vars(TickStep(d))
  /\ WF_vars(FinalizerStep)
  /\ WF_vars(StallTimeoutPasses)

FairSpec == Spec /\ Fairness

-----------------------------------------------------------------------------
(* Properties.                                                             *)

\* A completed run has a result for every planned (message, evaluator) pair
\* whose rows still exist (tasks.py:419, and ADR-0047 "Completion from the DB"),
\* although the tick that completed it read the results long before it committed.
CompletedCoversPlan ==
  status = "completed" =>
    \A m \in scoped, e \in evaluator_ids \cap evaluators : results[<<m, e>>] # "none"

\* Results are only ever written for pairs of the frozen plan, whichever batch,
\* stale or redelivered, a worker executes.
ResultsWithinPlan ==
  \A p \in Pairs : results[p] # "none" => p \in scoped \X (evaluator_ids \cap evaluators)

\* At most one tick ever creates the root task of the run, although the create
\* happens after the transaction that claimed it (tasks.py:453-464).
OneRootTask == tb_roots <= 1

\* The poller of the results page is only told to stop once the run is terminal,
\* although ticks publish after their commit and may overtake one another.
StopsOnlyWhenTerminal ==
  progress = "stopped" => status \in Terminal \cup {"deleted"}

\* A finalized run has aggregated every successful result it holds: none is
\* inserted behind the back of the sweep by a worker that is still running.
FinalizedAggregatesAll == finalized_at => OkPairs \subseteq aggregated

\* Without a fault, every successful result has its scores or a worker that is
\* about to write them.
ScoredUnlessFault ==
  faults = 0 =>
    \A p \in OkPairs : p \in scores \/ \E w \in Workers : p \in worker[w].scoring

\* The promises of a run in every state: it follows its plan, completes it before it
\* says so, has one root task, and loses no scores.
RunIsSafe ==
  CompletedCoversPlan /\ ResultsWithinPlan /\ OneRootTask /\ StopsOnlyWhenTerminal /\ ScoredUnlessFault

\* A run fails for stalling only after MAX_STALLS - 1 stalls in a row that made
\* no progress.
FailsOnlyAfterBarrenStalls == error_message = "stalled" => barren >= MAX_STALLS - 1

\* A terminal run never becomes anything else, except that it may be deleted.
TerminalIsFinal == 
  [][(status \in Terminal) => status' \in {status, "deleted"}]_vars

\* The first result of a pair wins: no later delivery overwrites it, and nothing
\* is inserted into a completed run.
FirstResultWins ==
  [][\A p \in Pairs :
        /\ results[p] # "none" => results'[p] \in {results[p], "none"}
        /\ status = "completed" => results'[p] \in {results[p], "none"}]_vars

\* Every run leaves the states that block edits, even if no worker executes
\* anything (ADR-0047: "instead of stranding it forever").
EventuallyTerminal == status = "pending" ~> status \in Terminal \cup {"deleted"}

\* Unless something is lost on the way, a completed run is finalized and its
\* poller is stopped.
EventuallyFinalized ==
  status = "completed" ~> (finalized_at /\ progress = "stopped") \/ faults > 0

\* A run that was created ends, and what follows its end is done as well.
RunsEnd == EventuallyTerminal /\ EventuallyFinalized

-----------------------------------------------------------------------------
(* What the run implements.                                                *)

Phase == IF status \in NonTerminal THEN "open" ELSE status

Plan == INSTANCE EvaluationPlan
          WITH phase <- Phase,
               due <- scoped \X (evaluator_ids \cap evaluators),
               outcome <- results

\* The abstract plan is implemented: whatever the ticks, the workers and the
\* deletions do, the run completes only when all that is due is judged, once.
ImplementsPlan == Plan!Spec

-----------------------------------------------------------------------------
(* The inductive invariant behind the safety properties.                   *)

\* There is no plan before the run is created and after it is deleted.
PlanLifetime ==
  /\ status \in {"none", "deleted"} => scoped = {}
  /\ status = "none" => evaluator_ids = {}

\* One transaction at a time, on a non-terminal row, with the claim it read.
OneTransaction ==
  /\ \A c, d \in Drivers : InTransaction(c) /\ InTransaction(d) => c = d
  /\ \A d \in Drivers : InTransaction(d) =>
        /\ status \in NonTerminal
        /\ tick[d].pc = "stalled" => status = "processing"
        /\ scoped \subseteq tick[d].ids

\* What a tick counted as done still is, when it commits.
CountIsSafe ==
  \A d \in Drivers : tick[d].pc \in {"counted", "stalled"} =>
    \A m \in scoped \ tick[d].remaining, e \in evaluator_ids \cap evaluators :
      results[<<m, e>>] # "none"

\* The announcements a tick still owes are true of the run.
AnnouncesTruth ==
  /\ \A d \in Drivers :
        /\ tick[d].terminal # "none" => status \in Terminal \cup {"deleted"}
        /\ tick[d].terminal = "success" => status \in {"completed", "deleted"}
        /\ tick[d].terminal # "none" => tick[d].pc \in {"claiming", "sending", "finalizing"}
        /\ tick[d].pc = "finalizing" => tick[d].terminal = "success"
  /\ finalizer # "none" => status \in {"completed", "deleted"}

\* The claim on the root task is held by the transaction that moves the run off
\* PENDING, then by the tick that committed it, then by nobody.
Claims(d) == tick[d].pc = "claiming"
RootTaskClaim ==
  /\ tb_roots <= 1
  /\ \A c, d \in Drivers : Claims(c) /\ Claims(d) => c = d
  /\ \A d \in Drivers : Claims(d) => tb_roots = 0
  /\ status \in {"none", "pending"} =>
        tb_roots = 0 /\ \A d \in Drivers : ~Claims(d)

StallCounting ==
  /\ barren <= stall_count
  /\ stall_count <= barren + 1
  /\ status \in {"none"} \cup NonTerminal => stall_count < MAX_STALLS /\ error_message = "none"
  /\ FailsOnlyAfterBarrenStalls

WorkersInPlan ==
  \A w \in Workers :
    /\ worker[w].pending \subseteq evaluator_ids
    /\ worker[w].pending # {} => worker[w].message # {}
    /\ worker[w].pc = "scoring" <=> worker[w].scoring # {}

AggregatesComplete ==
  /\ finalizer = "stamping" => OkPairs \subseteq aggregated
  /\ finalized_at => status = "completed"
  /\ FinalizedAggregatesAll

IInv ==
  /\ TypeOK
  /\ PlanLifetime
  /\ ResultsWithinPlan
  /\ OneTransaction
  /\ CountIsSafe
  /\ CompletedCoversPlan
  /\ AnnouncesTruth
  /\ StopsOnlyWhenTerminal
  /\ RootTaskClaim
  /\ StallCounting
  /\ WorkersInPlan
  /\ AggregatesComplete
  /\ ScoredUnlessFault
=============================================================================
