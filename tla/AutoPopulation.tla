---------------------------- MODULE AutoPopulation ----------------------------
(***************************************************************************)
(* A rule that appends new sessions to an evaluation dataset               *)
(* (apps/evaluations/auto_population.py): beat tasks ingest under the row  *)
(* lock of the rule, a delta run follows the commit, and failures are      *)
(* counted outside the lock until the rule is disabled.                    *)
(***************************************************************************)
EXTENDS Integers

CONSTANTS
  Ticks,          \* ids of auto_populate_eval_datasets tasks
  NewSessions,    \* sessions the filter of the rule matches
  Threshold,      \* AUTO_DISABLE_FAILURE_THRESHOLD
  MaxToggles,     \* bound: times a user toggles the rule
  NoTick

ASSUME RuleConstants == Threshold \in Nat \ {0} /\ MaxToggles \in Nat /\ NoTick \notin Ticks

VARIABLES
  rule,      \* is_enabled and consecutive_failure_count
  rowLock,   \* the tick that has locked the rule
  dataset,   \* sessions in the dataset
  tick,      \* tasks: progress, what they append and the count they have read
  deltas,    \* number of delta runs each session is in
  toggle,    \* a toggle that has read the rule
  toggles,
  recorded,  \* history: failures recorded since the last success or since a user enabled the rule
  disabledBy,
  raced,     \* history: a count was written that was read before another write
  byHand,    \* history: sessions a user has added
  dropped    \* history: sessions whose delta run was not created

toggleVars == <<toggle, toggles>>
ruleHistory == <<recorded, disabledBy, raced>>
ruleVars == <<rule, rowLock, dataset, tick, deltas, toggleVars, ruleHistory, byHand, dropped>>

NotRead == -1

RuleInit ==
  /\ rule = [enabled |-> TRUE, failures |-> 0]
  /\ rowLock = NoTick
  /\ dataset = {} /\ dropped = {} /\ byHand = {}
  /\ tick = [k \in Ticks |-> [pc |-> "idle", append |-> {}, failures |-> 0]]
  /\ deltas = [s \in NewSessions |-> 0]
  /\ toggle = [enable |-> FALSE, failures |-> NotRead] /\ toggles = 0
  /\ recorded = 0 /\ disabledBy = "nobody" /\ raced = FALSE

TickMoves(k, pc) == tick' = [tick EXCEPT ![k].pc = pc]

-----------------------------------------------------------------------------
\* Ticks.

\* The tick has listed the rule while it was enabled.
ListRule(k) ==
  /\ tick[k].pc = "idle" /\ rule.enabled
  /\ TickMoves(k, "listed")
  /\ UNCHANGED <<rule, rowLock, dataset, deltas, toggleVars, ruleHistory, byHand, dropped>>

\* select_for_update(skip_locked=True): a locked or disabled rule is passed over;
\* otherwise the sessions that are not in the dataset are scanned.
LockRule(k) ==
  /\ tick[k].pc = "listed"
  /\ IF rowLock = NoTick /\ rule.enabled
     THEN /\ rowLock' = k
          /\ \E found \in SUBSET (NewSessions \ dataset) :
               tick' = [tick EXCEPT ![k].pc = "ingesting", ![k].append = found]
     ELSE TickMoves(k, "done") /\ UNCHANGED rowLock
  /\ UNCHANGED <<rule, dataset, deltas, toggleVars, ruleHistory, byHand, dropped>>

\* Mutant: a tick that finds nothing leaves the count.
KeptIfNothing(appended) == IF appended = {} THEN rule.failures ELSE 0

\* _ingest_rule resets the count, also when there is nothing new.
FailuresAfter(appended) == 0

\* Mutant: what was scanned is appended.
AllFound(k) == tick[k].append

\* _partition_new_in_batch looks again, under the lock of the dataset.
Appended(k) == tick[k].append \ dataset

Ingest(k) ==
  /\ tick[k].pc = "ingesting"
  /\ rowLock' = NoTick
  /\ dataset' = dataset \union Appended(k)
  /\ rule' = [rule EXCEPT !.failures = FailuresAfter(Appended(k))]
  /\ recorded' = 0
  /\ tick' = [tick EXCEPT ![k].append = Appended(k),
                          ![k].pc = IF Appended(k) = {} THEN "done" ELSE "committed"]
  /\ UNCHANGED <<deltas, toggleVars, disabledBy, raced, byHand, dropped>>

\* The transaction is rolled back.
IngestFails(k) ==
  /\ tick[k].pc = "ingesting"
  /\ rowLock' = NoTick
  /\ TickMoves(k, "failed")
  /\ UNCHANGED <<rule, dataset, deltas, toggleVars, ruleHistory, byHand, dropped>>

\* transaction.on_commit: the delta run of a config covers what was appended.
CreateDelta(k) ==
  /\ tick[k].pc = "committed"
  /\ deltas' = [s \in NewSessions |-> deltas[s] + (IF s \in tick[k].append THEN 1 ELSE 0)]
  /\ TickMoves(k, "done")
  /\ UNCHANGED <<rule, rowLock, dataset, toggleVars, ruleHistory, byHand, dropped>>

\* The callback raises inside the try of the tick: what was committed stays, and
\* is recorded as a failure.
DeltaFails(k) ==
  /\ tick[k].pc = "committed"
  /\ dropped' = dropped \union tick[k].append
  /\ TickMoves(k, "failed")
  /\ UNCHANGED <<rule, rowLock, dataset, deltas, toggleVars, ruleHistory, byHand>>

\* The worker dies; its transaction is rolled back.
TickDies(k) ==
  /\ tick[k].pc \in {"listed", "ingesting", "committed", "failed", "counting"}
  /\ rowLock' = IF rowLock = k THEN NoTick ELSE rowLock
  /\ dropped' = IF tick[k].pc = "committed" THEN dropped \union tick[k].append ELSE dropped
  /\ TickMoves(k, "done")
  /\ UNCHANGED <<rule, dataset, deltas, toggleVars, ruleHistory, byHand>>

\* A user adds a session to the dataset; no delta run follows.
AddByHand(s) ==
  /\ s \notin dataset
  /\ dataset' = dataset \union {s} /\ byHand' = byHand \union {s}
  /\ UNCHANGED <<rule, rowLock, tick, deltas, toggleVars, ruleHistory, dropped>>

-----------------------------------------------------------------------------
\* Failures.

\* The rule is fetched again, without a lock.
FetchRule(k) ==
  /\ tick[k].pc = "failed"
  /\ tick' = [tick EXCEPT ![k].pc = "counting", ![k].failures = rule.failures]
  /\ UNCHANGED <<rule, rowLock, dataset, deltas, toggleVars, ruleHistory, byHand, dropped>>

\* Mutant: one failure too early.
TooEarly(failures) == failures >= Threshold - 1

Disables(failures) == failures >= Threshold

\* _handle_rule_failure; is_enabled is saved only when the rule is disabled.  The
\* update waits for the row.
RecordFailure(k) ==
  LET failures == tick[k].failures + 1
  IN /\ tick[k].pc = "counting" /\ rowLock = NoTick
     /\ rule' = [enabled |-> rule.enabled /\ ~Disables(failures), failures |-> failures]
     /\ recorded' = recorded + 1
     /\ disabledBy' = IF Disables(failures) THEN "failures" ELSE disabledBy
     /\ raced' = (raced \/ tick[k].failures # rule.failures)
     /\ TickMoves(k, "done")
     /\ UNCHANGED <<rowLock, dataset, deltas, toggleVars, byHand, dropped>>

\* toggle_auto_population_rule reads the rule and writes back the opposite.
ReadToggle ==
  /\ toggle.failures = NotRead /\ toggles < MaxToggles
  /\ toggles' = toggles + 1
  /\ toggle' = [enable |-> ~rule.enabled, failures |-> IF rule.enabled THEN rule.failures ELSE 0]
  /\ UNCHANGED <<rule, rowLock, dataset, tick, deltas, ruleHistory, byHand, dropped>>

SaveToggle ==
  /\ toggle.failures # NotRead /\ rowLock = NoTick
  /\ rule' = [enabled |-> toggle.enable, failures |-> toggle.failures]
  /\ recorded' = IF toggle.enable THEN 0 ELSE recorded
  /\ disabledBy' = IF toggle.enable THEN "nobody" ELSE "user"
  /\ raced' = (raced \/ (~toggle.enable /\ toggle.failures # rule.failures))
  /\ toggle' = [enable |-> FALSE, failures |-> NotRead]
  /\ UNCHANGED <<rowLock, dataset, tick, deltas, toggles, byHand, dropped>>

RuleNext ==
  \/ \E k \in Ticks :
       \/ ListRule(k) \/ LockRule(k) \/ Ingest(k) \/ IngestFails(k) \/ CreateDelta(k)
       \/ DeltaFails(k) \/ TickDies(k) \/ FetchRule(k) \/ RecordFailure(k)
  \/ (\E s \in NewSessions : AddByHand(s)) \/ ReadToggle \/ SaveToggle

RuleSpec == RuleInit /\ [][RuleNext]_ruleVars

-----------------------------------------------------------------------------
\* What a rule appends to the dataset is evaluated by one delta run, and what a
\* user adds by none: also when two ticks and a user find the same session; only a
\* callback that fails or dies after the commit drops it
\* (evaluations/auto_population.py:110).
AppendedEvaluatedOnce ==
  \A s \in NewSessions :
    LET awaited == \E k \in Ticks : tick[k].pc = "committed" /\ s \in tick[k].append
    IN IF s \in dataset \ (byHand \union dropped)
       THEN deltas[s] = (IF awaited THEN 0 ELSE 1)
       ELSE deltas[s] = 0 /\ ~awaited

\* The rule is disabled by Threshold failures in a row and not by fewer, although
\* ticks fail, succeed and are counted in any order; except that a count was
\* written that had been read before another one (evaluations/auto_population.py:37).
DisabledByFailures ==
  ~raced =>
    /\ disabledBy # "user" => rule.failures = recorded
    /\ disabledBy = "failures" => recorded >= Threshold
    /\ rule.enabled => recorded < Threshold

\* Nothing a rule appended is lost or evaluated twice, and it is switched off by the
\* failures it really had in a row.
RuleKeepsCount == AppendedEvaluatedOnce /\ DisabledByFailures
=============================================================================
