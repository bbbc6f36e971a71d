--------------------------- MODULE TimeoutTriggers ---------------------------
(***************************************************************************)
(* The timeout triggers of one session (apps/events).  A beat task         *)
(* enqueues every trigger whose delay has passed since the message it      *)
(* counts from; the enqueued tasks run the action, log it against that     *)
(* message and raise the last timeout when no attempt is left.  What the   *)
(* last timeout fires is in StaticTriggers.                                *)
(***************************************************************************)
EXTENDS Integers

CONSTANTS
  Timeouts,       \* timeout triggers of the chatbot
  FromFirst,      \* those that count from the first message
  EndingTimeouts, \* those whose action may end the conversation, itself or by its pipeline
  Total,          \* total_num_triggers
  TotalFailures,  \* TOTAL_FAILURES
  MaxHumans,      \* bound: human messages of the session
  MaxExtra,       \* bound: times one trigger is enqueued while a task of it is outstanding
  MaxKills        \* bound: tasks that are lost

ASSUME TimeoutCounts ==
  /\ Total \in Nat \ {0} /\ TotalFailures \in Nat \ {0}
  /\ MaxHumans \in Nat /\ MaxExtra \in Nat /\ MaxKills \in Nat
ASSUME TimeoutSubsets == FromFirst \subseteq Timeouts /\ EndingTimeouts \subseteq Timeouts

VARIABLES
  humans,   \* number of human messages
  since,    \* the first message each trigger may count from (config_changed_at)
  silent,   \* triggers whose delay has passed since the last event
  success,  \* logs with status success, by trigger and message
  failure,  \* and with status failure
  allSuccess, allFailure,  \* the same, by message only
  queued,   \* fire_trigger tasks that wait
  running,  \* tasks that have read their message, by trigger and message
  logged,   \* tasks that have written their log
  open,     \* ended_at is empty and the status is not complete
  extra,    \* history: times each trigger was enqueued while outstanding
  lasts,    \* history: last timeouts raised, by trigger and message
  kills

logVars == <<success, failure, allSuccess, allFailure>>
timeoutVars == <<humans, since, silent, logVars, queued, running, logged, open,
                 extra, lasts, kills>>

SessionMessages == 1 .. MaxHumans
NoCounts == [t \in Timeouts |-> [m \in SessionMessages |-> 0]]

TimeoutInit ==
  /\ humans = 0
  /\ since = [t \in Timeouts |-> 1]
  /\ silent = {}
  /\ success = NoCounts /\ failure = NoCounts
  /\ allSuccess = [m \in SessionMessages |-> 0] /\ allFailure = allSuccess
  /\ queued = [t \in Timeouts |-> 0]
  /\ running = NoCounts /\ logged = NoCounts
  /\ open = TRUE
  /\ extra = [t \in Timeouts |-> 0]
  /\ lasts = NoCounts
  /\ kills = 0

-----------------------------------------------------------------------------
\* Timeout triggers.

\* The message a trigger counts from.
Reference(t) == IF t \in FromFirst THEN 1 ELSE humans

\* Mutant: an attempt too many.
OneMoreLeft(successes, failures) == successes <= Total /\ failures < TotalFailures

AttemptsLeft(successes, failures) == successes < Total /\ failures < TotalFailures

\* Mutant: a failure does not count.
OwesSuccess(t) ==
  /\ open /\ humans > 0 /\ t \in silent
  /\ Reference(t) >= since[t] /\ allSuccess[Reference(t)] < Total

\* Mutant: the first message after an edit does not count.
OnlyLater(t) ==
  /\ open /\ humans > 0 /\ t \in silent
  /\ Reference(t) > since[t]
  /\ AttemptsLeft(allSuccess[Reference(t)], allFailure[Reference(t)])

\* timed_out_sessions selects the session for trigger t.  It counts the logs of
\* the message, which are those of all triggers.
TimedOut(t) ==
  /\ open /\ humans > 0 /\ t \in silent
  /\ Reference(t) >= since[t]
  /\ AttemptsLeft(allSuccess[Reference(t)], allFailure[Reference(t)])

Outstanding(t) ==
  queued[t] > 0 \/ \E m \in SessionMessages : running[t][m] + logged[t][m] > 0

\* enqueue_timed_out_events: nothing is written, so the next beat finds the same.
Poll(t) ==
  /\ TimedOut(t)
  /\ Outstanding(t) => extra[t] < MaxExtra /\ \A u \in Timeouts \ {t} : extra[u] = 0
  /\ queued' = [queued EXCEPT ![t] = @ + 1]
  /\ extra' = IF Outstanding(t) THEN [extra EXCEPT ![t] = @ + 1] ELSE extra
  /\ UNCHANGED <<humans, since, silent, logVars, running, logged, open, lasts,
                 kills>>

TimePasses(t) ==
  /\ humans > 0 /\ t \notin silent
  /\ silent' = silent \union {t}
  /\ UNCHANGED <<humans, since, logVars, queued, running, logged, open, extra,
                 lasts, kills>>

\* fire reads the message to count from when it runs, and runs the action; it
\* does not look at the session again.
StartFire(t) ==
  /\ queued[t] > 0
  /\ queued' = [queued EXCEPT ![t] = @ - 1]
  /\ running' = [running EXCEPT ![t][Reference(t)] = @ + 1]
  /\ UNCHANGED <<humans, since, silent, logVars, logged, open, extra, lasts,
                 kills>>

\* The action is done or has failed, perhaps after it has ended the conversation, and
\* is logged; a success starts the delay of every trigger that counts from that
\* message anew.
LogFire(t, m, ok, ends) ==
  /\ running[t][m] > 0 /\ (ends => t \in EndingTimeouts)
  /\ open' = (open /\ ~ends)
  /\ running' = [running EXCEPT ![t][m] = @ - 1]
  /\ logged' = [logged EXCEPT ![t][m] = @ + 1]
  /\ IF ok
     THEN /\ success' = [success EXCEPT ![t][m] = @ + 1]
          /\ allSuccess' = [allSuccess EXCEPT ![m] = @ + 1]
          /\ silent' = {u \in silent : Reference(u) # m}
          /\ UNCHANGED <<failure, allFailure>>
     ELSE /\ failure' = [failure EXCEPT ![t][m] = @ + 1]
          /\ allFailure' = [allFailure EXCEPT ![m] = @ + 1]
          /\ UNCHANGED <<success, allSuccess, silent>>
  /\ UNCHANGED <<humans, since, queued, extra, lasts, kills>>

\* Mutant: failures do not use up a trigger.
OnlySuccesses(t, m) == success[t][m] >= Total

\* not _has_triggers_left, which counts the logs of this trigger alone.
Exhausted(t, m) == ~AttemptsLeft(success[t][m], failure[t][m])

CheckFire(t, m) ==
  /\ logged[t][m] > 0
  /\ logged' = [logged EXCEPT ![t][m] = @ - 1]
  /\ lasts' = IF Exhausted(t, m) THEN [lasts EXCEPT ![t][m] = @ + 1] ELSE lasts
  /\ UNCHANGED <<humans, since, silent, logVars, queued, running, open, extra,
                 kills>>

\* A worker dies: nothing delivers its task again.  It may have acted already.
KillFire(t, m) ==
  /\ kills < MaxKills /\ kills' = kills + 1
  /\ \/ /\ running[t][m] > 0
        /\ running' = [running EXCEPT ![t][m] = @ - 1]
        /\ open' \in {open, open /\ t \notin EndingTimeouts} /\ UNCHANGED logged
     \/ /\ logged[t][m] > 0
        /\ logged' = [logged EXCEPT ![t][m] = @ - 1] /\ UNCHANGED <<running, open>>
  /\ UNCHANGED <<humans, since, silent, logVars, queued, extra, lasts>>

\* A message of the participant; the delay of triggers that count from the
\* latest message starts anew.
HumanMessage ==
  /\ open /\ humans < MaxHumans
  /\ humans' = humans + 1
  /\ silent' = silent \intersect FromFirst
  /\ UNCHANGED <<since, logVars, queued, running, logged, open, extra, lasts,
                 kills>>

\* The conversation ends in another way.
SessionEnds ==
  /\ open /\ open' = FALSE
  /\ UNCHANGED <<humans, since, silent, logVars, queued, running, logged, extra,
                 lasts, kills>>

\* Edits of the trigger do not apply to messages that are there.
Reconfigure(t) ==
  /\ since[t] <= humans
  /\ since' = [since EXCEPT ![t] = humans + 1]
  /\ UNCHANGED <<humans, silent, logVars, queued, running, logged, open, extra,
                 lasts, kills>>

TimeoutStep(t) ==
  \/ StartFire(t)
  \/ \E m \in SessionMessages : (\E ok, ends \in BOOLEAN : LogFire(t, m, ok, ends)) \/ CheckFire(t, m)
TimeoutNext ==
  \/ \E t \in Timeouts :
       \/ Poll(t) \/ TimePasses(t) \/ TimeoutStep(t) \/ Reconfigure(t)
       \/ \E m \in SessionMessages : KillFire(t, m)
  \/ HumanMessage \/ SessionEnds

\* The beat, the workers and time go on.
TimeoutFairness ==
  \A t \in Timeouts :
    WF_timeoutVars(Poll(t)) /\ WF_timeoutVars(TimePasses(t)) /\ WF_timeoutVars(TimeoutStep(t))

TimeoutSpec == TimeoutInit /\ [][TimeoutNext]_timeoutVars

-----------------------------------------------------------------------------
\* Counts, triggers and events have their types.
TimeoutTypeOK ==
  /\ humans \in 0 .. MaxHumans
  /\ since \in [Timeouts -> 1 .. MaxHumans + 1]
  /\ silent \subseteq Timeouts
  /\ \A count \in {success, failure, running, logged, lasts} :
       count \in [Timeouts -> [SessionMessages -> Nat]]
  /\ allSuccess \in [SessionMessages -> Nat] /\ allFailure \in [SessionMessages -> Nat]
  /\ queued \in [Timeouts -> Nat] /\ extra \in [Timeouts -> Nat]
  /\ open \in BOOLEAN
  /\ kills \in 0 .. MaxKills

\* A trigger acts and logs it for a message at most total_num_triggers times, and once more
\* for each time the beat enqueued it while a task of it was outstanding
\* (events/tasks.py:60): nothing else adds to it, neither a message that comes
\* while a task waits, nor another trigger, nor a lost task.
ActsAtMost ==
  \A t \in Timeouts, m \in SessionMessages : success[t][m] <= Total + extra[t]

\* The last timeout of a trigger and message is raised once, and once more for
\* each such time (events/models.py:385).
LastTimeoutAtMost ==
  \A t \in Timeouts, m \in SessionMessages : lasts[t][m] <= 1 + extra[t]

\* It is not forgotten either: a trigger that has used up its attempts has raised
\* it or is about to, unless the task was lost.
LastTimeoutRaised ==
  kills = 0 => \A t \in Timeouts, m \in SessionMessages :
    ~AttemptsLeft(success[t][m], failure[t][m]) => lasts[t][m] > 0 \/ logged[t][m] > 0

\* A conversation that falls silent is not left alone: until there is another
\* message, the conversation ends or the trigger is edited, triggers act until
\* their attempts are used up, unless tasks are lost (events/models.py:300).
SilenceHandled ==
  \A m \in SessionMessages :
    humans = m /\ open /\ kills = 0 ~>
      \/ humans # m \/ ~open \/ kills > 0
      \/ \A t \in Timeouts :
           \/ since[t] > Reference(t)
           \/ ~AttemptsLeft(allSuccess[Reference(t)], allFailure[Reference(t)])
=============================================================================
