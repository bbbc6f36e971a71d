-------------------------- MODULE ScheduledMessages --------------------------
(***************************************************************************)
(* The scheduled messages (reminders) of apps/events.                      *)
(*                                                                         *)
(* A beat task polls every minute for the messages that are due.  It loads *)
(* all of them in one query and triggers them one after the other, which   *)
(* takes a bot response each; nothing locks the rows, and every trigger    *)
(* ends with a save of the whole row as it was loaded, except for what the *)
(* trigger itself changes.  A failed trigger is tried again by a task of   *)
(* its own.  Meanwhile the bot's tools, which also load and save a whole   *)
(* row, the API and the pages may change, cancel or delete the message.    *)
(***************************************************************************)
EXTENDS Integers, FiniteSets

CONSTANTS
  Messages,     \* ids of the ScheduledMessage rows
  Workers,      \* Celery workers that run polls and retries
  Tools,        \* bot turns that use the reminder tools
  Expected,     \* expected_trigger_count: the repetitions, or 1
  Ending,       \* the messages that have an end_date
  MaxEdits,     \* bound: how often messages are cancelled, moved or deleted
  MaxDeaths,    \* bound: how often a worker is killed
  MaxTriggers   \* bound: the total_triggers a message is triggered at

ASSUME ExpectedAssumption == Expected \in Nat \ {0}
ASSUME NamesAssumption == "none" \notin Messages
ASSUME BoundsAssumption ==
  MaxEdits \in Nat /\ MaxDeaths \in Nat /\ MaxTriggers \in Nat

VARIABLES
  row,      \* per message: the committed ScheduledMessage row
  ended,    \* the messages whose end_date has passed
  worker,   \* per worker: the poll or retry it executes
  tool,     \* per bot turn: the row a tool has loaded and will save
  attempt,  \* the ScheduledMessageAttempt rows
  retries,  \* per message and attempt number: retry tasks in the queue
  tries,    \* history: per message, how often it was triggered
  sent,     \* history: per message, how often the participant received it
  edits,    \* history: number of cancellations, moves and deletions
  deaths,   \* history: number of workers killed
  overlap   \* history: a row was loaded or changed between a load and its save

scheduleVars == <<row, ended, worker, tool, attempt, retries, tries, sent, edits, deaths,
          overlap>>

\* The row of a message that has not been created, or that was deleted.
NoRow == [there |-> FALSE, complete |-> FALSE, cancelled |-> FALSE, due |-> FALSE,
          triggers |-> 0]

Row == [there: BOOLEAN,
        complete: BOOLEAN,    \* is_complete
        cancelled: BOOLEAN,   \* cancelled_at is set
        due: BOOLEAN,         \* next_trigger_date has passed
        triggers: Nat]        \* total_triggers

\* Attempt numbers of safe_trigger: the first one and the retries.
RetryNumbers == {2, 3}
AttemptNumbers == {1} \cup RetryNumbers

Worker == [pc: {"idle", "choosing", "sending", "saving", "recording"},
           todo: SUBSET Messages,        \* loaded by the poll, not yet triggered
           seen: [Messages -> Row],      \* the rows as they were loaded
           msg: Messages \cup {"none"},  \* the message being triggered
           number: AttemptNumbers,
           outcome: {"sent", "skipped", "failed"}]

IdleWorker == [pc |-> "idle", todo |-> {}, seen |-> [m \in Messages |-> NoRow],
               msg |-> "none", number |-> 1, outcome |-> "sent"]

Tool == [msg: Messages \cup {"none"}, op: {"cancel", "move"}, seen: Row]

IdleTool == [msg |-> "none", op |-> "cancel", seen |-> NoRow]

Attempt == [msg: Messages, trigger: Nat, number: AttemptNumbers,
            result: {"success", "failure"}]

\* A worker, or a tool, has loaded the row of m and not saved it yet.
WorkerHolds(w, m) ==
  \/ m \in worker[w].todo
  \/ worker[w].pc \in {"sending", "saving"} /\ worker[w].msg = m
ToolHolds(t, m) == tool[t].msg = m
Held(m) == (\E w \in Workers : WorkerHolds(w, m)) \/ (\E t \in Tools : ToolHolds(t, m))

SchedulesTypeOK ==
  /\ row \in [Messages -> Row]
  /\ ended \subseteq Ending
  /\ worker \in [Workers -> Worker]
  /\ tool \in [Tools -> Tool]
  /\ attempt \subseteq Attempt
  /\ retries \in [Messages \X RetryNumbers -> Nat]
  /\ tries \in [Messages -> Nat]
  /\ sent \in [Messages -> Nat]
  /\ edits \in Nat
  /\ deaths \in Nat
  /\ overlap \in BOOLEAN

ScheduleStart(rows) ==
  /\ row = rows
  /\ ended = {}
  /\ worker = [w \in Workers |-> IdleWorker]
  /\ tool = [t \in Tools |-> IdleTool]
  /\ attempt = {}
  /\ retries = [task \in Messages \X RetryNumbers |-> 0]
  /\ tries = [m \in Messages |-> 0]
  /\ sent = [m \in Messages |-> 0]
  /\ edits = 0
  /\ deaths = 0
  /\ overlap = FALSE

ScheduleInit == ScheduleStart([m \in Messages |-> [NoRow EXCEPT !.there = TRUE]])

-----------------------------------------------------------------------------
(* Time.                                                                   *)

\* next_trigger_date passes.
FallsDue(m) ==
  /\ row[m].there /\ ~row[m].due
  /\ row' = [row EXCEPT ![m].due = TRUE]
  /\ UNCHANGED <<ended, worker, tool, attempt, retries, tries, sent, edits, deaths,
                 overlap>>

EndDatePasses(m) ==
  /\ m \in Ending \ ended
  /\ ended' = ended \cup {m}
  /\ UNCHANGED <<row, worker, tool, attempt, retries, tries, sent, edits, deaths,
                 overlap>>

-----------------------------------------------------------------------------
(* poll_scheduled_messages and retry_scheduled_message.                    *)

\* Mutant: complete messages are not left out.
AllDue == {m \in Messages : row[m].there /\ ~row[m].cancelled /\ row[m].due}
\* Mutant: only the messages that were never triggered are due.
FirstDue == {m \in Messages : /\ row[m].there /\ ~row[m].complete /\ ~row[m].cancelled
                              /\ row[m].due /\ row[m].triggers = 0}
\* get_messages_to_fire
MessagesToFire ==
  {m \in Messages : row[m].there /\ ~row[m].complete /\ ~row[m].cancelled /\ row[m].due}

PollStarts(w) ==
  LET due == MessagesToFire
  IN  /\ worker[w].pc = "idle"
      /\ due # {}
      /\ \A m \in due : row[m].triggers < MaxTriggers
      /\ worker' = [worker EXCEPT ![w] =
                      [IdleWorker EXCEPT
                         !.pc = "choosing", !.todo = due,
                         !.seen = [m \in Messages |-> IF m \in due THEN row[m] ELSE NoRow]]]
      /\ overlap' = (overlap \/ \E m \in due : Held(m))
      /\ UNCHANGED <<row, ended, tool, attempt, retries, tries, sent, edits, deaths>>

\* The loop goes on with the next message, whatever became of it meanwhile.
TakesNext(w, m) ==
  /\ worker[w].pc = "choosing"
  /\ m \in worker[w].todo
  /\ worker' = [worker EXCEPT ![w] =
                  [@ EXCEPT !.pc = "sending", !.todo = worker[w].todo \ {m}, !.msg = m]]
  /\ UNCHANGED <<row, ended, tool, attempt, retries, tries, sent, edits, deaths, overlap>>

\* A retry neither looks at is_complete nor at cancelled_at.
RetryStarts(w, m, n) ==
  /\ worker[w].pc = "idle"
  /\ retries[<<m, n>>] > 0
  /\ retries' = [retries EXCEPT ![<<m, n>>] = retries[<<m, n>>] - 1]
  /\ \/ /\ row[m].there
        /\ row[m].triggers < MaxTriggers
        /\ worker' = [worker EXCEPT ![w] =
                        [IdleWorker EXCEPT !.pc = "sending", !.msg = m, !.number = n,
                           !.seen = [x \in Messages |-> IF x = m THEN row[m] ELSE NoRow]]]
        /\ overlap' = (overlap \/ Held(m))
     \/ ~row[m].there /\ UNCHANGED <<worker, overlap>>
  /\ UNCHANGED <<row, ended, tool, attempt, tries, sent, edits, deaths>>

-----------------------------------------------------------------------------
(* safe_trigger and _trigger.                                              *)

\* The bot response reaches the participant, or there is no session or an
\* enabled channel to send it to, or something raises an exception.
Sends(w, outcome) ==
  LET m == worker[w].msg
  IN  /\ worker[w].pc = "sending"
      /\ worker' = [worker EXCEPT ![w] = [@ EXCEPT !.pc = "saving", !.outcome = outcome]]
      /\ tries' = [tries EXCEPT ![m] = tries[m] + 1]
      /\ sent' = [sent EXCEPT ![m] = IF outcome = "sent" THEN sent[m] + 1 ELSE sent[m]]
      /\ UNCHANGED <<row, ended, tool, attempt, retries, edits, deaths, overlap>>

\* Mutant: the last repetition is not waited for.
DoneEarly(m, triggers) == triggers + 1 >= Expected \/ m \in ended
\* _should_mark_complete
Done(m, triggers) == triggers >= Expected \/ m \in ended

\* Mutant: total_triggers is incremented by the caller, too.
CountsTwice(w, seen) == seen.triggers + 2
\* Mutant: total_triggers is not incremented in a finally block.
CountsSuccesses(w, seen) == IF worker[w].outcome = "failed" THEN seen.triggers
                                                             ELSE seen.triggers + 1
\* The total_triggers to be saved.
Counted(w, seen) == seen.triggers + 1

\* The whole row is saved, as it was loaded except for what a trigger changes.  A
\* row that was deleted meanwhile is inserted again.
Saves(w) ==
  LET m == worker[w].msg
      seen == worker[w].seen[m]
      triggers == Counted(w, seen)
  IN  /\ worker[w].pc = "saving"
      /\ row' = [row EXCEPT ![m] =
                   [there |-> TRUE,
                    complete |-> seen.complete \/ Done(m, triggers),
                    cancelled |-> seen.cancelled,
                    due |-> seen.due /\ Done(m, triggers),
                    triggers |-> triggers]]
      /\ worker' = [worker EXCEPT ![w] = [@ EXCEPT !.pc = "recording"]]
      /\ UNCHANGED <<ended, tool, attempt, retries, tries, sent, edits, deaths, overlap>>

\* Whether a failed attempt is retried.
Retries(n) == n < 3
\* Mutant: the number is incremented twice.
NumberAfterNext(n) == n + 2
\* The attempt number of the retry.
NextAttemptNumber(n) == n + 1

\* The task goes on: a poll with its next message, a retry has ended.
Continues(w) ==
  worker' = [worker EXCEPT ![w] =
               IF worker[w].todo = {} THEN IdleWorker
               ELSE [IdleWorker EXCEPT !.pc = "choosing", !.todo = worker[w].todo,
                       !.seen = [worker[w].seen EXCEPT ![worker[w].msg] = NoRow]]]

NewAttempt(w) ==
  [msg |-> worker[w].msg,
   trigger |-> worker[w].seen[worker[w].msg].triggers,
   number |-> worker[w].number,
   result |-> IF worker[w].outcome = "failed" THEN "failure" ELSE "success"]

\* The attempt can be inserted: the message exists, and no other attempt has the
\* same message, trigger number and attempt number.
Recordable(a) ==
  /\ row[a.msg].there
  /\ \A b \in attempt : b.msg = a.msg /\ b.trigger = a.trigger => b.number # a.number

Records(w) ==
  LET new == NewAttempt(w)
      n == new.number
  IN  /\ worker[w].pc = "recording"
      /\ Recordable(new)
      /\ attempt' = attempt \cup {new}
      /\ retries' = IF new.result = "failure" /\ Retries(n)
                    THEN [retries EXCEPT ![<<new.msg, NextAttemptNumber(n)>>] = @ + 1]
                    ELSE retries
      /\ Continues(w)
      /\ UNCHANGED <<row, ended, tool, tries, sent, edits, deaths, overlap>>

\* IntegrityError, in the exception handler as well: the task is over.
RecordFails(w) ==
  /\ worker[w].pc = "recording"
  /\ ~Recordable(NewAttempt(w))
  /\ worker' = [worker EXCEPT ![w] = IdleWorker]
  /\ UNCHANGED <<row, ended, tool, attempt, retries, tries, sent, edits, deaths, overlap>>

\* The worker is killed; its task is not delivered again.
WorkerDies(w) ==
  /\ worker[w].pc # "idle"
  /\ deaths < MaxDeaths
  /\ deaths' = deaths + 1
  /\ worker' = [worker EXCEPT ![w] = IdleWorker]
  /\ UNCHANGED <<row, ended, tool, attempt, retries, tries, sent, edits, overlap>>

-----------------------------------------------------------------------------
(* Changes from elsewhere.                                                 *)

Edits(m) ==
  /\ row[m].there
  /\ edits < MaxEdits
  /\ edits' = edits + 1
  /\ overlap' = (overlap \/ Held(m))

\* DeleteReminderTool or MoveScheduledMessageDateTool loads the row.
ToolLoads(t, m, op) ==
  /\ tool[t].msg = "none"
  /\ Edits(m)
  /\ tool' = [tool EXCEPT ![t] = [msg |-> m, op |-> op, seen |-> row[m]]]
  /\ UNCHANGED <<row, ended, worker, attempt, retries, tries, sent, deaths>>

\* It saves the whole row.
ToolSaves(t, due) ==
  LET seen == tool[t].seen
  IN  /\ tool[t].msg # "none"
      /\ row' = [row EXCEPT ![tool[t].msg] =
                   IF tool[t].op = "cancel" THEN [seen EXCEPT !.cancelled = TRUE]
                                            ELSE [seen EXCEPT !.due = due]]
      /\ tool' = [tool EXCEPT ![t] = IdleTool]
      /\ UNCHANGED <<ended, worker, attempt, retries, tries, sent, edits, deaths, overlap>>

\* The API cancels by an update of that column.
ApiCancels(m) ==
  /\ Edits(m)
  /\ row' = [row EXCEPT ![m].cancelled = TRUE]
  /\ UNCHANGED <<ended, worker, tool, attempt, retries, tries, sent, deaths>>

\* The API, or a change of the event action, sets next_trigger_date alone.
Reschedules(m, due) ==
  /\ Edits(m)
  /\ row' = [row EXCEPT ![m].due = due]
  /\ UNCHANGED <<ended, worker, tool, attempt, retries, tries, sent, deaths>>

\* Experiment.archive deletes the messages, and with them their attempts.
Archives(m) ==
  /\ Edits(m)
  /\ row' = [row EXCEPT ![m] = NoRow]
  /\ attempt' = {a \in attempt : a.msg # m}
  /\ UNCHANGED <<ended, worker, tool, retries, tries, sent, deaths>>

-----------------------------------------------------------------------------
WorkerStep(w) ==
  \/ \E m \in Messages : TakesNext(w, m)
  \/ \E outcome \in {"sent", "skipped", "failed"} : Sends(w, outcome)
  \/ Saves(w)
  \/ Records(w)
  \/ RecordFails(w)

Edit ==
  \E m \in Messages :
    \/ \E t \in Tools, op \in {"cancel", "move"} : ToolLoads(t, m, op)
    \/ ApiCancels(m)
    \/ \E due \in BOOLEAN : Reschedules(m, due)
    \/ Archives(m)

ScheduleNext ==
  \/ \E m \in Messages : FallsDue(m) \/ EndDatePasses(m)
  \/ \E w \in Workers :
       \/ PollStarts(w)
       \/ \E m \in Messages, n \in RetryNumbers : RetryStarts(w, m, n)
       \/ WorkerStep(w)
       \/ WorkerDies(w)
  \/ \E t \in Tools, due \in BOOLEAN : ToolSaves(t, due)
  \/ Edit

ScheduleSpec == ScheduleInit /\ [][ScheduleNext]_scheduleVars

\* Time goes by, the beat task polls every minute, and a worker that executes a
\* task goes on with it.
ScheduleFairness ==
  /\ \A m \in Messages : WF_scheduleVars(FallsDue(m))
  /\ \A w \in Workers : WF_scheduleVars(PollStarts(w)) /\ WF_scheduleVars(WorkerStep(w))

FairScheduleSpec == ScheduleSpec /\ ScheduleFairness

-----------------------------------------------------------------------------
(* Properties.                                                             *)

\* A message is complete only after it was triggered as often as it should be, or
\* after its end date, however stale the rows are that workers and tools save.
CompletedWasTried ==
  \A m \in Messages : row[m].complete => tries[m] >= Expected \/ m \in ended

\* Why CompletedWasTried holds: a loaded or committed row never counts more
\* triggers than there were, and is complete for a reason that stays.
Enough(m) == tries[m] >= Expected \/ m \in ended
Backed(r, m) == r.triggers <= tries[m] /\ (r.complete => Enough(m))

RowsBacked == \A m \in Messages : Backed(row[m], m)
SeenBacked == \A w \in Workers, m \in Messages : Backed(worker[w].seen[m], m)
ToolsBacked == \A t \in Tools : tool[t].msg # "none" => Backed(tool[t].seen, tool[t].msg)

\* A worker that has a response sent, or failed, still has to count that trigger.
TriggersHaveMessages ==
  \A w \in Workers : worker[w].pc \in {"sending", "saving", "recording"} => worker[w].msg # "none"
SavingIsCounted ==
  \A w \in Workers :
    worker[w].pc = "saving" => worker[w].seen[worker[w].msg].triggers < tries[worker[w].msg]

\* The inductive invariant: no sequence of stale saves counts a trigger that did
\* not happen.
ScheduleInv ==
  /\ SchedulesTypeOK
  /\ RowsBacked
  /\ SeenBacked
  /\ ToolsBacked
  /\ TriggersHaveMessages
  /\ SavingIsCounted

\* Unless rows are loaded or changed between a load and its save, an attempt after
\* the first one follows a failed one of an earlier trigger with the number before
\* it, although other triggers and retries of the message come between the two.
AttemptsInChains ==
  ~overlap =>
    \A a \in attempt :
      a.number > 1 => \E b \in attempt : /\ b.msg = a.msg /\ b.number = a.number - 1
                                         /\ b.result = "failure" /\ b.trigger < a.trigger

\* Unless rows are loaded or changed between a load and its save, or a worker is
\* killed, the participant never receives a message more often than it repeats,
\* although retries of failed triggers go on after the message is complete.
NeverTooMany ==
  ~overlap /\ deaths = 0 => \A m \in Messages : sent[m] <= Expected

\* Under the same condition, total_triggers is the number of recorded attempts, so
\* the numbers of two attempts are never the same.
TriggersRecorded ==
  ~overlap /\ deaths = 0 =>
    \A m \in Messages :
      row[m].there /\ (\A w \in Workers : worker[w].msg # m) =>
        row[m].triggers = Cardinality({a \in attempt : a.msg = m})

\* Every message that is neither cancelled nor deleted is complete one day and stays
\* so, however often it fails and whatever stale rows are saved.
Completes ==
  \A m \in Messages : <>[](row[m].complete \/ row[m].cancelled \/ ~row[m].there)

\* What the tool answers (chat/agent/tools.py:375): "The reminder has been
\* successfully deleted."
CancelledForGood ==
  [][\A m \in Messages :
       row[m].there /\ row[m].cancelled => row'[m].cancelled \/ ~row'[m].there]_scheduleVars

\* Triggers, attempts and what the participant receives tally.
TriggersTally == NeverTooMany /\ TriggersRecorded /\ AttemptsInChains
=============================================================================
