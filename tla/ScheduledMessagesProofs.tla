----------------------- MODULE ScheduledMessagesProofs -----------------------
(***************************************************************************)
(* Proofs about ScheduledMessages, for any number of messages, workers,    *)
(* tools, edits and crashes.                                               *)
(*                                                                         *)
(* First, no sequence of polls, retries, tools, deletions and crashes, all *)
(* of which save rows they loaded long before, completes a message that    *)
(* was not triggered often enough.  The invariant is about every copy of a *)
(* row: the committed one and those that workers and tools have loaded.    *)
(*                                                                         *)
(* Second, while rows are not loaded or changed between a load and its     *)
(* save, triggers, attempts and what the participant receives tally.  The  *)
(* invariants are that a row has one holder, who knows it as it is, that   *)
(* attempts follow each other, and that each chain of attempts has its     *)
(* share of what may be sent.                                              *)
(***************************************************************************)
EXTENDS ScheduledMessages, FiniteSetTheorems, TLAPS

USE ExpectedAssumption, NamesAssumption, BoundsAssumption

-----------------------------------------------------------------------------
(* Facts about rows and records.                                           *)

\* The empty row is a row, and it is backed whatever happened.
LEMMA EmptyRow ==
  ASSUME SchedulesTypeOK
  PROVE  NoRow \in Row /\ \A m \in Messages : Backed(NoRow, m)
BY DEF NoRow, Row, Backed, SchedulesTypeOK

LEMMA IdleTypes == IdleWorker \in Worker /\ IdleTool \in Tool
BY DEF IdleWorker, IdleTool, NoRow, Row, Worker, Tool, AttemptNumbers, RetryNumbers

\* Triggers and end dates only add up: what backed a row keeps backing it.
LEMMA StillBacked ==
  ASSUME SchedulesTypeOK, NEW r \in Row, NEW m \in Messages, Backed(r, m),
         tries' \in [Messages -> Nat], tries'[m] >= tries[m], ended \subseteq ended'
  PROVE  Backed(r, m)'
BY DEF Backed, Enough, SchedulesTypeOK, Row

\* A step that leaves the tools and their rows alone keeps ToolsBacked.
LEMMA ToolsKept ==
  ASSUME SchedulesTypeOK, ToolsBacked, UNCHANGED tool, ended \subseteq ended',
         tries' \in [Messages -> Nat], \A m \in Messages : tries'[m] >= tries[m]
  PROVE  ToolsBacked'
<1> SUFFICES ASSUME NEW t \in Tools, tool[t].msg # "none"
             PROVE  Backed(tool[t].seen, tool[t].msg)'
  BY DEF ToolsBacked
<1>1. tool[t].msg \in Messages /\ tool[t].seen \in Row
  BY DEF SchedulesTypeOK, Tool
<1>2. Backed(tool[t].seen, tool[t].msg)
  BY DEF ToolsBacked
<1> QED
  BY <1>1, <1>2 DEF Backed, Enough, SchedulesTypeOK, Row

\* The same for the committed rows.
LEMMA RowsKept ==
  ASSUME SchedulesTypeOK, RowsBacked, UNCHANGED row, ended \subseteq ended',
         tries' \in [Messages -> Nat], \A m \in Messages : tries'[m] >= tries[m]
  PROVE  RowsBacked'
BY DEF RowsBacked, Backed, Enough, SchedulesTypeOK, Row

\* The same for the rows that the workers have loaded.
LEMMA WorkersKept ==
  ASSUME ScheduleInv, UNCHANGED worker, ended \subseteq ended',
         tries' \in [Messages -> Nat], \A m \in Messages : tries'[m] >= tries[m]
  PROVE  SeenBacked' /\ TriggersHaveMessages' /\ SavingIsCounted'
<1> USE DEF ScheduleInv
<1>1. SeenBacked'
  BY DEF SeenBacked, Backed, Enough, SchedulesTypeOK, Row, Worker
<1>2. TriggersHaveMessages'
  BY DEF TriggersHaveMessages
<1>3. SavingIsCounted'
  <2> SUFFICES ASSUME NEW w \in Workers, worker[w].pc = "saving"
               PROVE  worker[w].seen[worker[w].msg].triggers < tries'[worker[w].msg]
    BY DEF SavingIsCounted
  <2>1. worker[w].msg \in Messages
    BY DEF TriggersHaveMessages, SchedulesTypeOK, Worker
  <2>2. worker[w].seen[worker[w].msg].triggers \in Nat
    BY <2>1 DEF SchedulesTypeOK, Worker, Row
  <2>3. worker[w].seen[worker[w].msg].triggers < tries[worker[w].msg]
    BY DEF SavingIsCounted
  <2> QED
    BY <2>1, <2>2, <2>3 DEF SchedulesTypeOK
<1> QED
  BY <1>1, <1>2, <1>3

\* One worker changes to a state that is in order: the others do not matter.
LEMMA WorkerChanges ==
  ASSUME ScheduleInv, NEW w \in Workers, NEW new \in Worker,
         worker' = [worker EXCEPT ![w] = new],
         UNCHANGED <<tries, ended>>,
         \A m \in Messages : Backed(new.seen[m], m),
         new.pc \in {"sending", "saving", "recording"} => new.msg # "none",
         new.pc = "saving" => new.seen[new.msg].triggers < tries[new.msg]
  PROVE  /\ worker' \in [Workers -> Worker]
         /\ SeenBacked' /\ TriggersHaveMessages' /\ SavingIsCounted'
<1> USE DEF ScheduleInv
<1>1. worker' \in [Workers -> Worker]
  BY DEF SchedulesTypeOK
<1>2. \A v \in Workers : worker'[v] = new \/ worker'[v] = worker[v]
  BY DEF SchedulesTypeOK
<1>3. SeenBacked'
  BY <1>2 DEF SeenBacked, Backed, Enough
<1>4. TriggersHaveMessages'
  BY <1>2 DEF TriggersHaveMessages
<1>5. SavingIsCounted'
  BY <1>2 DEF SavingIsCounted
<1> QED
  BY <1>1, <1>3, <1>4, <1>5

\* A worker that becomes idle is in order.
LEMMA WorkerStops ==
  ASSUME ScheduleInv, NEW w \in Workers, worker' = [worker EXCEPT ![w] = IdleWorker],
         UNCHANGED <<tries, ended>>
  PROVE  /\ worker' \in [Workers -> Worker]
         /\ SeenBacked' /\ TriggersHaveMessages' /\ SavingIsCounted'
<1>1. \A m \in Messages : Backed(IdleWorker.seen[m], m)
  BY EmptyRow DEF IdleWorker, ScheduleInv
<1>2. IdleWorker.pc = "idle"
  BY DEF IdleWorker
<1> QED
  BY <1>1, <1>2, WorkerChanges, IdleTypes

\* One row changes to a row that is in order: the others do not matter.
LEMMA RowChanges ==
  ASSUME SchedulesTypeOK, RowsBacked, NEW m \in Messages, NEW r \in Row,
         row' = [row EXCEPT ![m] = r], UNCHANGED <<tries, ended>>, Backed(r, m)
  PROVE  row' \in [Messages -> Row] /\ RowsBacked'
<1>1. \A x \in Messages : (row'[x] = r /\ x = m) \/ row'[x] = row[x]
  BY DEF SchedulesTypeOK
<1> QED
  BY <1>1 DEF SchedulesTypeOK, RowsBacked, Backed, Enough

-----------------------------------------------------------------------------
(* The invariant holds initially and is preserved by every step.           *)

\* Nothing is loaded and nothing was triggered.
LEMMA InitHolds == ScheduleInit => ScheduleInv
<1> SUFFICES ASSUME ScheduleInit PROVE ScheduleInv
  OBVIOUS
<1>1. SchedulesTypeOK
  BY IdleTypes DEF ScheduleInit, ScheduleStart, SchedulesTypeOK, NoRow, Row, RetryNumbers
<1>2. \A m \in Messages : row[m].triggers = 0 /\ ~row[m].complete /\ tries[m] = 0
  BY DEF ScheduleInit, ScheduleStart, NoRow
<1>3. RowsBacked
  BY <1>2 DEF RowsBacked, Backed
<1>4. SeenBacked
  BY <1>1, EmptyRow DEF SeenBacked, ScheduleInit, ScheduleStart, IdleWorker
<1>5. ToolsBacked /\ TriggersHaveMessages /\ SavingIsCounted
  BY DEF ToolsBacked, TriggersHaveMessages, SavingIsCounted, ScheduleInit, ScheduleStart,
         IdleWorker, IdleTool
<1> QED
  BY <1>1, <1>3, <1>4, <1>5 DEF ScheduleInv

\* Time only adds to what backs a row.
LEMMA TimePasses ==
  ASSUME ScheduleInv, NEW m \in Messages, FallsDue(m) \/ EndDatePasses(m)
  PROVE  ScheduleInv'
<1> USE DEF ScheduleInv
<1>1. CASE FallsDue(m)
  <2> USE <1>1 DEF FallsDue
  <2> DEFINE r == [row[m] EXCEPT !.due = TRUE]
  <2>1. r \in Row /\ r.triggers = row[m].triggers /\ r.complete = row[m].complete
    BY DEF SchedulesTypeOK, Row
  <2>2. Backed(r, m)
    BY <2>1 DEF Backed, RowsBacked
  <2>3. row' = [row EXCEPT ![m] = r]
    BY DEF SchedulesTypeOK, Row
  <2>4. row' \in [Messages -> Row] /\ RowsBacked'
    BY <2>1, <2>2, <2>3, RowChanges
  <2>5. SchedulesTypeOK'
    BY <2>4 DEF SchedulesTypeOK
  <2> QED
    BY <2>4, <2>5, ToolsKept, WorkersKept DEF SchedulesTypeOK
<1>2. CASE EndDatePasses(m)
  <2> USE <1>2 DEF EndDatePasses
  <2>1. SchedulesTypeOK' /\ ended \subseteq ended'
    BY DEF SchedulesTypeOK
  <2> QED
    BY <2>1, RowsKept, ToolsKept, WorkersKept DEF SchedulesTypeOK
<1> QED
  BY <1>1, <1>2

\* A poll loads committed rows, which are backed.
LEMMA PollPreserves ==
  ASSUME ScheduleInv, NEW w \in Workers, PollStarts(w)
  PROVE  ScheduleInv'
<1> USE DEF ScheduleInv
<1> DEFINE seen == [m \in Messages |-> IF m \in MessagesToFire THEN row[m] ELSE NoRow]
           new == [IdleWorker EXCEPT !.pc = "choosing", !.todo = MessagesToFire, !.seen = seen]
<1>1. seen \in [Messages -> Row]
  BY EmptyRow DEF SchedulesTypeOK
<1>2. new \in Worker /\ new.pc = "choosing" /\ new.seen = seen
  BY <1>1 DEF Worker, IdleWorker, MessagesToFire, AttemptNumbers
<1>3. \A m \in Messages : Backed(new.seen[m], m)
  BY <1>2, EmptyRow DEF RowsBacked
<1>4. worker' = [worker EXCEPT ![w] = new] /\ UNCHANGED <<row, ended, tool, tries>>
  BY DEF PollStarts
<1> HIDE DEF new
<1>5. worker' \in [Workers -> Worker] /\ SeenBacked' /\ TriggersHaveMessages' /\ SavingIsCounted'
  BY <1>2, <1>3, <1>4, WorkerChanges
<1>6. SchedulesTypeOK'
  BY <1>5 DEF SchedulesTypeOK, PollStarts, Held, WorkerHolds, ToolHolds
<1> QED
  BY <1>4, <1>5, <1>6, RowsKept, ToolsKept DEF SchedulesTypeOK

\* So does a retry.
LEMMA RetryPreserves ==
  ASSUME ScheduleInv, NEW w \in Workers, NEW m \in Messages, NEW n \in RetryNumbers,
         RetryStarts(w, m, n)
  PROVE  ScheduleInv'
<1> USE DEF ScheduleInv
<1> DEFINE seen == [x \in Messages |-> IF x = m THEN row[m] ELSE NoRow]
           new == [IdleWorker EXCEPT !.pc = "sending", !.msg = m, !.number = n, !.seen = seen]
<1>1. seen \in [Messages -> Row]
  BY EmptyRow DEF SchedulesTypeOK
<1>2. new \in Worker /\ new.pc = "sending" /\ new.seen = seen /\ new.msg = m
  BY <1>1 DEF Worker, IdleWorker, AttemptNumbers
<1>3. \A x \in Messages : Backed(new.seen[x], x)
  BY <1>2, EmptyRow DEF RowsBacked
<1>4. UNCHANGED <<row, ended, tool, tries>>
  BY DEF RetryStarts
<1>5. worker' = [worker EXCEPT ![w] = new] \/ UNCHANGED worker
  BY DEF RetryStarts
<1> HIDE DEF new
<1>6. worker' \in [Workers -> Worker] /\ SeenBacked' /\ TriggersHaveMessages' /\ SavingIsCounted'
  <2>1. CASE worker' = [worker EXCEPT ![w] = new]
    BY <1>2, <1>3, <1>4, <2>1, WorkerChanges
  <2>2. CASE UNCHANGED worker
    BY <1>4, <2>2, WorkersKept DEF SchedulesTypeOK
  <2> QED
    BY <1>5, <2>1, <2>2
<1>7. retries' \in [Messages \X RetryNumbers -> Nat]
  <2>1. retries[<<m, n>>] \in Nat /\ retries[<<m, n>>] > 0
    BY DEF RetryStarts, SchedulesTypeOK
  <2>2. retries[<<m, n>>] - 1 \in Nat
    BY <2>1
  <2>3. retries' = [retries EXCEPT ![<<m, n>>] = retries[<<m, n>>] - 1]
    BY DEF RetryStarts
  <2> QED
    BY <2>2, <2>3 DEF SchedulesTypeOK
<1>8. overlap' \in BOOLEAN
  BY DEF RetryStarts, SchedulesTypeOK, Held, WorkerHolds, ToolHolds
<1>9. SchedulesTypeOK'
  BY <1>4, <1>6, <1>7, <1>8 DEF SchedulesTypeOK, RetryStarts
<1> QED
  BY <1>4, <1>6, <1>9, RowsKept, ToolsKept DEF SchedulesTypeOK

\* A poll goes on to a message that it has loaded.
LEMMA TakePreserves ==
  ASSUME ScheduleInv, NEW w \in Workers, NEW m \in Messages, TakesNext(w, m)
  PROVE  ScheduleInv'
<1> USE DEF ScheduleInv
<1> DEFINE new == [worker[w] EXCEPT !.pc = "sending", !.todo = worker[w].todo \ {m}, !.msg = m]
<1>1. new \in Worker /\ new.pc = "sending" /\ new.seen = worker[w].seen /\ new.msg = m
  <2>1. worker[w] \in Worker
    BY DEF SchedulesTypeOK
  <2>2. worker[w].todo \ {m} \in SUBSET Messages
    BY <2>1 DEF Worker
  <2> HIDE DEF ScheduleInv
  <2> QED
    BY <2>1, <2>2 DEF Worker
<1>2. worker' = [worker EXCEPT ![w] = new] /\ UNCHANGED <<row, ended, tool, tries>>
  BY DEF TakesNext, SchedulesTypeOK
<1> HIDE DEF new
<1>3. \A x \in Messages : Backed(new.seen[x], x)
  BY <1>1 DEF SeenBacked
<1>4. worker' \in [Workers -> Worker] /\ SeenBacked' /\ TriggersHaveMessages' /\ SavingIsCounted'
  BY <1>1, <1>2, <1>3, WorkerChanges
<1>5. SchedulesTypeOK'
  BY <1>4 DEF SchedulesTypeOK, TakesNext
<1> QED
  BY <1>2, <1>4, <1>5, RowsKept, ToolsKept DEF SchedulesTypeOK

\* A trigger is a further one, so it may be counted when the row is saved.
LEMMA SendPreserves ==
  ASSUME ScheduleInv, NEW w \in Workers, NEW outcome \in {"sent", "skipped", "failed"},
         Sends(w, outcome)
  PROVE  ScheduleInv'
<1> USE DEF ScheduleInv
<1>1. PICK m \in Messages : m = worker[w].msg
  BY DEF TriggersHaveMessages, SchedulesTypeOK, Worker, Sends
<1> DEFINE new == [worker[w] EXCEPT !.pc = "saving", !.outcome = outcome]
<1>2. new \in Worker /\ new.pc = "saving" /\ new.seen = worker[w].seen /\ new.msg = m
  <2>1. worker[w] \in Worker
    BY DEF SchedulesTypeOK
  <2>2. outcome \in {"sent", "skipped", "failed"}
    OBVIOUS
  <2> HIDE DEF ScheduleInv
  <2> QED
    BY <1>1, <2>1, <2>2 DEF Worker
<1>3. worker' = [worker EXCEPT ![w] = new] /\ UNCHANGED <<row, ended, tool>>
  BY DEF Sends, SchedulesTypeOK
<1>4. tries' = [tries EXCEPT ![m] = tries[m] + 1]
  BY <1>1 DEF Sends
<1> HIDE DEF new
<1>5. tries' \in [Messages -> Nat] /\ \A x \in Messages : tries'[x] >= tries[x]
  BY <1>4 DEF SchedulesTypeOK
<1>6. sent' \in [Messages -> Nat]
  BY <1>1 DEF Sends, SchedulesTypeOK
<1>7. SchedulesTypeOK'
  BY <1>2, <1>3, <1>5, <1>6 DEF SchedulesTypeOK, Sends
<1>8. \A v \in Workers : (worker'[v] = new /\ v = w) \/ worker'[v] = worker[v]
  BY <1>3 DEF SchedulesTypeOK
<1>9. \A v \in Workers : worker'[v].seen = worker[v].seen
  BY <1>2, <1>8
<1>10. SeenBacked'
  <2> SUFFICES ASSUME NEW v \in Workers, NEW x \in Messages
               PROVE  Backed(worker[v].seen[x], x)'
    BY DEF SeenBacked
  <2>1. worker[v].seen[x] \in Row /\ worker[v].seen[x] = worker'[v].seen[x]
    BY <1>9 DEF SchedulesTypeOK, Worker
  <2>2. Backed(worker[v].seen[x], x)
    BY DEF SeenBacked
  <2> QED
    BY <1>3, <1>5, <2>1, <2>2 DEF Backed, Enough, SchedulesTypeOK, Row
<1>11. TriggersHaveMessages'
  BY <1>1, <1>2, <1>8 DEF TriggersHaveMessages
<1>12. SavingIsCounted'
  <2> SUFFICES ASSUME NEW v \in Workers, worker'[v].pc = "saving"
               PROVE  worker'[v].seen[worker'[v].msg].triggers < tries'[worker'[v].msg]
    BY DEF SavingIsCounted
  <2>1. CASE worker'[v] = new
    <3>1. new.seen[m].triggers \in Nat /\ new.seen[m].triggers <= tries[m]
      BY <1>2 DEF SeenBacked, Backed, SchedulesTypeOK, Worker, Row
    <3> QED
      BY <1>2, <1>4, <2>1, <3>1 DEF SchedulesTypeOK
  <2>2. CASE worker'[v] = worker[v]
    <3>1. worker[v].msg \in Messages
      BY <2>2 DEF TriggersHaveMessages, SchedulesTypeOK, Worker
    <3>2. worker[v].seen[worker[v].msg].triggers \in Nat
      BY <3>1 DEF SchedulesTypeOK, Worker, Row
    <3>3. worker[v].seen[worker[v].msg].triggers < tries[worker[v].msg]
      BY <2>2 DEF SavingIsCounted
    <3> QED
      BY <1>5, <2>2, <3>1, <3>2, <3>3 DEF SchedulesTypeOK
  <2> QED
    BY <1>8, <2>1, <2>2
<1> QED
  BY <1>3, <1>5, <1>7, <1>10, <1>11, <1>12, RowsKept, ToolsKept DEF SchedulesTypeOK

\* The row that is saved counts one trigger more than the one that was loaded, and
\* that trigger happened in between.
LEMMA SavePreserves ==
  ASSUME ScheduleInv, NEW w \in Workers, Saves(w)
  PROVE  ScheduleInv'
<1> USE DEF ScheduleInv
<1>1. PICK m \in Messages : m = worker[w].msg
  BY DEF TriggersHaveMessages, SchedulesTypeOK, Worker, Saves
<1>2. PICK seen \in Row : seen = worker[w].seen[m]
  BY DEF SchedulesTypeOK, Worker
<1>3. PICK triggers \in Nat : triggers = seen.triggers + 1
  BY <1>2 DEF Row
<1>4. triggers <= tries[m]
  BY <1>1, <1>2, <1>3 DEF SavingIsCounted, Saves, SchedulesTypeOK, Row
<1>5. Counted(w, worker[w].seen[worker[w].msg]) = triggers
  BY <1>1, <1>2, <1>3 DEF Counted
<1> DEFINE r == [there |-> TRUE, complete |-> seen.complete \/ Done(m, triggers),
                 cancelled |-> seen.cancelled, due |-> seen.due /\ Done(m, triggers),
                 triggers |-> triggers]
           new == [worker[w] EXCEPT !.pc = "recording"]
<1>6. row' = [row EXCEPT ![m] = r] /\ UNCHANGED <<tries, ended, tool>>
  BY <1>1, <1>2, <1>5 DEF Saves
<1>7. worker' = [worker EXCEPT ![w] = new]
  BY DEF Saves, SchedulesTypeOK
<1>8. new \in Worker /\ new.pc = "recording" /\ new.seen = worker[w].seen /\ new.msg = m
  BY <1>1 DEF Worker, SchedulesTypeOK
<1>9. r \in Row
  BY DEF Row, Done
<1>10. Backed(r, m)
  <2>1. seen.complete => Enough(m)
    BY <1>2 DEF SeenBacked, Backed
  <2>2. Done(m, triggers) => Enough(m)
    BY <1>4 DEF Done, Enough, SchedulesTypeOK
  <2> QED
    BY <1>4, <2>1, <2>2 DEF Backed
<1> HIDE DEF r, new
<1>11. row' \in [Messages -> Row] /\ RowsBacked'
  BY <1>6, <1>9, <1>10, RowChanges
<1>12. \A x \in Messages : Backed(new.seen[x], x)
  BY <1>8 DEF SeenBacked
<1>13. worker' \in [Workers -> Worker] /\ SeenBacked' /\ TriggersHaveMessages' /\ SavingIsCounted'
  BY <1>6, <1>7, <1>8, <1>12, WorkerChanges
<1>14. SchedulesTypeOK'
  BY <1>11, <1>13 DEF SchedulesTypeOK, Saves
<1> QED
  BY <1>6, <1>11, <1>13, <1>14, ToolsKept DEF SchedulesTypeOK

\* What a worker goes on with after an attempt is recorded.
LEMMA ContinuePreserves ==
  ASSUME ScheduleInv, NEW w \in Workers, worker[w].pc = "recording", Continues(w),
         UNCHANGED <<tries, ended>>
  PROVE  /\ worker' \in [Workers -> Worker]
         /\ SeenBacked' /\ TriggersHaveMessages' /\ SavingIsCounted'
<1> USE DEF ScheduleInv
<1>1. CASE worker[w].todo = {}
  BY <1>1, WorkerStops DEF Continues
<1>2. CASE worker[w].todo # {}
  <2> DEFINE seen == [worker[w].seen EXCEPT ![worker[w].msg] = NoRow]
             new == [IdleWorker EXCEPT !.pc = "choosing", !.todo = worker[w].todo, !.seen = seen]
  <2>1. worker[w] \in Worker
    BY DEF SchedulesTypeOK
  <2>2. seen \in [Messages -> Row] /\ \A m \in Messages : seen[m] \in {NoRow, worker[w].seen[m]}
    BY <2>1, EmptyRow DEF Worker
  <2>3. new \in Worker /\ new.pc = "choosing" /\ new.seen = seen
    BY <2>1, <2>2 DEF Worker, IdleWorker, AttemptNumbers
  <2>4. \A m \in Messages : Backed(seen[m], m)
    BY <2>2, EmptyRow DEF SeenBacked
  <2>5. worker' = [worker EXCEPT ![w] = new]
    BY <1>2 DEF Continues
  <2> HIDE DEF seen, new
  <2> QED
    BY <2>3, <2>4, <2>5, WorkerChanges
<1> QED
  BY <1>1, <1>2

\* Attempts and retries are data that the invariant only types.
LEMMA RecordPreserves ==
  ASSUME ScheduleInv, NEW w \in Workers, Records(w)
  PROVE  ScheduleInv'
<1> USE DEF ScheduleInv
<1>1. PICK m \in Messages : m = worker[w].msg
  BY DEF TriggersHaveMessages, SchedulesTypeOK, Worker, Records
<1>2. worker[w].number \in AttemptNumbers /\ worker[w].seen[m].triggers \in Nat
  BY DEF SchedulesTypeOK, Worker, Row
<1>3. NewAttempt(w) \in Attempt /\ NewAttempt(w).msg = m
  BY <1>1, <1>2 DEF NewAttempt, Attempt
<1>4. NewAttempt(w).number \in AttemptNumbers
  BY <1>2 DEF NewAttempt
<1>5. attempt' \subseteq Attempt
  BY <1>3 DEF Records, SchedulesTypeOK
<1>6. retries' \in [Messages \X RetryNumbers -> Nat]
  <2>1. CASE UNCHANGED retries
    BY <2>1 DEF SchedulesTypeOK
  <2>2. CASE ~UNCHANGED retries
    <3>1. PICK n \in RetryNumbers : n = NextAttemptNumber(NewAttempt(w).number)
      BY <1>4, <2>2 DEF Records, Retries, NextAttemptNumber, AttemptNumbers, RetryNumbers
    <3>2. retries' = [retries EXCEPT ![<<m, n>>] = retries[<<m, n>>] + 1]
      BY <1>3, <2>2, <3>1 DEF Records
    <3>3. <<m, n>> \in Messages \X RetryNumbers
      OBVIOUS
    <3>4. retries[<<m, n>>] + 1 \in Nat
      BY <3>3 DEF SchedulesTypeOK
    <3> QED
      BY <3>2, <3>4 DEF SchedulesTypeOK
  <2> QED
    BY <2>1, <2>2
<1>7. UNCHANGED <<row, ended, tool, tries>> /\ Continues(w) /\ worker[w].pc = "recording"
  BY DEF Records
<1>8. worker' \in [Workers -> Worker] /\ SeenBacked' /\ TriggersHaveMessages' /\ SavingIsCounted'
  BY <1>7, ContinuePreserves
<1>9. SchedulesTypeOK'
  BY <1>5, <1>6, <1>8 DEF SchedulesTypeOK, Records
<1> QED
  BY <1>7, <1>8, <1>9, RowsKept, ToolsKept DEF SchedulesTypeOK

\* A failed insert and a kill forget what the worker had loaded.
LEMMA StopPreserves ==
  ASSUME ScheduleInv, NEW w \in Workers, RecordFails(w) \/ WorkerDies(w)
  PROVE  ScheduleInv'
<1> USE DEF ScheduleInv
<1>1. UNCHANGED <<row, ended, tool, tries>> /\ worker' = [worker EXCEPT ![w] = IdleWorker]
  BY DEF RecordFails, WorkerDies
<1>2. worker' \in [Workers -> Worker] /\ SeenBacked' /\ TriggersHaveMessages' /\ SavingIsCounted'
  BY <1>1, WorkerStops
<1>3. SchedulesTypeOK'
  BY <1>2 DEF SchedulesTypeOK, RecordFails, WorkerDies
<1> QED
  BY <1>1, <1>2, <1>3, RowsKept, ToolsKept DEF SchedulesTypeOK

\* A tool loads a committed row and saves it with a change that does not matter here.
LEMMA ToolPreserves ==
  ASSUME ScheduleInv, NEW t \in Tools,
         \/ \E m \in Messages, op \in {"cancel", "move"} : ToolLoads(t, m, op)
         \/ \E due \in BOOLEAN : ToolSaves(t, due)
  PROVE  ScheduleInv'
<1> USE DEF ScheduleInv
<1>1. CASE \E m \in Messages, op \in {"cancel", "move"} : ToolLoads(t, m, op)
  <2>1. PICK m \in Messages, op \in {"cancel", "move"} : ToolLoads(t, m, op)
    BY <1>1
  <2> DEFINE new == [msg |-> m, op |-> op, seen |-> row[m]]
  <2>2. tool' = [tool EXCEPT ![t] = new] /\ UNCHANGED <<row, ended, worker, tries>>
    BY <2>1 DEF ToolLoads
  <2>3. new \in Tool
    BY DEF Tool, SchedulesTypeOK
  <2>4. tool' \in [Tools -> Tool]
    BY <2>2, <2>3 DEF SchedulesTypeOK
  <2>5. SchedulesTypeOK'
    BY <2>1, <2>4 DEF SchedulesTypeOK, ToolLoads, Edits, Held, WorkerHolds, ToolHolds
  <2>6. \A x \in Tools : tool'[x] = new \/ tool'[x] = tool[x]
    BY <2>2 DEF SchedulesTypeOK
  <2>7. Backed(new.seen, new.msg)
    BY DEF RowsBacked
  <2>8. ToolsBacked'
    BY <2>2, <2>6, <2>7 DEF ToolsBacked, Backed, Enough
  <2> QED
    BY <2>2, <2>5, <2>8, RowsKept, WorkersKept DEF SchedulesTypeOK
<1>2. CASE \E due \in BOOLEAN : ToolSaves(t, due)
  <2>1. PICK due \in BOOLEAN : ToolSaves(t, due)
    BY <1>2
  <2>2. PICK m \in Messages : m = tool[t].msg
    BY <2>1 DEF ToolSaves, SchedulesTypeOK, Tool
  <2>3. PICK seen \in Row : seen = tool[t].seen
    BY DEF SchedulesTypeOK, Tool
  <2>4. PICK r \in Row : /\ row' = [row EXCEPT ![m] = r]
                         /\ r.triggers = seen.triggers /\ r.complete = seen.complete
    <3>1. /\ [seen EXCEPT !.cancelled = TRUE] \in Row
          /\ [seen EXCEPT !.due = due] \in Row
      BY DEF Row
    <3>2. \/ row' = [row EXCEPT ![m] = [seen EXCEPT !.cancelled = TRUE]]
          \/ row' = [row EXCEPT ![m] = [seen EXCEPT !.due = due]]
      BY <2>1, <2>2, <2>3 DEF ToolSaves
    <3>3. /\ [seen EXCEPT !.cancelled = TRUE].triggers = seen.triggers
          /\ [seen EXCEPT !.cancelled = TRUE].complete = seen.complete
          /\ [seen EXCEPT !.due = due].triggers = seen.triggers
          /\ [seen EXCEPT !.due = due].complete = seen.complete
      BY DEF Row
    <3> QED
      BY <3>1, <3>2, <3>3
  <2>5. Backed(r, m)
    BY <2>2, <2>3, <2>4 DEF ToolsBacked, Backed
  <2>6. UNCHANGED <<ended, worker, tries>> /\ tool' = [tool EXCEPT ![t] = IdleTool]
    BY <2>1 DEF ToolSaves
  <2>7. row' \in [Messages -> Row] /\ RowsBacked'
    BY <2>4, <2>5, <2>6, RowChanges
  <2>8. \A x \in Tools : tool'[x] = IdleTool \/ tool'[x] = tool[x]
    BY <2>6 DEF SchedulesTypeOK
  <2>9. ToolsBacked'
    BY <2>6, <2>8 DEF ToolsBacked, Backed, Enough, IdleTool
  <2>10. tool' \in [Tools -> Tool]
    BY <2>6, IdleTypes DEF SchedulesTypeOK
  <2>11. SchedulesTypeOK'
    BY <2>1, <2>7, <2>10 DEF SchedulesTypeOK, ToolSaves
  <2> QED
    BY <2>6, <2>7, <2>9, <2>11, WorkersKept DEF SchedulesTypeOK
<1> QED
  BY <1>1, <1>2

\* The API, the pages and the archiving change no counter, or delete the row.
LEMMA ChangePreserves ==
  ASSUME ScheduleInv, NEW m \in Messages,
         ApiCancels(m) \/ (\E due \in BOOLEAN : Reschedules(m, due)) \/ Archives(m)
  PROVE  ScheduleInv'
<1> USE DEF ScheduleInv
<1>1. UNCHANGED <<ended, worker, tool, retries, tries, sent, deaths>> /\ Edits(m)
  BY DEF ApiCancels, Reschedules, Archives
<1>2. PICK r \in Row : row' = [row EXCEPT ![m] = r] /\ Backed(r, m)
  <2>1. CASE ApiCancels(m)
    <3> DEFINE r == [row[m] EXCEPT !.cancelled = TRUE]
    <3>1. r \in Row /\ r.triggers = row[m].triggers /\ r.complete = row[m].complete
      <4>1. row[m] \in Row
        BY DEF SchedulesTypeOK
      <4> HIDE DEF ScheduleInv
      <4> QED
        BY <4>1 DEF Row
    <3>2. row' = [row EXCEPT ![m] = r]
      BY <2>1 DEF ApiCancels, SchedulesTypeOK
    <3> QED
      BY <3>1, <3>2 DEF RowsBacked, Backed
  <2>2. CASE \E due \in BOOLEAN : Reschedules(m, due)
    <3>1. PICK due \in BOOLEAN : Reschedules(m, due)
      BY <2>2
    <3> DEFINE r == [row[m] EXCEPT !.due = due]
    <3>2. r \in Row /\ r.triggers = row[m].triggers /\ r.complete = row[m].complete
      <4>1. row[m] \in Row
        BY DEF SchedulesTypeOK
      <4> HIDE DEF ScheduleInv
      <4> QED
        BY <4>1 DEF Row
    <3>3. row' = [row EXCEPT ![m] = r]
      BY <3>1 DEF Reschedules, SchedulesTypeOK
    <3> QED
      BY <3>2, <3>3 DEF RowsBacked, Backed
  <2>3. CASE Archives(m)
    BY <2>3, EmptyRow DEF Archives
  <2> QED
    BY <2>1, <2>2, <2>3
<1>3. row' \in [Messages -> Row] /\ RowsBacked'
  BY <1>1, <1>2, RowChanges
<1>4. attempt' \subseteq Attempt
  BY DEF ApiCancels, Reschedules, Archives, SchedulesTypeOK
<1>5. SchedulesTypeOK'
  BY <1>1, <1>3, <1>4 DEF SchedulesTypeOK, Edits, Held, WorkerHolds, ToolHolds
<1> QED
  BY <1>1, <1>3, <1>5, ToolsKept, WorkersKept DEF SchedulesTypeOK

\* Every step of the next-state relation is one of the above.
LEMMA StepPreserves ==
  ASSUME ScheduleInv, [ScheduleNext]_scheduleVars
  PROVE  ScheduleInv'
<1>1. CASE \E m \in Messages : FallsDue(m) \/ EndDatePasses(m)
  BY <1>1, TimePasses
<1>2. CASE \E w \in Workers : PollStarts(w)
  BY <1>2, PollPreserves
<1>3. CASE \E w \in Workers, m \in Messages, n \in RetryNumbers : RetryStarts(w, m, n)
  BY <1>3, RetryPreserves
<1>4. CASE \E w \in Workers : WorkerStep(w)
  BY <1>4, TakePreserves, SendPreserves, SavePreserves, RecordPreserves, StopPreserves
     DEF WorkerStep
<1>5. CASE \E w \in Workers : WorkerDies(w)
  BY <1>5, StopPreserves
<1>6. CASE \E t \in Tools, due \in BOOLEAN : ToolSaves(t, due)
  BY <1>6, ToolPreserves
<1>7. CASE Edit
  BY <1>7, ToolPreserves, ChangePreserves DEF Edit
<1>8. CASE UNCHANGED scheduleVars
  <2>1. ScheduleInv /\ UNCHANGED <<row, ended, worker, tool, tries>> /\ SchedulesTypeOK'
    BY <1>8 DEF scheduleVars, ScheduleInv, SchedulesTypeOK
  <2> QED
    BY <2>1, RowsKept, ToolsKept, WorkersKept DEF ScheduleInv, SchedulesTypeOK
<1> QED
  BY <1>1, <1>2, <1>3, <1>4, <1>5, <1>6, <1>7, <1>8 DEF ScheduleNext

-----------------------------------------------------------------------------
(* Theorems.                                                               *)

\* Every copy of a row, committed or loaded, is backed by triggers that happened
\* (ScheduledMessage._trigger, poll_scheduled_messages, the reminder tools).
THEOREM CopiesAreBacked == ScheduleSpec => []ScheduleInv
<1>1. ScheduleInit => ScheduleInv
  BY InitHolds
<1>2. ScheduleInv /\ [ScheduleNext]_scheduleVars => ScheduleInv'
  BY StepPreserves
<1> QED
  BY <1>1, <1>2, PTL DEF ScheduleSpec

\* However many workers and tools save stale rows, a message is never complete
\* before it was triggered as often as _should_mark_complete demands, or its end
\* date has passed.
THEOREM CompletionIsEarned == ScheduleSpec => []CompletedWasTried
<1>1. ScheduleInv => CompletedWasTried
  BY DEF ScheduleInv, RowsBacked, Backed, Enough, CompletedWasTried
<1> QED
  BY <1>1, CopiesAreBacked, PTL

-----------------------------------------------------------------------------
\* Chains of attempts and their number, as long as no row is loaded or changed
\* between a load and its save, and, for the numbers, no worker is killed.

Busy(w) == worker[w].pc \in {"sending", "saving", "recording"}
Trigger(w) == worker[w].seen[worker[w].msg].triggers

\* What a worker is about at each of its steps.
Tidy ==
  \A w \in Workers :
    /\ worker[w].pc \in {"idle", "choosing"} => worker[w].msg = "none" /\ worker[w].number = 1
    /\ worker[w].pc = "idle" => worker[w].todo = {}
    /\ worker[w].msg \notin worker[w].todo
    /\ worker[w].todo # {} => worker[w].number = 1

\* A message is held by one worker or tool at a time, which knows the row as it is.
OneHolder ==
  /\ \A m \in Messages, w, v \in Workers : WorkerHolds(w, m) /\ WorkerHolds(v, m) => w = v
  /\ \A m \in Messages, w \in Workers, t \in Tools : ~(WorkerHolds(w, m) /\ ToolHolds(t, m))
  /\ \A m \in Messages, t, u \in Tools : ToolHolds(t, m) /\ ToolHolds(u, m) => t = u

Agrees(r, m) ==
  row[m].there /\ r.there /\ r.triggers = row[m].triggers /\ r.complete = row[m].complete
HoldersAgree ==
  /\ \A m \in Messages, w \in Workers : WorkerHolds(w, m) => Agrees(worker[w].seen[m], m)
  /\ \A m \in Messages, t \in Tools : ToolHolds(t, m) => Agrees(tool[t].seen, m)

\* Attempts are of earlier triggers than the row counts.
RecordersBehind ==
  \A w \in Workers : worker[w].pc = "recording" /\ row[worker[w].msg].there =>
    Trigger(w) < row[worker[w].msg].triggers
AttemptsBehind ==
  \A a \in attempt : row[a.msg].there /\ a.trigger < row[a.msg].triggers

\* Attempt n of a trigger numbered k has one to follow.
Follows(m, n, k) ==
  \E b \in attempt : /\ b.msg = m /\ b.number = n - 1
                     /\ b.result = "failure" /\ b.trigger < k
RetriesFollow ==
  \A m \in Messages, n \in RetryNumbers :
    row[m].there /\ retries[<<m, n>>] > 0 => Follows(m, n, row[m].triggers)
WorkersFollow ==
  \A w \in Workers : Busy(w) /\ worker[w].number > 1 /\ row[worker[w].msg].there =>
    Follows(worker[w].msg, worker[w].number, Trigger(w))
AttemptsFollow == \A a \in attempt : a.number > 1 => Follows(a.msg, a.number, a.trigger)

ChainInv ==
  /\ Tidy
  /\ ~overlap =>
       /\ OneHolder /\ HoldersAgree
       /\ RecordersBehind /\ AttemptsBehind
       /\ RetriesFollow /\ WorkersFollow /\ AttemptsFollow

\* A message that was triggered enough is complete, and only first attempts start
\* at one that is not.
CompleteInTime == \A m \in Messages : row[m].triggers >= Expected => row[m].complete
FirstsIncomplete ==
  \A w \in Workers :
    /\ \A m \in worker[w].todo : ~worker[w].seen[m].complete
    /\ worker[w].pc = "sending" /\ worker[w].number = 1 =>
         ~worker[w].seen[worker[w].msg].complete

\* No two attempts are of one trigger, so every trigger is recorded.
RecordersDiffer ==
  \A w \in Workers : worker[w].pc = "recording" =>
    /\ \A v \in Workers : worker[v].pc = "recording" /\ worker[v].msg = worker[w].msg
                            /\ Trigger(v) = Trigger(w) => v = w
    /\ \A a \in attempt : a.msg = worker[w].msg => a.trigger # Trigger(w)
AttemptsOf(m) == {a \in attempt : a.msg = m}
Recorders(m) == {w \in Workers : worker[w].pc = "recording" /\ worker[w].msg = m}
AttemptsTally ==
  \A m \in Messages :
    /\ IsFiniteSet(AttemptsOf(m)) /\ IsFiniteSet(Recorders(m))
    /\ row[m].there =>
         row[m].triggers = Cardinality(AttemptsOf(m)) + Cardinality(Recorders(m))

\* The row counts the tries, but for the one that is being saved.
Saving(m) == \E w \in Workers : worker[w].pc = "saving" /\ worker[w].msg = m
TriesTally ==
  \A m \in Messages : row[m].there =>
    tries[m] = IF Saving(m) THEN row[m].triggers + 1 ELSE row[m].triggers

\* Each chain of attempts sends once, and may still send while it goes on; each
\* first attempt that is left may start one.
Live(m) ==
  {w \in Workers : /\ worker[w].msg = m
                   /\ \/ worker[w].pc = "sending" /\ worker[w].number > 1
                      \/ worker[w].pc \in {"saving", "recording"} /\ worker[w].outcome = "failed"}
Queued(m) == retries[<<m, 2>>] + retries[<<m, 3>>]
Budget(m) == IF tries[m] < Expected THEN Expected - tries[m] ELSE 0
SendsTally ==
  \A m \in Messages :
    /\ IsFiniteSet(Live(m))
    /\ sent[m] + Queued(m) + Cardinality(Live(m)) + Budget(m) <= Expected

CountInv ==
  ~overlap /\ deaths = 0 =>
    /\ CompleteInTime /\ FirstsIncomplete /\ RecordersDiffer
    /\ AttemptsTally /\ TriesTally /\ SendsTally

-----------------------------------------------------------------------------
\* What the steps of a worker do to it, field by field.

Others(w) == \A v \in Workers \ {w} : worker'[v] = worker[v]

LEMMA PollEffect ==
  ASSUME ScheduleInv, NEW w \in Workers, PollStarts(w)
  PROVE  /\ worker[w].pc = "idle" /\ worker'[w].pc = "choosing"
         /\ worker'[w].msg = "none" /\ worker'[w].number = 1
         /\ worker'[w].todo = MessagesToFire
         /\ \A m \in MessagesToFire : worker'[w].seen[m] = row[m]
         /\ Others(w)
<1> DEFINE seen == [m \in Messages |-> IF m \in MessagesToFire THEN row[m] ELSE NoRow]
           new == [IdleWorker EXCEPT !.pc = "choosing", !.todo = MessagesToFire, !.seen = seen]
<1>1. worker' = [worker EXCEPT ![w] = new] /\ worker[w].pc = "idle"
  BY DEF PollStarts
<1>2. worker'[w] = new /\ Others(w)
  BY <1>1 DEF ScheduleInv, SchedulesTypeOK, Others
<1>3. \A m \in MessagesToFire : seen[m] = row[m]
  BY DEF MessagesToFire
<1>4. /\ new.pc = "choosing" /\ new.msg = "none" /\ new.number = 1
      /\ new.todo = MessagesToFire /\ new.seen = seen
  BY DEF IdleWorker
<1> QED
  BY <1>1, <1>2, <1>3, <1>4

LEMMA RetryEffect ==
  ASSUME ScheduleInv, NEW w \in Workers, NEW m \in Messages, NEW n \in RetryNumbers,
         RetryStarts(w, m, n), row[m].there
  PROVE  /\ worker[w].pc = "idle" /\ worker'[w].pc = "sending"
         /\ worker'[w].msg = m /\ worker'[w].number = n
         /\ worker'[w].todo = {} /\ worker'[w].seen[m] = row[m]
         /\ Others(w)
<1> DEFINE seen == [x \in Messages |-> IF x = m THEN row[m] ELSE NoRow]
           new == [IdleWorker EXCEPT !.pc = "sending", !.msg = m, !.number = n, !.seen = seen]
<1>1. worker' = [worker EXCEPT ![w] = new] /\ worker[w].pc = "idle"
  BY DEF RetryStarts
<1>2. worker'[w] = new /\ Others(w)
  BY <1>1 DEF ScheduleInv, SchedulesTypeOK, Others
<1>3. seen[m] = row[m]
  OBVIOUS
<1>4. /\ new.pc = "sending" /\ new.msg = m /\ new.number = n
      /\ new.todo = {} /\ new.seen = seen
  BY DEF IdleWorker
<1> QED
  BY <1>1, <1>2, <1>3, <1>4

LEMMA TakeEffect ==
  ASSUME ScheduleInv, NEW w \in Workers, NEW m \in Messages, TakesNext(w, m)
  PROVE  /\ worker[w].pc = "choosing" /\ worker'[w].pc = "sending"
         /\ m \in worker[w].todo /\ worker'[w].todo = worker[w].todo \ {m}
         /\ worker'[w].msg = m /\ worker'[w].number = worker[w].number
         /\ worker'[w].seen = worker[w].seen
         /\ Others(w)
<1> DEFINE new == [worker[w] EXCEPT !.pc = "sending", !.todo = worker[w].todo \ {m}, !.msg = m]
<1>1. worker' = [worker EXCEPT ![w] = new] /\ worker[w].pc = "choosing" /\ m \in worker[w].todo
  BY DEF TakesNext, ScheduleInv, SchedulesTypeOK
<1>2. worker'[w] = new /\ Others(w)
  BY <1>1 DEF ScheduleInv, SchedulesTypeOK, Others
<1>3. worker[w] \in Worker
  BY DEF ScheduleInv, SchedulesTypeOK
<1>4. /\ new.pc = "sending" /\ new.msg = m /\ new.number = worker[w].number
      /\ new.todo = worker[w].todo \ {m} /\ new.seen = worker[w].seen
  BY <1>3 DEF Worker
<1> QED
  BY <1>1, <1>2, <1>4

LEMMA SendEffect ==
  ASSUME ScheduleInv, NEW w \in Workers, NEW outcome \in {"sent", "skipped", "failed"},
         Sends(w, outcome)
  PROVE  /\ worker[w].pc = "sending" /\ worker'[w].pc = "saving"
         /\ worker'[w].msg = worker[w].msg /\ worker'[w].number = worker[w].number
         /\ worker'[w].todo = worker[w].todo /\ worker'[w].seen = worker[w].seen
         /\ worker'[w].outcome = outcome
         /\ Others(w)
<1> DEFINE new == [worker[w] EXCEPT !.pc = "saving", !.outcome = outcome]
<1>1. worker' = [worker EXCEPT ![w] = new] /\ worker[w].pc = "sending"
  BY DEF Sends, ScheduleInv, SchedulesTypeOK
<1>2. worker'[w] = new /\ Others(w)
  BY <1>1 DEF ScheduleInv, SchedulesTypeOK, Others
<1>3. worker[w] \in Worker
  BY DEF ScheduleInv, SchedulesTypeOK
<1>4. /\ new.pc = "saving" /\ new.msg = worker[w].msg /\ new.number = worker[w].number
      /\ new.todo = worker[w].todo /\ new.seen = worker[w].seen /\ new.outcome = outcome
  BY <1>3 DEF Worker
<1> QED
  BY <1>1, <1>2, <1>4

LEMMA SaveEffect ==
  ASSUME ScheduleInv, NEW w \in Workers, Saves(w)
  PROVE  /\ worker[w].pc = "saving" /\ worker'[w].pc = "recording"
         /\ worker'[w].msg = worker[w].msg /\ worker'[w].number = worker[w].number
         /\ worker'[w].todo = worker[w].todo /\ worker'[w].seen = worker[w].seen
         /\ worker'[w].outcome = worker[w].outcome
         /\ Others(w)
         /\ row'[worker[w].msg].there
         /\ row'[worker[w].msg].triggers = Trigger(w) + 1
         /\ Trigger(w) + 1 >= Expected => row'[worker[w].msg].complete
         /\ \A x \in Messages \ {worker[w].msg} : row'[x] = row[x]
<1> DEFINE new == [worker[w] EXCEPT !.pc = "recording"]
<1>1. worker' = [worker EXCEPT ![w] = new] /\ worker[w].pc = "saving"
  BY DEF Saves, ScheduleInv, SchedulesTypeOK
<1>2. worker'[w] = new /\ Others(w)
  BY <1>1 DEF ScheduleInv, SchedulesTypeOK, Others
<1>3. worker[w] \in Worker
  BY DEF ScheduleInv, SchedulesTypeOK
<1>4. /\ new.pc = "recording" /\ new.msg = worker[w].msg /\ new.number = worker[w].number
      /\ new.todo = worker[w].todo /\ new.seen = worker[w].seen
      /\ new.outcome = worker[w].outcome
  BY <1>3 DEF Worker
<1>5. PICK m \in Messages : m = worker[w].msg
  BY <1>1, <1>3 DEF ScheduleInv, TriggersHaveMessages, Worker
<1>6. PICK seen \in Row : seen = worker[w].seen[m]
  BY <1>3 DEF Worker
<1>7. PICK triggers \in Nat : triggers = seen.triggers + 1 /\ triggers = Trigger(w) + 1
  BY <1>5, <1>6 DEF Row, Trigger
<1> DEFINE r == [there |-> TRUE, complete |-> seen.complete \/ Done(m, triggers),
                 cancelled |-> seen.cancelled, due |-> seen.due /\ Done(m, triggers),
                 triggers |-> triggers]
<1>8. row' = [row EXCEPT ![m] = r]
  BY <1>5, <1>6, <1>7 DEF Saves, Counted
<1>9. row'[m] = r /\ \A x \in Messages \ {m} : row'[x] = row[x]
  BY <1>8 DEF ScheduleInv, SchedulesTypeOK
<1>10. r.there /\ r.triggers = triggers /\ (triggers >= Expected => r.complete)
  BY DEF Done
<1> QED
  BY <1>1, <1>2, <1>4, <1>5, <1>7, <1>9, <1>10

LEMMA ContinueEffect ==
  ASSUME ScheduleInv, Tidy, NEW w \in Workers, Records(w)
  PROVE  /\ worker[w].pc = "recording" /\ worker'[w].pc \in {"idle", "choosing"}
         /\ worker'[w].pc = "idle" => worker'[w].todo = {}
         /\ worker'[w].msg = "none" /\ worker'[w].number = 1
         /\ worker'[w].todo = worker[w].todo
         /\ \A m \in worker[w].todo : worker'[w].seen[m] = worker[w].seen[m]
         /\ Others(w)
<1>1. worker[w].pc = "recording" /\ Continues(w) /\ worker[w] \in Worker
  BY DEF Records, ScheduleInv, SchedulesTypeOK
<1> DEFINE seen == [worker[w].seen EXCEPT ![worker[w].msg] = NoRow]
           more == [IdleWorker EXCEPT !.pc = "choosing", !.todo = worker[w].todo, !.seen = seen]
           new == IF worker[w].todo = {} THEN IdleWorker ELSE more
<1>2. worker' = [worker EXCEPT ![w] = new]
  BY <1>1 DEF Continues
<1>3. worker'[w] = new /\ Others(w)
  BY <1>2 DEF ScheduleInv, SchedulesTypeOK, Others
<1>4. worker[w].msg \notin worker[w].todo /\ worker[w].todo \subseteq Messages
  BY <1>1 DEF Tidy, Worker
<1>5. \A m \in worker[w].todo : seen[m] = worker[w].seen[m]
  BY <1>1, <1>4 DEF Worker
<1>6. /\ more.pc = "choosing" /\ more.msg = "none" /\ more.number = 1
      /\ more.todo = worker[w].todo /\ more.seen = seen
  BY DEF IdleWorker
<1>7. /\ IdleWorker.pc = "idle" /\ IdleWorker.msg = "none" /\ IdleWorker.number = 1
      /\ IdleWorker.todo = {}
  BY DEF IdleWorker
<1> HIDE DEF seen, more
<1> QED
  BY <1>1, <1>3, <1>5, <1>6, <1>7

LEMMA StopEffect ==
  ASSUME ScheduleInv, NEW w \in Workers, worker' = [worker EXCEPT ![w] = IdleWorker]
  PROVE  /\ worker'[w].pc = "idle" /\ worker'[w].msg = "none" /\ worker'[w].number = 1
         /\ worker'[w].todo = {}
         /\ Others(w)
BY DEF ScheduleInv, SchedulesTypeOK, Others, IdleWorker

-----------------------------------------------------------------------------
\* ChainInv is kept by every step.

\* A worker whose new state is tidy.
LEMMA TidyKept ==
  ASSUME Tidy, NEW w \in Workers, Others(w),
         worker'[w].pc \in {"idle", "choosing"} => worker'[w].msg = "none" /\ worker'[w].number = 1,
         worker'[w].pc = "idle" => worker'[w].todo = {},
         worker'[w].msg \notin worker'[w].todo,
         worker'[w].todo # {} => worker'[w].number = 1
  PROVE  Tidy'
<1> SUFFICES ASSUME NEW v \in Workers
             PROVE  /\ worker'[v].pc \in {"idle", "choosing"} => worker'[v].msg = "none" /\ worker'[v].number = 1
                    /\ worker'[v].pc = "idle" => worker'[v].todo = {}
                    /\ worker'[v].msg \notin worker'[v].todo
                    /\ worker'[v].todo # {} => worker'[v].number = 1
  BY DEF Tidy
<1>1. CASE v = w
  BY <1>1
<1>2. CASE v # w
  BY <1>2 DEF Tidy, Others
<1> QED
  BY <1>1, <1>2

\* Nobody holds a message who did not hold it.
NoNewHolders ==
  /\ \A w \in Workers, m \in Messages : WorkerHolds(w, m)' => WorkerHolds(w, m)
  /\ \A t \in Tools, m \in Messages : ToolHolds(t, m)' => ToolHolds(t, m)

LEMMA HoldersKept ==
  ASSUME OneHolder, NoNewHolders
  PROVE  OneHolder'
BY DEF OneHolder, NoNewHolders

\* A worker that takes hold of messages nobody holds.
LEMMA HolderAdded ==
  ASSUME OneHolder, NEW w \in Workers, Others(w), UNCHANGED tool,
         \A m \in Messages : WorkerHolds(w, m)' => ~Held(m)
  PROVE  OneHolder'
<1>1. \A v \in Workers \ {w}, m \in Messages : WorkerHolds(v, m)' => WorkerHolds(v, m)
  BY DEF Others, WorkerHolds
<1>2. \A t \in Tools, m \in Messages : ToolHolds(t, m)' <=> ToolHolds(t, m)
  BY DEF ToolHolds
<1>3. \A m \in Messages, v \in Workers : WorkerHolds(v, m) => Held(m)
  BY DEF Held
<1>4. \A m \in Messages, t \in Tools : ToolHolds(t, m) => Held(m)
  BY DEF Held
<1>5. \A m \in Messages, u, v \in Workers : WorkerHolds(u, m)' /\ WorkerHolds(v, m)' => u = v
  BY <1>1, <1>3 DEF OneHolder
<1>6. \A m \in Messages, u \in Workers, t \in Tools : ~(WorkerHolds(u, m)' /\ ToolHolds(t, m)')
  BY <1>1, <1>2, <1>4 DEF OneHolder
<1>7. \A m \in Messages, t, u \in Tools : ToolHolds(t, m)' /\ ToolHolds(u, m)' => t = u
  BY <1>2 DEF OneHolder
<1> QED
  BY <1>5, <1>6, <1>7 DEF OneHolder

\* A poll holds what nobody held, as it is.
LEMMA PollKeepsChains ==
  ASSUME ScheduleInv, ChainInv, NEW w \in Workers, PollStarts(w)
  PROVE  ChainInv'
<1> USE DEF ChainInv
<1>1. /\ worker[w].pc = "idle" /\ worker'[w].pc = "choosing"
      /\ worker'[w].msg = "none" /\ worker'[w].number = 1
      /\ worker'[w].todo = MessagesToFire
      /\ \A m \in MessagesToFire : worker'[w].seen[m] = row[m]
      /\ Others(w)
  BY PollEffect
<1>2. UNCHANGED <<row, tool, attempt, retries>>
  BY DEF PollStarts
<1>3. MessagesToFire \subseteq Messages /\ \A m \in MessagesToFire : row[m].there
  BY DEF MessagesToFire
<1>4. Tidy'
  BY <1>1, <1>3, NamesAssumption, TidyKept
<1> SUFFICES ASSUME ~overlap'
             PROVE  /\ OneHolder' /\ HoldersAgree'
                    /\ RecordersBehind' /\ AttemptsBehind'
                    /\ RetriesFollow' /\ WorkersFollow' /\ AttemptsFollow'
  BY <1>4
<1>5. ~overlap /\ \A m \in MessagesToFire : ~Held(m)
  BY DEF PollStarts
<1>6. \A m \in Messages : WorkerHolds(w, m)' => m \in MessagesToFire
  BY <1>1 DEF WorkerHolds
<1>7. OneHolder'
  BY <1>1, <1>2, <1>5, <1>6, HolderAdded
<1>8. HoldersAgree'
  <2>1. ASSUME NEW m \in Messages, NEW v \in Workers, WorkerHolds(v, m)'
        PROVE  Agrees(worker[v].seen[m], m)'
    <3>1. CASE v = w
      BY <1>1, <1>2, <1>3, <1>6, <2>1, <3>1 DEF Agrees
    <3>2. CASE v # w
      BY <1>1, <1>2, <1>5, <2>1, <3>2 DEF Agrees, HoldersAgree, WorkerHolds, Others
    <3> QED
      BY <3>1, <3>2
  <2>2. ASSUME NEW m \in Messages, NEW t \in Tools, ToolHolds(t, m)'
        PROVE  Agrees(tool[t].seen, m)'
    BY <1>2, <1>5, <2>2 DEF Agrees, HoldersAgree, ToolHolds
  <2> QED
    BY <2>1, <2>2 DEF HoldersAgree
<1>9. \A v \in Workers : Busy(v)' \/ worker'[v].pc = "recording" => v # w /\ worker'[v] = worker[v]
  BY <1>1 DEF Busy, Others
<1>10. RecordersBehind'
  BY <1>2, <1>5, <1>9 DEF RecordersBehind, Trigger
<1>11. AttemptsBehind' /\ RetriesFollow' /\ AttemptsFollow'
  BY <1>2, <1>5 DEF AttemptsBehind, RetriesFollow, AttemptsFollow, Follows
<1>12. WorkersFollow'
  BY <1>2, <1>5, <1>9 DEF WorkersFollow, Busy, Trigger, Follows
<1> QED
  BY <1>7, <1>8, <1>10, <1>11, <1>12

\* A retry holds what nobody held, and follows the attempt that asked for it.
LEMMA RetryKeepsChains ==
  ASSUME ScheduleInv, ChainInv, NEW w \in Workers, NEW m \in Messages, NEW n \in RetryNumbers,
         RetryStarts(w, m, n)
  PROVE  ChainInv'
<1> USE DEF ChainInv
<1>1. UNCHANGED <<row, tool, attempt>>
  BY DEF RetryStarts
<1>2. \A x \in Messages, k \in RetryNumbers : retries'[<<x, k>>] > 0 => retries[<<x, k>>] > 0
  <2> SUFFICES ASSUME NEW x \in Messages, NEW k \in RetryNumbers, retries'[<<x, k>>] > 0
               PROVE  retries[<<x, k>>] > 0
    OBVIOUS
  <2>1. retries[<<x, k>>] \in Nat /\ retries[<<m, n>>] > 0
    BY DEF RetryStarts, ScheduleInv, SchedulesTypeOK
  <2>2. <<x, k>> = <<m, n>> \/ retries'[<<x, k>>] = retries[<<x, k>>]
    BY DEF RetryStarts, ScheduleInv, SchedulesTypeOK
  <2> QED
    BY <2>1, <2>2
<1>3. ~overlap' => AttemptsBehind' /\ AttemptsFollow' /\ RetriesFollow'
  <2> SUFFICES ASSUME ~overlap' PROVE AttemptsBehind' /\ AttemptsFollow' /\ RetriesFollow'
    OBVIOUS
  <2>1. ~overlap
    BY DEF RetryStarts
  <2>2. AttemptsBehind' /\ AttemptsFollow'
    BY <1>1, <2>1 DEF AttemptsBehind, AttemptsFollow, Follows
  <2>3. RetriesFollow'
    BY <1>1, <1>2, <2>1 DEF RetriesFollow, Follows
  <2> QED
    BY <2>2, <2>3
<1>4. CASE ~row[m].there
  <2>1. UNCHANGED <<worker, overlap>>
    BY <1>4 DEF RetryStarts
  <2>2. Tidy' /\ (~overlap' => OneHolder' /\ HoldersAgree' /\ RecordersBehind' /\ WorkersFollow')
    BY <1>1, <2>1 DEF Tidy, OneHolder, HoldersAgree, RecordersBehind, WorkersFollow,
       WorkerHolds, ToolHolds, Agrees, Trigger, Busy, Follows
  <2> QED
    BY <1>3, <2>2
<1>5. CASE row[m].there
  <2>1. /\ worker[w].pc = "idle" /\ worker'[w].pc = "sending"
        /\ worker'[w].msg = m /\ worker'[w].number = n
        /\ worker'[w].todo = {} /\ worker'[w].seen[m] = row[m]
        /\ Others(w)
    BY <1>5, RetryEffect
  <2>2. Tidy'
    BY <2>1, TidyKept
  <2> SUFFICES ASSUME ~overlap'
               PROVE  OneHolder' /\ HoldersAgree' /\ RecordersBehind' /\ WorkersFollow'
    BY <1>3, <2>2
  <2>3. ~overlap /\ ~Held(m)
    BY <1>5 DEF RetryStarts
  <2>4. \A x \in Messages : WorkerHolds(w, x)' => x = m
    BY <2>1 DEF WorkerHolds
  <2>5. OneHolder'
    BY <1>1, <2>1, <2>3, <2>4, HolderAdded
  <2>6. HoldersAgree'
    <3>1. ASSUME NEW x \in Messages, NEW v \in Workers, WorkerHolds(v, x)'
          PROVE  Agrees(worker[v].seen[x], x)'
      <4>1. CASE v = w
        BY <1>1, <1>5, <2>1, <2>4, <3>1, <4>1 DEF Agrees
      <4>2. CASE v # w
        BY <1>1, <2>1, <2>3, <3>1, <4>2 DEF Agrees, HoldersAgree, WorkerHolds, Others
      <4> QED
        BY <4>1, <4>2
    <3>2. ASSUME NEW x \in Messages, NEW t \in Tools, ToolHolds(t, x)'
          PROVE  Agrees(tool[t].seen, x)'
      BY <1>1, <2>3, <3>2 DEF Agrees, HoldersAgree, ToolHolds
    <3> QED
      BY <3>1, <3>2 DEF HoldersAgree
  <2>7. RecordersBehind'
    <3>1. \A v \in Workers : worker'[v].pc = "recording" => worker'[v] = worker[v]
      BY <2>1 DEF Others
    <3> QED
      BY <1>1, <2>3, <3>1 DEF RecordersBehind, Trigger
  <2>8. WorkersFollow'
    <3> SUFFICES ASSUME NEW v \in Workers, Busy(v)', worker'[v].number > 1,
                        row'[worker'[v].msg].there
                 PROVE  Follows(worker'[v].msg, worker'[v].number, Trigger(v)')
      BY <1>1 DEF WorkersFollow, Follows
    <3>1. CASE v = w
      <4>1. Trigger(v)' = row[m].triggers
        BY <2>1, <3>1 DEF Trigger
      <4>2. Follows(m, n, row[m].triggers)
        BY <1>5, <2>3 DEF RetriesFollow, RetryStarts
      <4> QED
        BY <2>1, <3>1, <4>1, <4>2
    <3>2. CASE v # w
      <4>1. worker'[v] = worker[v]
        BY <2>1, <3>2 DEF Others
      <4> QED
        BY <1>1, <2>3, <4>1 DEF WorkersFollow, Busy, Trigger
    <3> QED
      BY <3>1, <3>2
  <2> QED
    BY <2>5, <2>6, <2>7, <2>8
<1> QED
  BY <1>4, <1>5

\* A worker that keeps what it holds, or less, and everything else stays.
LEMMA TakeKeepsChains ==
  ASSUME ScheduleInv, ChainInv, NEW w \in Workers, NEW m \in Messages, TakesNext(w, m)
  PROVE  ChainInv'
<1> USE DEF ChainInv
<1>1. /\ worker[w].pc = "choosing" /\ worker'[w].pc = "sending"
      /\ m \in worker[w].todo /\ worker'[w].todo = worker[w].todo \ {m}
      /\ worker'[w].msg = m /\ worker'[w].number = worker[w].number
      /\ worker'[w].seen = worker[w].seen
      /\ Others(w)
  BY TakeEffect
<1>2. UNCHANGED <<row, tool, attempt, retries, overlap>>
  BY DEF TakesNext
<1>3. worker[w].number = 1
  BY <1>1 DEF Tidy
<1>4. Tidy'
  BY <1>1, <1>3, TidyKept
<1> SUFFICES ASSUME ~overlap
             PROVE  /\ OneHolder' /\ HoldersAgree'
                    /\ RecordersBehind' /\ AttemptsBehind'
                    /\ RetriesFollow' /\ WorkersFollow' /\ AttemptsFollow'
  BY <1>2, <1>4
<1>5. \A v \in Workers, x \in Messages : WorkerHolds(v, x)' => WorkerHolds(v, x)
  BY <1>1 DEF WorkerHolds, Others
<1>6. OneHolder'
  BY <1>2, <1>5, HoldersKept DEF NoNewHolders, ToolHolds
<1>7. \A v \in Workers : worker'[v].seen = worker[v].seen
  BY <1>1 DEF Others
<1>8. HoldersAgree'
  BY <1>2, <1>5, <1>7 DEF HoldersAgree, Agrees, ToolHolds
<1>9. RecordersBehind'
  <2>1. \A v \in Workers : worker'[v].pc = "recording" => worker'[v] = worker[v]
    BY <1>1 DEF Others
  <2> QED
    BY <1>2, <2>1 DEF RecordersBehind, Trigger
<1>10. AttemptsBehind' /\ RetriesFollow' /\ AttemptsFollow'
  BY <1>2 DEF AttemptsBehind, RetriesFollow, AttemptsFollow, Follows
<1>11. WorkersFollow'
  <2>1. \A v \in Workers : worker'[v].number > 1 => worker'[v] = worker[v]
    BY <1>1, <1>3 DEF Others
  <2> QED
    BY <1>2, <2>1 DEF WorkersFollow, Busy, Trigger, Follows
<1> QED
  BY <1>6, <1>8, <1>9, <1>10, <1>11

LEMMA SendKeepsChains ==
  ASSUME ScheduleInv, ChainInv, NEW w \in Workers, NEW outcome \in {"sent", "skipped", "failed"},
         Sends(w, outcome)
  PROVE  ChainInv'
<1> USE DEF ChainInv
<1>1. /\ worker[w].pc = "sending" /\ worker'[w].pc = "saving"
      /\ worker'[w].msg = worker[w].msg /\ worker'[w].number = worker[w].number
      /\ worker'[w].todo = worker[w].todo /\ worker'[w].seen = worker[w].seen
      /\ Others(w)
  BY SendEffect
<1>2. UNCHANGED <<row, tool, attempt, retries, overlap>>
  BY DEF Sends
<1>4. Tidy'
  <2>1. worker[w].msg \notin worker[w].todo /\ (worker[w].todo # {} => worker[w].number = 1)
    BY DEF Tidy
  <2> QED
    BY <1>1, <2>1, TidyKept
<1> SUFFICES ASSUME ~overlap
             PROVE  /\ OneHolder' /\ HoldersAgree'
                    /\ RecordersBehind' /\ AttemptsBehind'
                    /\ RetriesFollow' /\ WorkersFollow' /\ AttemptsFollow'
  BY <1>2, <1>4
<1>5. \A v \in Workers, x \in Messages : WorkerHolds(v, x)' => WorkerHolds(v, x)
  BY <1>1 DEF WorkerHolds, Others
<1>6. OneHolder'
  BY <1>2, <1>5, HoldersKept DEF NoNewHolders, ToolHolds
<1>7. \A v \in Workers : /\ worker'[v].seen = worker[v].seen /\ worker'[v].msg = worker[v].msg
                         /\ worker'[v].number = worker[v].number
                         /\ worker'[v].pc = "recording" <=> worker[v].pc = "recording"
                         /\ Busy(v)' <=> Busy(v)
  BY <1>1 DEF Others, Busy
<1>8. HoldersAgree'
  BY <1>2, <1>5, <1>7 DEF HoldersAgree, Agrees, ToolHolds
<1>9. RecordersBehind'
  BY <1>2, <1>7 DEF RecordersBehind, Trigger
<1>10. AttemptsBehind' /\ RetriesFollow' /\ AttemptsFollow'
  BY <1>2 DEF AttemptsBehind, RetriesFollow, AttemptsFollow, Follows
<1>11. WorkersFollow'
  BY <1>2, <1>7 DEF WorkersFollow, Trigger, Follows
<1> QED
  BY <1>6, <1>8, <1>9, <1>10, <1>11

\* The row that is saved counts one trigger more than the committed one, which only
\* its holder could change.
LEMMA SaveKeepsChains ==
  ASSUME ScheduleInv, ChainInv, NEW w \in Workers, Saves(w)
  PROVE  ChainInv'
<1> USE DEF ChainInv
<1>1. /\ worker[w].pc = "saving" /\ worker'[w].pc = "recording"
      /\ worker'[w].msg = worker[w].msg /\ worker'[w].number = worker[w].number
      /\ worker'[w].todo = worker[w].todo /\ worker'[w].seen = worker[w].seen
      /\ Others(w)
      /\ row'[worker[w].msg].there
      /\ row'[worker[w].msg].triggers = Trigger(w) + 1
      /\ \A x \in Messages \ {worker[w].msg} : row'[x] = row[x]
  BY SaveEffect
<1>2. UNCHANGED <<tool, attempt, retries, overlap>>
  BY DEF Saves
<1>3. PICK m \in Messages : m = worker[w].msg
  BY <1>1 DEF ScheduleInv, TriggersHaveMessages, SchedulesTypeOK, Worker
<1>4. m \notin worker[w].todo /\ (worker[w].todo # {} => worker[w].number = 1)
  BY <1>3 DEF Tidy
<1>5. Tidy'
  BY <1>1, <1>3, <1>4, TidyKept
<1> SUFFICES ASSUME ~overlap
             PROVE  /\ OneHolder' /\ HoldersAgree'
                    /\ RecordersBehind' /\ AttemptsBehind'
                    /\ RetriesFollow' /\ WorkersFollow' /\ AttemptsFollow'
  BY <1>2, <1>5
<1>6. WorkerHolds(w, m)
  BY <1>1, <1>3 DEF WorkerHolds
<1>7. row[m].there /\ row[m].triggers = Trigger(w) /\ Trigger(w) \in Nat
  <2>1. Agrees(worker[w].seen[m], m)
    BY <1>6 DEF HoldersAgree
  <2> QED
    BY <1>3, <2>1 DEF Agrees, Trigger, ScheduleInv, SchedulesTypeOK, Row
<1>8. \A v \in Workers, x \in Messages : WorkerHolds(v, x)' => WorkerHolds(v, x) /\ x # m
  <2> SUFFICES ASSUME NEW v \in Workers, NEW x \in Messages, WorkerHolds(v, x)'
               PROVE  WorkerHolds(v, x) /\ x # m
    OBVIOUS
  <2>1. CASE v = w
    BY <1>1, <1>4, <2>1 DEF WorkerHolds
  <2>2. CASE v # w
    BY <1>1, <1>6, <2>2 DEF WorkerHolds, Others, OneHolder
  <2> QED
    BY <2>1, <2>2
<1>9. \A t \in Tools, x \in Messages : ToolHolds(t, x)' => ToolHolds(t, x) /\ x # m
  BY <1>2, <1>6 DEF ToolHolds, OneHolder
<1>10. OneHolder'
  BY <1>8, <1>9, HoldersKept DEF NoNewHolders
<1>11. \A v \in Workers : /\ worker'[v].seen = worker[v].seen /\ worker'[v].msg = worker[v].msg
                          /\ worker'[v].number = worker[v].number
                          /\ Busy(v)' <=> Busy(v)
                          /\ Trigger(v)' = Trigger(v)
                          /\ worker'[v].pc = "recording" => worker[v].pc = "recording" \/ v = w
  BY <1>1 DEF Others, Busy, Trigger
<1>12. \A x \in Messages \ {m} : row'[x] = row[x]
  BY <1>1, <1>3
<1>13. HoldersAgree'
  BY <1>2, <1>8, <1>9, <1>11, <1>12 DEF HoldersAgree, Agrees
<1>14. \A x \in Messages : /\ row[x].triggers \in Nat /\ row'[x].triggers \in Nat
                           /\ row'[x].triggers >= row[x].triggers
                           /\ row'[x].there = row[x].there
  <2> SUFFICES ASSUME NEW x \in Messages
               PROVE  /\ row[x].triggers \in Nat /\ row'[x].triggers \in Nat
                      /\ row'[x].triggers >= row[x].triggers
                      /\ row'[x].there = row[x].there
    OBVIOUS
  <2>0. row[x].triggers \in Nat /\ row'[m].there = TRUE /\ row[m].there = TRUE
    <3>1. row[x] \in Row /\ row[m] \in Row /\ row'[m] \in Row
      BY SavePreserves DEF ScheduleInv, SchedulesTypeOK
    <3> QED
      BY <1>1, <1>3, <1>7, <3>1 DEF Row
  <2>1. CASE x = m
    <3>1. row'[m].triggers = row[m].triggers + 1
      BY <1>1, <1>3, <1>7
    <3>2. row[x].triggers \in Nat /\ row'[x].triggers = row[x].triggers + 1
      BY <2>0, <2>1, <3>1
    <3>3. row'[x].there = row[x].there
      BY <2>0, <2>1
    <3> QED
      BY <3>2, <3>3
  <2>2. CASE x # m
    BY <1>12, <2>0, <2>2
  <2> QED
    BY <2>1, <2>2
<1>15. \A n : \A x \in Messages : Follows(x, n, row[x].triggers) => Follows(x, n, row'[x].triggers)
  <2> SUFFICES ASSUME NEW x \in Messages, NEW n, NEW b \in attempt,
                      b.msg = x, b.number = n - 1, b.result = "failure",
                      b.trigger < row[x].triggers
               PROVE  b.trigger < row'[x].triggers
    BY DEF Follows
  <2>1. b.trigger \in Nat
    BY DEF ScheduleInv, SchedulesTypeOK, Attempt
  <2> QED
    BY <1>14, <2>1
<1>16. RecordersBehind'
  <2> SUFFICES ASSUME NEW v \in Workers, worker'[v].pc = "recording", row'[worker[v].msg].there
               PROVE  Trigger(v) < row'[worker[v].msg].triggers
    BY <1>11 DEF RecordersBehind
  <2>1. CASE v = w
    BY <1>1, <1>7, <2>1
  <2>2. CASE v # w
    <3>1. worker[v].pc = "recording" /\ worker[v].msg \in Messages
      BY <1>11, <2>2 DEF ScheduleInv, TriggersHaveMessages, SchedulesTypeOK, Worker
    <3>2. Trigger(v) \in Nat
      BY <3>1 DEF Trigger, ScheduleInv, SchedulesTypeOK, Worker, Row
    <3>3. Trigger(v) < row[worker[v].msg].triggers
      BY <1>14, <3>1 DEF RecordersBehind
    <3> QED
      BY <1>14, <3>1, <3>2, <3>3
  <2> QED
    BY <2>1, <2>2
<1>17. AttemptsBehind'
  <2> SUFFICES ASSUME NEW a \in attempt
               PROVE  row'[a.msg].there /\ a.trigger < row'[a.msg].triggers
    BY <1>2 DEF AttemptsBehind
  <2>1. a.msg \in Messages /\ a.trigger \in Nat
    BY DEF ScheduleInv, SchedulesTypeOK, Attempt
  <2>2. row[a.msg].there /\ a.trigger < row[a.msg].triggers
    BY DEF AttemptsBehind
  <2> QED
    BY <1>14, <2>1, <2>2
<1>18. RetriesFollow'
  <2> SUFFICES ASSUME NEW x \in Messages, NEW n \in RetryNumbers,
                      row'[x].there, retries[<<x, n>>] > 0
               PROVE  Follows(x, n, row'[x].triggers)
    BY <1>2 DEF RetriesFollow, Follows
  <2>1. row[x].there
    BY <1>14
  <2> QED
    BY <1>15, <2>1 DEF RetriesFollow
<1>19. WorkersFollow'
  <2> SUFFICES ASSUME NEW v \in Workers, Busy(v), worker[v].number > 1, row'[worker[v].msg].there
               PROVE  Follows(worker[v].msg, worker[v].number, Trigger(v))
    BY <1>2, <1>11 DEF WorkersFollow, Follows
  <2>1. worker[v].msg \in Messages
    BY DEF ScheduleInv, TriggersHaveMessages, SchedulesTypeOK, Worker, Busy
  <2> QED
    BY <1>14, <2>1 DEF WorkersFollow
<1>20. AttemptsFollow'
  BY <1>2 DEF AttemptsFollow, Follows
<1> QED
  BY <1>10, <1>13, <1>16, <1>17, <1>18, <1>19, <1>20

\* A recorded attempt is of an earlier trigger than the row counts, and a retry that
\* it asks for follows it.
LEMMA RecordKeepsChains ==
  ASSUME ScheduleInv, ChainInv, NEW w \in Workers, Records(w)
  PROVE  ChainInv'
<1> USE DEF ChainInv
<1>1. /\ worker[w].pc = "recording" /\ worker'[w].pc \in {"idle", "choosing"}
      /\ worker'[w].pc = "idle" => worker'[w].todo = {}
      /\ worker'[w].msg = "none" /\ worker'[w].number = 1
      /\ worker'[w].todo = worker[w].todo
      /\ \A m \in worker[w].todo : worker'[w].seen[m] = worker[w].seen[m]
      /\ Others(w)
  BY ContinueEffect
<1>2. UNCHANGED <<row, tool, overlap>>
  BY DEF Records
<1>3. worker[w] \in Worker
  BY DEF ScheduleInv, SchedulesTypeOK
<1>4. PICK m \in Messages : m = worker[w].msg
  BY <1>1, <1>3 DEF ScheduleInv, TriggersHaveMessages, Worker
<1>5. PICK k \in Nat : k = worker[w].seen[m].triggers /\ k = Trigger(w)
  BY <1>3, <1>4 DEF Worker, Row, Trigger
<1>6. PICK n \in AttemptNumbers : n = worker[w].number
  BY <1>3 DEF Worker
<1> DEFINE new == NewAttempt(w)
<1>7. /\ new.msg = m /\ new.trigger = k /\ new.number = n
      /\ attempt' = attempt \union {new}
      /\ row[m].there
  <2>1. new.msg = m /\ new.trigger = k /\ new.number = n
    BY <1>4, <1>5, <1>6 DEF NewAttempt
  <2>2. attempt' = attempt \union {new} /\ row[new.msg].there
    BY DEF Records, Recordable
  <2> QED
    BY <2>1, <2>2
<1>8. Tidy'
  <2>1. worker'[w].msg \notin worker'[w].todo
    BY <1>1, <1>3, NamesAssumption DEF Worker
  <2> QED
    BY <1>1, <2>1, TidyKept
<1> SUFFICES ASSUME ~overlap
             PROVE  /\ OneHolder' /\ HoldersAgree'
                    /\ RecordersBehind' /\ AttemptsBehind'
                    /\ RetriesFollow' /\ WorkersFollow' /\ AttemptsFollow'
  BY <1>2, <1>8
<1>9. \A v \in Workers, x \in Messages : WorkerHolds(v, x)' => WorkerHolds(v, x)
  BY <1>1 DEF WorkerHolds, Others
<1>10. OneHolder'
  BY <1>2, <1>9, HoldersKept DEF NoNewHolders, ToolHolds
<1>11. HoldersAgree'
  <2>1. ASSUME NEW x \in Messages, NEW v \in Workers, WorkerHolds(v, x)'
        PROVE  Agrees(worker[v].seen[x], x)'
    <3>1. CASE v = w
      <4>1. x \in worker[w].todo
        BY <1>1, <2>1, <3>1 DEF WorkerHolds
      <4> QED
        BY <1>1, <1>2, <3>1, <4>1 DEF Agrees, HoldersAgree, WorkerHolds
    <3>2. CASE v # w
      BY <1>1, <1>2, <2>1, <3>2 DEF Agrees, HoldersAgree, WorkerHolds, Others
    <3> QED
      BY <3>1, <3>2
  <2>2. ASSUME NEW x \in Messages, NEW t \in Tools, ToolHolds(t, x)'
        PROVE  Agrees(tool[t].seen, x)'
    BY <1>2, <2>2 DEF Agrees, HoldersAgree, ToolHolds
  <2> QED
    BY <2>1, <2>2 DEF HoldersAgree
<1>12. \A v \in Workers : Busy(v)' \/ worker'[v].pc = "recording" => v # w /\ worker'[v] = worker[v]
  BY <1>1 DEF Busy, Others
<1>13. RecordersBehind'
  BY <1>2, <1>12 DEF RecordersBehind, Trigger
<1>14. k < row[m].triggers
  BY <1>1, <1>4, <1>5, <1>7 DEF RecordersBehind
<1>15. AttemptsBehind'
  BY <1>2, <1>7, <1>14 DEF AttemptsBehind
<1>16. \A x, i, j : Follows(x, i, j) => Follows(x, i, j)'
  BY <1>7 DEF Follows
<1>17. RetriesFollow'
  <2> SUFFICES ASSUME NEW x \in Messages, NEW i \in RetryNumbers,
                      row[x].there, retries'[<<x, i>>] > 0
               PROVE  Follows(x, i, row[x].triggers)'
    BY <1>2 DEF RetriesFollow, Follows
  <2>1. CASE retries[<<x, i>>] > 0
    <3>1. Follows(x, i, row[x].triggers)
      BY <2>1 DEF RetriesFollow
    <3> QED
      BY <1>2, <1>7, <3>1 DEF Follows
  <2>2. CASE ~(retries[<<x, i>>] > 0)
    <3>1. /\ new.result = "failure"
          /\ retries' = [retries EXCEPT ![<<m, NextAttemptNumber(n)>>] = @ + 1]
      <4>1. retries' # retries
        BY <2>2
      <4> QED
        BY <1>7, <4>1 DEF Records
    <3>2. <<x, i>> = <<m, NextAttemptNumber(n)>>
      BY <2>2, <3>1 DEF ScheduleInv, SchedulesTypeOK
    <3>3. x = m /\ i = n + 1
      BY <3>2 DEF NextAttemptNumber
    <3>4. i - 1 = n
      BY <3>3 DEF AttemptNumbers, RetryNumbers
    <3> QED
      BY <1>2, <1>7, <1>14, <3>1, <3>3, <3>4 DEF Follows
  <2> QED
    BY <2>1, <2>2
<1>18. WorkersFollow'
  <2> SUFFICES ASSUME NEW v \in Workers, Busy(v)', worker'[v].number > 1,
                      row'[worker'[v].msg].there
               PROVE  Follows(worker[v].msg, worker[v].number, Trigger(v))'
    BY <1>12 DEF WorkersFollow
  <2>1. worker'[v] = worker[v]
    BY <1>12
  <2>2. Follows(worker[v].msg, worker[v].number, Trigger(v))
    BY <1>2, <2>1 DEF WorkersFollow, Busy
  <2> QED
    BY <1>7, <2>1, <2>2 DEF Follows, Trigger
<1>19. AttemptsFollow'
  <2> SUFFICES ASSUME NEW a \in attempt', a.number > 1
               PROVE  Follows(a.msg, a.number, a.trigger)'
    BY DEF AttemptsFollow, Follows
  <2>1. Follows(a.msg, a.number, a.trigger)
    <3>1. CASE a \in attempt
      BY <3>1 DEF AttemptsFollow
    <3>2. CASE a = new
      BY <1>1, <1>4, <1>5, <1>6, <1>7, <3>2 DEF WorkersFollow, Busy
    <3> QED
      BY <1>7, <3>1, <3>2
  <2> QED
    BY <1>16, <2>1
<1> QED
  BY <1>10, <1>11, <1>13, <1>15, <1>17, <1>18, <1>19

\* A worker that stops holds nothing.
LEMMA StopKeepsChains ==
  ASSUME ScheduleInv, ChainInv, NEW w \in Workers, worker' = [worker EXCEPT ![w] = IdleWorker],
         UNCHANGED <<row, tool, attempt, retries, overlap>>
  PROVE  ChainInv'
<1> USE DEF ChainInv
<1>1. /\ worker'[w].pc = "idle" /\ worker'[w].msg = "none" /\ worker'[w].number = 1
      /\ worker'[w].todo = {}
      /\ Others(w)
  BY StopEffect
<1>2. Tidy'
  BY <1>1, TidyKept
<1> SUFFICES ASSUME ~overlap
             PROVE  /\ OneHolder' /\ HoldersAgree'
                    /\ RecordersBehind' /\ AttemptsBehind'
                    /\ RetriesFollow' /\ WorkersFollow' /\ AttemptsFollow'
  BY <1>2
<1>3. \A v \in Workers, x \in Messages :
        WorkerHolds(v, x)' => WorkerHolds(v, x) /\ worker'[v] = worker[v]
  BY <1>1 DEF WorkerHolds, Others
<1>4. OneHolder'
  BY <1>3, HoldersKept DEF NoNewHolders, ToolHolds
<1>5. HoldersAgree'
  BY <1>3 DEF HoldersAgree, Agrees, ToolHolds
<1>6. \A v \in Workers : Busy(v)' \/ worker'[v].pc = "recording" => worker'[v] = worker[v]
  BY <1>1 DEF Busy, Others
<1>7. RecordersBehind' /\ WorkersFollow'
  BY <1>6 DEF RecordersBehind, WorkersFollow, Trigger, Busy, Follows
<1>8. AttemptsBehind' /\ RetriesFollow' /\ AttemptsFollow'
  BY DEF AttemptsBehind, RetriesFollow, AttemptsFollow, Follows
<1> QED
  BY <1>4, <1>5, <1>7, <1>8

\* What is counted in the rows stays.
SameCounts ==
  \A m \in Messages : /\ row'[m].there = row[m].there
                      /\ row'[m].triggers = row[m].triggers
                      /\ row'[m].complete = row[m].complete

\* Changes of dates, and tools that save or end.
LEMMA EditKeepsChains ==
  ASSUME ScheduleInv, ChainInv, SameCounts, UNCHANGED <<worker, attempt, retries>>,
         \A t \in Tools : tool'[t] = tool[t] \/ tool'[t].msg \notin Messages,
         overlap => overlap'
  PROVE  ChainInv'
<1> USE DEF ChainInv
<1>1. Tidy'
  BY DEF Tidy
<1> SUFFICES ASSUME ~overlap'
             PROVE  /\ OneHolder' /\ HoldersAgree'
                    /\ RecordersBehind' /\ AttemptsBehind'
                    /\ RetriesFollow' /\ WorkersFollow' /\ AttemptsFollow'
  BY <1>1
<1>2. ~overlap
  OBVIOUS
<1>3. NoNewHolders /\ \A t \in Tools, m \in Messages : ToolHolds(t, m)' => tool'[t] = tool[t]
  BY DEF NoNewHolders, WorkerHolds, ToolHolds
<1>4. OneHolder'
  BY <1>2, <1>3, HoldersKept
<1>5. HoldersAgree'
  BY <1>2, <1>3 DEF HoldersAgree, Agrees, SameCounts, NoNewHolders
<1>6. \A v \in Workers : Busy(v) \/ worker[v].pc = "recording" => worker[v].msg \in Messages
  BY DEF Busy, ScheduleInv, TriggersHaveMessages, SchedulesTypeOK, Worker
<1>7. RecordersBehind' /\ WorkersFollow'
  BY <1>2, <1>6 DEF RecordersBehind, WorkersFollow, Trigger, Busy, Follows, SameCounts
<1>8. \A a \in attempt : a.msg \in Messages
  BY DEF ScheduleInv, SchedulesTypeOK, Attempt
<1>9. AttemptsBehind' /\ RetriesFollow' /\ AttemptsFollow'
  BY <1>2, <1>8 DEF AttemptsBehind, RetriesFollow, AttemptsFollow, Follows, SameCounts
<1> QED
  BY <1>4, <1>5, <1>7, <1>9

\* A tool holds what nobody held, as it is.
LEMMA LoadKeepsChains ==
  ASSUME ScheduleInv, ChainInv, NEW t \in Tools, NEW m \in Messages, NEW op \in {"cancel", "move"},
         ToolLoads(t, m, op)
  PROVE  ChainInv'
<1> USE DEF ChainInv
<1>1. /\ UNCHANGED <<row, worker, attempt, retries>> /\ row[m].there
      /\ tool' = [tool EXCEPT ![t] = [msg |-> m, op |-> op, seen |-> row[m]]]
  BY DEF ToolLoads, Edits
<1>2. /\ tool'[t].msg = m /\ tool'[t].seen = row[m]
      /\ \A u \in Tools \ {t} : tool'[u] = tool[u]
  BY <1>1 DEF ScheduleInv, SchedulesTypeOK
<1>3. Tidy'
  BY <1>1 DEF Tidy
<1> SUFFICES ASSUME ~overlap'
             PROVE  /\ OneHolder' /\ HoldersAgree'
                    /\ RecordersBehind' /\ AttemptsBehind'
                    /\ RetriesFollow' /\ WorkersFollow' /\ AttemptsFollow'
  BY <1>3
<1>4. ~overlap /\ ~Held(m)
  BY DEF ToolLoads, Edits
<1>5. \A w \in Workers, x \in Messages : WorkerHolds(w, x)' <=> WorkerHolds(w, x)
  BY <1>1 DEF WorkerHolds
<1>6. \A u \in Tools, x \in Messages : ToolHolds(u, x)' => (u = t /\ x = m) \/ ToolHolds(u, x)
  BY <1>2 DEF ToolHolds
<1>7. OneHolder'
  BY <1>4, <1>5, <1>6 DEF OneHolder, Held
<1>8. HoldersAgree'
  <2>1. ASSUME NEW x \in Messages, NEW w \in Workers, WorkerHolds(w, x)'
        PROVE  Agrees(worker[w].seen[x], x)'
    BY <1>1, <1>4, <1>5, <2>1 DEF Agrees, HoldersAgree
  <2>2. ASSUME NEW x \in Messages, NEW u \in Tools, ToolHolds(u, x)'
        PROVE  Agrees(tool[u].seen, x)'
    <3>1. CASE u = t
      BY <1>1, <1>2, <2>2, <3>1 DEF Agrees, ToolHolds
    <3>2. CASE u # t
      BY <1>1, <1>2, <1>4, <2>2, <3>2 DEF Agrees, HoldersAgree, ToolHolds
    <3> QED
      BY <3>1, <3>2
  <2> QED
    BY <2>1, <2>2 DEF HoldersAgree
<1>9. RecordersBehind' /\ WorkersFollow'
  BY <1>1, <1>4 DEF RecordersBehind, WorkersFollow, Trigger, Busy, Follows
<1>10. AttemptsBehind' /\ RetriesFollow' /\ AttemptsFollow'
  BY <1>1, <1>4 DEF AttemptsBehind, RetriesFollow, AttemptsFollow, Follows
<1> QED
  BY <1>7, <1>8, <1>9, <1>10

\* A message that is deleted takes its attempts with it.
LEMMA ArchiveKeepsChains ==
  ASSUME ScheduleInv, ChainInv, NEW m \in Messages, Archives(m)
  PROVE  ChainInv'
<1> USE DEF ChainInv
<1>1. /\ UNCHANGED <<worker, tool, retries>>
      /\ row' = [row EXCEPT ![m] = NoRow]
      /\ attempt' = {a \in attempt : a.msg # m}
  BY DEF Archives
<1>2. ~row'[m].there /\ \A x \in Messages \ {m} : row'[x] = row[x]
  BY <1>1 DEF ScheduleInv, SchedulesTypeOK, NoRow
<1>3. Tidy'
  BY <1>1 DEF Tidy
<1> SUFFICES ASSUME ~overlap'
             PROVE  /\ OneHolder' /\ HoldersAgree'
                    /\ RecordersBehind' /\ AttemptsBehind'
                    /\ RetriesFollow' /\ WorkersFollow' /\ AttemptsFollow'
  BY <1>3
<1>4. ~overlap /\ ~Held(m)
  BY DEF Archives, Edits
<1>5. NoNewHolders
  BY <1>1 DEF NoNewHolders, WorkerHolds, ToolHolds
<1>6. OneHolder'
  BY <1>4, <1>5, HoldersKept
<1>7. HoldersAgree'
  <2>1. ASSUME NEW x \in Messages, NEW w \in Workers, WorkerHolds(w, x)'
        PROVE  Agrees(worker[w].seen[x], x)'
    <3>1. WorkerHolds(w, x) /\ x # m
      BY <1>4, <1>5, <2>1 DEF NoNewHolders, Held
    <3> QED
      BY <1>1, <1>2, <1>4, <3>1 DEF Agrees, HoldersAgree
  <2>2. ASSUME NEW x \in Messages, NEW t \in Tools, ToolHolds(t, x)'
        PROVE  Agrees(tool[t].seen, x)'
    <3>1. ToolHolds(t, x) /\ x # m
      BY <1>4, <1>5, <2>2 DEF NoNewHolders, Held
    <3> QED
      BY <1>1, <1>2, <1>4, <3>1 DEF Agrees, HoldersAgree
  <2> QED
    BY <2>1, <2>2 DEF HoldersAgree
<1>8. \A w \in Workers : Busy(w) \/ worker[w].pc = "recording" => worker[w].msg \in Messages
  BY DEF Busy, ScheduleInv, TriggersHaveMessages, SchedulesTypeOK, Worker
<1>9. RecordersBehind'
  BY <1>1, <1>2, <1>4, <1>8 DEF RecordersBehind, Trigger
<1>10. \A i, j : \A x \in Messages \ {m} : Follows(x, i, j) => Follows(x, i, j)'
  BY <1>1 DEF Follows
<1>11. \A a \in attempt' : a \in attempt /\ a.msg \in Messages \ {m}
  BY <1>1 DEF ScheduleInv, SchedulesTypeOK, Attempt
<1>12. AttemptsBehind'
  BY <1>2, <1>4, <1>11 DEF AttemptsBehind
<1>13. RetriesFollow'
  <2> SUFFICES ASSUME NEW x \in Messages, NEW i \in RetryNumbers,
                      row'[x].there, retries[<<x, i>>] > 0
               PROVE  Follows(x, i, row[x].triggers)'
    BY <1>1 DEF RetriesFollow
  <2>1. x # m /\ row'[x] = row[x]
    BY <1>2
  <2>2. Follows(x, i, row[x].triggers)
    BY <1>4, <2>1 DEF RetriesFollow
  <2> QED
    BY <1>1, <2>1, <2>2 DEF Follows
<1>14. WorkersFollow'
  <2> SUFFICES ASSUME NEW w \in Workers, Busy(w), worker[w].number > 1,
                      row'[worker[w].msg].there
               PROVE  Follows(worker[w].msg, worker[w].number, Trigger(w))'
    BY <1>1 DEF WorkersFollow, Busy
  <2>1. worker[w].msg \in Messages \ {m} /\ row[worker[w].msg].there
    BY <1>2, <1>8
  <2>2. Follows(worker[w].msg, worker[w].number, Trigger(w))
    BY <1>4, <2>1 DEF WorkersFollow
  <2> QED
    BY <1>1, <2>1, <2>2 DEF Follows, Trigger
<1>15. AttemptsFollow'
  <2> SUFFICES ASSUME NEW a \in attempt', a.number > 1
               PROVE  Follows(a.msg, a.number, a.trigger)'
    BY DEF AttemptsFollow, Follows
  <2> QED
    BY <1>4, <1>10, <1>11 DEF AttemptsFollow
<1> QED
  BY <1>6, <1>7, <1>9, <1>12, <1>13, <1>14, <1>15

-----------------------------------------------------------------------------
\* CountInv is kept by every step: the parts that most steps leave alone.

LEMMA OneMore ==
  ASSUME NEW S, NEW x, IsFiniteSet(S), x \notin S
  PROVE  /\ IsFiniteSet(S \union {x})
         /\ Cardinality(S) \in Nat /\ Cardinality(S \union {x}) = Cardinality(S) + 1
BY FS_AddElement, FS_CardinalityType

LEMMA OneLess ==
  ASSUME NEW S, NEW x, IsFiniteSet(S), x \in S
  PROVE  /\ IsFiniteSet(S \ {x}) /\ Cardinality(S \ {x}) \in Nat
         /\ Cardinality(S) = Cardinality(S \ {x}) + 1
<1>1. IsFiniteSet(S \ {x}) /\ Cardinality(S \ {x}) = Cardinality(S) - 1
  BY FS_RemoveElement
<1>2. Cardinality(S \ {x}) \in Nat /\ Cardinality(S) \in Nat
  BY <1>1, FS_CardinalityType
<1> QED
  BY <1>1, <1>2

\* A worker that no set counts.
Calm(w) == \/ worker[w].pc \in {"idle", "choosing"}
           \/ worker[w].pc = "sending" /\ worker[w].number = 1

SameSets ==
  \A m \in Messages : /\ Recorders(m)' = Recorders(m) /\ Live(m)' = Live(m)
                      /\ Saving(m)' <=> Saving(m)

OnlyCalm == \A v \in Workers : worker'[v] = worker[v] \/ (Calm(v) /\ Calm(v)')

LEMMA CalmSteps ==
  ASSUME OnlyCalm PROVE SameSets
<1> SUFFICES ASSUME NEW m \in Messages
             PROVE  /\ Recorders(m)' = Recorders(m) /\ Live(m)' = Live(m)
                    /\ Saving(m)' <=> Saving(m)
  BY DEF SameSets
<1>1. \A v \in Workers : v \in Recorders(m)' <=> v \in Recorders(m)
  BY DEF Recorders, OnlyCalm, Calm
<1>2. \A v \in Workers : v \in Live(m)' <=> v \in Live(m)
  BY DEF Live, OnlyCalm, Calm
<1>3. Saving(m)' <=> Saving(m)
  BY DEF Saving, OnlyCalm, Calm
<1>4. Recorders(m)' = Recorders(m)
  BY <1>1 DEF Recorders
<1>5. Live(m)' = Live(m)
  BY <1>2 DEF Live
<1> QED
  BY <1>3, <1>4, <1>5

LEMMA TalliesKept ==
  ASSUME AttemptsTally, TriesTally, SendsTally, SameCounts, SameSets,
         UNCHANGED <<attempt, tries, sent, retries>>
  PROVE  AttemptsTally' /\ TriesTally' /\ SendsTally'
<1>1. \A m \in Messages : AttemptsOf(m)' = AttemptsOf(m)
  BY DEF AttemptsOf
<1>2. AttemptsTally'
  BY <1>1 DEF AttemptsTally, SameCounts, SameSets
<1>3. TriesTally'
  BY DEF TriesTally, SameCounts, SameSets
<1>4. SendsTally'
  BY DEF SendsTally, SameSets, Queued, Budget
<1> QED
  BY <1>2, <1>3, <1>4

\* No worker begins to record, and no attempt is added.
LEMMA DifferKept ==
  ASSUME RecordersDiffer, attempt' \subseteq attempt,
         \A v \in Workers : worker'[v].pc = "recording" => worker'[v] = worker[v]
  PROVE  RecordersDiffer'
BY DEF RecordersDiffer, Trigger

LEMMA CompleteKept ==
  ASSUME CompleteInTime, SameCounts PROVE CompleteInTime'
BY DEF CompleteInTime, SameCounts

\* A worker whose loaded rows are still to be sent for the first time.
LEMMA FirstsKept ==
  ASSUME FirstsIncomplete, NEW w \in Workers, Others(w),
         \A m \in worker'[w].todo : ~worker'[w].seen[m].complete,
         worker'[w].pc = "sending" /\ worker'[w].number = 1 =>
           ~worker'[w].seen[worker'[w].msg].complete
  PROVE  FirstsIncomplete'
<1> SUFFICES ASSUME NEW v \in Workers
             PROVE  /\ \A m \in worker'[v].todo : ~worker'[v].seen[m].complete
                    /\ worker'[v].pc = "sending" /\ worker'[v].number = 1 =>
                         ~worker'[v].seen[worker'[v].msg].complete
  BY DEF FirstsIncomplete
<1>1. CASE v = w
  BY <1>1
<1>2. CASE v # w
  BY <1>2 DEF FirstsIncomplete, Others
<1> QED
  BY <1>1, <1>2

LEMMA PollKeepsCounts ==
  ASSUME ScheduleInv, CountInv, NEW w \in Workers, PollStarts(w)
  PROVE  CountInv'
<1> USE DEF CountInv
<1>1. /\ worker[w].pc = "idle" /\ worker'[w].pc = "choosing"
      /\ worker'[w].msg = "none" /\ worker'[w].number = 1
      /\ worker'[w].todo = MessagesToFire
      /\ \A m \in MessagesToFire : worker'[w].seen[m] = row[m]
      /\ Others(w)
  BY PollEffect
<1>2. /\ UNCHANGED <<row, attempt, retries, tries, sent, deaths>>
      /\ overlap => overlap'
  BY DEF PollStarts
<1> SUFFICES ASSUME ~overlap, deaths = 0
             PROVE  /\ CompleteInTime' /\ FirstsIncomplete' /\ RecordersDiffer'
                    /\ AttemptsTally' /\ TriesTally' /\ SendsTally'
  BY <1>2
<1>3. SameCounts
  BY <1>2 DEF SameCounts
<1>4. SameSets
  <2>1. Calm(w) /\ Calm(w)'
    BY <1>1 DEF Calm
  <2>2. OnlyCalm
    BY <1>1, <2>1 DEF Others, OnlyCalm
  <2> QED
    BY <2>2, CalmSteps
<1>5. FirstsIncomplete'
  <2>1. \A m \in worker'[w].todo : ~worker'[w].seen[m].complete
    BY <1>1 DEF MessagesToFire
  <2> QED
    BY <1>1, <2>1, FirstsKept
<1>6. RecordersDiffer'
  <2>1. \A v \in Workers : worker'[v].pc = "recording" => worker'[v] = worker[v]
    BY <1>1 DEF Others
  <2> QED
    BY <1>2, <2>1, DifferKept
<1> QED
  BY <1>2, <1>3, <1>4, <1>5, <1>6, CompleteKept, TalliesKept

LEMMA TakeKeepsCounts ==
  ASSUME ScheduleInv, ChainInv, CountInv, NEW w \in Workers, NEW m \in Messages, TakesNext(w, m)
  PROVE  CountInv'
<1> USE DEF CountInv
<1>1. /\ worker[w].pc = "choosing" /\ worker'[w].pc = "sending"
      /\ m \in worker[w].todo /\ worker'[w].todo = worker[w].todo \ {m}
      /\ worker'[w].msg = m /\ worker'[w].number = worker[w].number
      /\ worker'[w].seen = worker[w].seen
      /\ Others(w)
  BY TakeEffect
<1>2. UNCHANGED <<row, attempt, retries, tries, sent, deaths, overlap>>
  BY DEF TakesNext
<1> SUFFICES ASSUME ~overlap, deaths = 0
             PROVE  /\ CompleteInTime' /\ FirstsIncomplete' /\ RecordersDiffer'
                    /\ AttemptsTally' /\ TriesTally' /\ SendsTally'
  BY <1>2
<1>3. SameCounts
  BY <1>2 DEF SameCounts
<1>4. SameSets
  <2>1. worker[w].number = 1
    BY <1>1 DEF ChainInv, Tidy
  <2>2. Calm(w) /\ Calm(w)'
    BY <1>1, <2>1 DEF Calm
  <2>3. OnlyCalm
    BY <1>1, <2>2 DEF Others, OnlyCalm
  <2> QED
    BY <2>3, CalmSteps
<1>5. FirstsIncomplete'
  <2>1. \A x \in worker[w].todo : ~worker[w].seen[x].complete
    BY DEF FirstsIncomplete
  <2> QED
    BY <1>1, <2>1, FirstsKept
<1>6. RecordersDiffer'
  <2>1. \A v \in Workers : worker'[v].pc = "recording" => worker'[v] = worker[v]
    BY <1>1 DEF Others
  <2> QED
    BY <1>2, <2>1, DifferKept
<1> QED
  BY <1>2, <1>3, <1>4, <1>5, <1>6, CompleteKept, TalliesKept

\* What a retry may send was queued before.
LEMMA RetryKeepsCounts ==
  ASSUME ScheduleInv, CountInv, NEW w \in Workers, NEW m \in Messages, NEW n \in RetryNumbers,
         RetryStarts(w, m, n)
  PROVE  CountInv'
<1> USE DEF CountInv
<1>1. /\ UNCHANGED <<row, attempt, tries, sent, deaths>>
      /\ retries' = [retries EXCEPT ![<<m, n>>] = retries[<<m, n>>] - 1]
      /\ retries[<<m, n>>] > 0
  BY DEF RetryStarts
<1>2. overlap => overlap'
  BY DEF RetryStarts
<1> SUFFICES ASSUME ~overlap, deaths = 0
             PROVE  /\ CompleteInTime' /\ FirstsIncomplete' /\ RecordersDiffer'
                    /\ AttemptsTally' /\ TriesTally' /\ SendsTally'
  BY <1>1, <1>2
<1>3. SameCounts
  BY <1>1 DEF SameCounts
<1>4. \A x \in Messages : /\ Queued(x) \in Nat /\ Queued(x)' \in Nat
                          /\ x # m => Queued(x)' = Queued(x)
                          /\ x = m => Queued(x)' = Queued(x) - 1
  <2> SUFFICES ASSUME NEW x \in Messages
               PROVE  /\ Queued(x) \in Nat /\ Queued(x)' \in Nat
                      /\ x # m => Queued(x)' = Queued(x)
                      /\ x = m => Queued(x)' = Queued(x) - 1
    OBVIOUS
  <2>1. \A k \in RetryNumbers : retries[<<x, k>>] \in Nat
    BY DEF ScheduleInv, SchedulesTypeOK
  <2>2. \A k \in RetryNumbers : retries'[<<x, k>>] = IF x = m /\ k = n THEN retries[<<m, n>>] - 1
                                                                       ELSE retries[<<x, k>>]
    BY <1>1 DEF ScheduleInv, SchedulesTypeOK
  <2> QED
    BY <1>1, <2>1, <2>2 DEF Queued, RetryNumbers
<1>5. CASE ~row[m].there
  <2>1. UNCHANGED worker
    BY <1>5 DEF RetryStarts
  <2>2. OnlyCalm
    BY <2>1 DEF OnlyCalm
  <2>3. SameSets
    BY <2>2, CalmSteps
  <2>4. FirstsIncomplete' /\ RecordersDiffer'
    BY <1>1, <2>1 DEF FirstsIncomplete, RecordersDiffer, Trigger
  <2>5. AttemptsTally' /\ TriesTally'
    BY <1>1, <1>3, <2>3 DEF AttemptsTally, TriesTally, AttemptsOf, SameCounts, SameSets
  <2>6. SendsTally'
    <3> SUFFICES ASSUME NEW x \in Messages
                 PROVE  /\ IsFiniteSet(Live(x)')
                        /\ sent'[x] + Queued(x)' + Cardinality(Live(x)') + Budget(x)' <= Expected
      BY DEF SendsTally
    <3>1. /\ IsFiniteSet(Live(x)) /\ Live(x)' = Live(x) /\ Budget(x)' = Budget(x)
          /\ sent[x] + Queued(x) + Cardinality(Live(x)) + Budget(x) <= Expected
      BY <1>1, <2>3 DEF SendsTally, SameSets, Budget
    <3>2. Cardinality(Live(x)) \in Nat /\ sent[x] \in Nat /\ Budget(x) \in Nat
      BY <3>1, FS_CardinalityType DEF ScheduleInv, SchedulesTypeOK, Budget
    <3> QED
      BY <1>1, <1>4, <3>1, <3>2
  <2> QED
    BY <1>3, <2>4, <2>5, <2>6, CompleteKept
<1>6. CASE row[m].there
  <2>1. /\ worker[w].pc = "idle" /\ worker'[w].pc = "sending"
        /\ worker'[w].msg = m /\ worker'[w].number = n
        /\ worker'[w].todo = {} /\ worker'[w].seen[m] = row[m]
        /\ Others(w)
    BY <1>6, RetryEffect
  <2>2. n > 1
    BY DEF RetryNumbers
  <2>3. FirstsIncomplete'
    BY <2>1, <2>2, FirstsKept
  <2>4. RecordersDiffer'
    <3>1. \A v \in Workers : worker'[v].pc = "recording" => worker'[v] = worker[v]
      BY <2>1 DEF Others
    <3> QED
      BY <1>1, <3>1, DifferKept
  <2>5. \A x \in Messages : /\ Recorders(x)' = Recorders(x)
                            /\ Saving(x)' <=> Saving(x)
    <3> SUFFICES ASSUME NEW x \in Messages
                 PROVE  Recorders(x)' = Recorders(x) /\ (Saving(x)' <=> Saving(x))
      OBVIOUS
    <3>1. \A v \in Workers : v \in Recorders(x)' <=> v \in Recorders(x)
      BY <2>1 DEF Recorders, Others
    <3>2. Saving(x)' <=> Saving(x)
      BY <2>1 DEF Saving, Others
    <3>3. Recorders(x)' = Recorders(x)
      BY <3>1 DEF Recorders
    <3> QED
      BY <3>2, <3>3
  <2>6. AttemptsTally' /\ TriesTally'
    BY <1>1, <1>3, <2>5 DEF AttemptsTally, TriesTally, AttemptsOf, SameCounts
  <2>7. \A x \in Messages : /\ x # m => Live(x)' = Live(x)
                            /\ x = m => Live(x)' = Live(x) \union {w} /\ w \notin Live(x)
    <3> SUFFICES ASSUME NEW x \in Messages
                 PROVE  /\ x # m => Live(x)' = Live(x)
                        /\ x = m => Live(x)' = Live(x) \union {w} /\ w \notin Live(x)
      OBVIOUS
    <3>1. \A v \in Workers \ {w} : v \in Live(x)' <=> v \in Live(x)
      BY <2>1 DEF Live, Others
    <3>2. w \notin Live(x) /\ (w \in Live(x)' <=> x = m)
      BY <2>1, <2>2 DEF Live
    <3>3. Live(x) \subseteq Workers /\ Live(x)' \subseteq Workers
      BY DEF Live
    <3> QED
      BY <3>1, <3>2, <3>3
  <2>8. SendsTally'
    <3> SUFFICES ASSUME NEW x \in Messages
                 PROVE  /\ IsFiniteSet(Live(x)')
                        /\ sent'[x] + Queued(x)' + Cardinality(Live(x)') + Budget(x)' <= Expected
      BY DEF SendsTally
    <3>1. /\ IsFiniteSet(Live(x)) /\ Budget(x)' = Budget(x)
          /\ sent[x] + Queued(x) + Cardinality(Live(x)) + Budget(x) <= Expected
      BY <1>1 DEF SendsTally, Budget
    <3>2. Cardinality(Live(x)) \in Nat /\ sent[x] \in Nat /\ Budget(x) \in Nat
      BY <3>1, FS_CardinalityType DEF ScheduleInv, SchedulesTypeOK, Budget
    <3>3. CASE x # m
      BY <1>1, <1>4, <2>7, <3>1, <3>2, <3>3
    <3>4. CASE x = m
      <4>1. IsFiniteSet(Live(x)') /\ Cardinality(Live(x)') = Cardinality(Live(x)) + 1
        BY <2>7, <3>1, <3>4, OneMore
      <4> QED
        BY <1>1, <1>4, <3>1, <3>2, <3>4, <4>1
    <3> QED
      BY <3>3, <3>4
  <2> QED
    BY <1>3, <2>3, <2>4, <2>6, <2>8, CompleteKept
<1> QED
  BY <1>5, <1>6

\* A worker that holds a message knows its row, and is the only one to save it.
LEMMA HolderKnows ==
  ASSUME ScheduleInv, ChainInv, ~overlap, NEW w \in Workers, NEW m \in Messages,
         worker[w].pc \in {"sending", "saving"}, worker[w].msg = m
  PROVE  /\ row[m].there /\ row[m].triggers = Trigger(w)
         /\ row[m].complete = worker[w].seen[m].complete
         /\ \A v \in Workers \ {w} :
              worker[v].msg = m => worker[v].pc \notin {"sending", "saving"}
<1>1. WorkerHolds(w, m)
  BY DEF WorkerHolds
<1>2. Agrees(worker[w].seen[m], m)
  BY <1>1 DEF ChainInv, HoldersAgree
<1>3. \A v \in Workers \ {w} : worker[v].msg = m => worker[v].pc \notin {"sending", "saving"}
  BY <1>1 DEF ChainInv, OneHolder, WorkerHolds
<1> QED
  BY <1>2, <1>3 DEF Agrees, Trigger

\* A first attempt uses up one of the triggers that are left, a retry the place of
\* its chain.
LEMMA SendKeepsCounts ==
  ASSUME ScheduleInv, ChainInv, CountInv, NEW w \in Workers,
         NEW outcome \in {"sent", "skipped", "failed"}, Sends(w, outcome)
  PROVE  CountInv'
<1> USE DEF CountInv
<1>1. /\ worker[w].pc = "sending" /\ worker'[w].pc = "saving"
      /\ worker'[w].msg = worker[w].msg /\ worker'[w].number = worker[w].number
      /\ worker'[w].todo = worker[w].todo /\ worker'[w].seen = worker[w].seen
      /\ worker'[w].outcome = outcome
      /\ Others(w)
  BY SendEffect
<1>2. UNCHANGED <<row, attempt, retries, deaths, overlap>>
  BY DEF Sends
<1>3. worker[w] \in Worker
  BY DEF ScheduleInv, SchedulesTypeOK
<1>4. PICK m \in Messages : m = worker[w].msg
  BY <1>1, <1>3 DEF ScheduleInv, TriggersHaveMessages, Worker
<1>5. /\ tries' = [tries EXCEPT ![m] = tries[m] + 1]
      /\ sent' = [sent EXCEPT ![m] = IF outcome = "sent" THEN sent[m] + 1 ELSE sent[m]]
  BY <1>4 DEF Sends
<1> SUFFICES ASSUME ~overlap, deaths = 0
             PROVE  /\ CompleteInTime' /\ FirstsIncomplete' /\ RecordersDiffer'
                    /\ AttemptsTally' /\ TriesTally' /\ SendsTally'
  BY <1>2
<1>6. SameCounts
  BY <1>2 DEF SameCounts
<1>7. FirstsIncomplete'
  <2>1. \A x \in worker[w].todo : ~worker[w].seen[x].complete
    BY DEF FirstsIncomplete
  <2> QED
    BY <1>1, <2>1, FirstsKept
<1>8. RecordersDiffer'
  <2>1. \A v \in Workers : worker'[v].pc = "recording" => worker'[v] = worker[v]
    BY <1>1 DEF Others
  <2> QED
    BY <1>2, <2>1, DifferKept
<1>9. \A x \in Messages : Recorders(x)' = Recorders(x)
  <2> SUFFICES ASSUME NEW x \in Messages PROVE Recorders(x)' = Recorders(x)
    OBVIOUS
  <2>1. \A v \in Workers : v \in Recorders(x)' <=> v \in Recorders(x)
    BY <1>1 DEF Recorders, Others
  <2> QED
    BY <2>1 DEF Recorders
<1>10. AttemptsTally'
  BY <1>2, <1>9 DEF AttemptsTally, AttemptsOf
<1>11. /\ row[m].there /\ row[m].triggers = Trigger(w)
       /\ row[m].complete = worker[w].seen[m].complete
       /\ \A v \in Workers \ {w} :
            worker[v].msg = m => worker[v].pc \notin {"sending", "saving"}
  BY <1>1, <1>4, HolderKnows
<1>12. ~Saving(m) /\ Saving(m)'
  BY <1>1, <1>4, <1>11 DEF Saving, Others
<1>13. tries[m] = row[m].triggers
  BY <1>11, <1>12 DEF TriesTally
<1>14. TriesTally'
  <2> SUFFICES ASSUME NEW x \in Messages, row[x].there
               PROVE  tries'[x] = IF Saving(x)' THEN row[x].triggers + 1 ELSE row[x].triggers
    BY <1>2 DEF TriesTally
  <2>1. CASE x = m
    BY <1>5, <1>12, <1>13, <2>1 DEF ScheduleInv, SchedulesTypeOK
  <2>2. CASE x # m
    <3>1. Saving(x)' <=> Saving(x)
      BY <1>1, <1>4, <2>2 DEF Saving, Others
    <3>2. tries'[x] = tries[x]
      BY <1>5, <2>2 DEF ScheduleInv, SchedulesTypeOK
    <3> QED
      BY <3>1, <3>2 DEF TriesTally
  <2> QED
    BY <2>1, <2>2
<1>15. \A x \in Messages : /\ x # m => Live(x)' = Live(x)
                           /\ Live(x) \ {w} = Live(x)' \ {w}
                           /\ w \in Live(m) <=> worker[w].number > 1
                           /\ w \in Live(m)' <=> outcome = "failed"
  <2> SUFFICES ASSUME NEW x \in Messages
               PROVE  /\ x # m => Live(x)' = Live(x)
                      /\ Live(x) \ {w} = Live(x)' \ {w}
                      /\ w \in Live(m) <=> worker[w].number > 1
                      /\ w \in Live(m)' <=> outcome = "failed"
    OBVIOUS
  <2>1. \A v \in Workers \ {w} : v \in Live(x)' <=> v \in Live(x)
    BY <1>1 DEF Live, Others
  <2>2. (w \in Live(m) <=> worker[w].number > 1) /\ (w \in Live(m)' <=> outcome = "failed")
    BY <1>1, <1>4 DEF Live
  <2>3. x # m => w \notin Live(x) /\ w \notin Live(x)'
    BY <1>1, <1>4 DEF Live
  <2>4. Live(x) \subseteq Workers /\ Live(x)' \subseteq Workers
    BY DEF Live
  <2> QED
    BY <2>1, <2>2, <2>3, <2>4
<1>16. SendsTally'
  <2> SUFFICES ASSUME NEW x \in Messages
               PROVE  /\ IsFiniteSet(Live(x)')
                      /\ sent'[x] + Queued(x)' + Cardinality(Live(x)') + Budget(x)' <= Expected
    BY DEF SendsTally
  <2>1. /\ IsFiniteSet(Live(x)) /\ Queued(x)' = Queued(x)
        /\ sent[x] + Queued(x) + Cardinality(Live(x)) + Budget(x) <= Expected
    BY <1>2 DEF SendsTally, Queued
  <2>2. Cardinality(Live(x)) \in Nat /\ sent[x] \in Nat /\ tries[x] \in Nat
    BY <2>1, FS_CardinalityType DEF ScheduleInv, SchedulesTypeOK
  <2>3. Queued(x) \in Nat
    BY DEF Queued, RetryNumbers, ScheduleInv, SchedulesTypeOK
  <2>4. CASE x # m
    <3>1. sent'[x] = sent[x] /\ tries'[x] = tries[x] /\ Live(x)' = Live(x)
      BY <1>5, <1>15, <2>4 DEF ScheduleInv, SchedulesTypeOK
    <3> QED
      BY <2>1, <3>1 DEF Budget
  <2>5. CASE x = m
    <3>1. PICK rest : rest = Live(m) \ {w} /\ rest = Live(m)' \ {w}
      BY <1>15
    <3>2. IsFiniteSet(rest) /\ Cardinality(rest) \in Nat
      BY <2>1, <2>5, <3>1, FS_RemoveElement, FS_CardinalityType
    <3>3. /\ worker[w].number > 1 => Cardinality(Live(m)) = Cardinality(rest) + 1
          /\ ~(worker[w].number > 1) => Cardinality(Live(m)) = Cardinality(rest)
      <4>1. CASE worker[w].number > 1
        BY <1>15, <2>1, <2>5, <3>1, <4>1, OneLess
      <4>2. CASE ~(worker[w].number > 1)
        <5>1. rest = Live(m)
          BY <1>15, <3>1, <4>2
        <5> QED
          BY <4>2, <5>1
      <4> QED
        BY <4>1, <4>2
    <3>4. /\ IsFiniteSet(Live(m)')
          /\ outcome = "failed" => Cardinality(Live(m)') = Cardinality(rest) + 1
          /\ outcome # "failed" => Cardinality(Live(m)') = Cardinality(rest)
      <4>1. CASE outcome = "failed"
        <5>1. Live(m)' = rest \union {w} /\ w \notin rest
          BY <1>15, <3>1, <4>1
        <5> QED
          BY <3>2, <4>1, <5>1, OneMore
      <4>2. CASE outcome # "failed"
        <5>1. Live(m)' = rest
          BY <1>15, <3>1, <4>2
        <5> QED
          BY <3>2, <4>2, <5>1
      <4> QED
        BY <4>1, <4>2
    <3>5. tries'[m] = tries[m] + 1 /\ sent'[m] = IF outcome = "sent" THEN sent[m] + 1 ELSE sent[m]
      BY <1>5 DEF ScheduleInv, SchedulesTypeOK
    <3>6. Budget(m) \in Nat /\ Budget(m)' \in Nat /\ Budget(m)' <= Budget(m)
      BY <2>2, <2>5, <3>5 DEF Budget
    <3>7. ~(worker[w].number > 1) => Budget(m) = Budget(m)' + 1
      <4> SUFFICES ASSUME ~(worker[w].number > 1) PROVE Budget(m) = Budget(m)' + 1
        OBVIOUS
      <4>1. worker[w].number = 1
        BY <1>3 DEF Worker, AttemptNumbers, RetryNumbers
      <4>2. ~row[m].complete
        BY <1>1, <1>4, <1>11, <4>1 DEF FirstsIncomplete
      <4>3. row[m].triggers < Expected
        BY <4>2 DEF CompleteInTime, ScheduleInv, SchedulesTypeOK, Row
      <4> QED
        BY <1>13, <2>2, <2>5, <3>5, <4>3 DEF Budget
    <3>8. /\ outcome = "failed" => sent'[m] = sent[m]
          /\ outcome # "failed" => sent'[m] <= sent[m] + 1 /\ sent'[m] \in Nat
      BY <2>2, <2>5, <3>5
    <3> HIDE DEF Live, Budget, Queued
    <3>9. sent'[m] + Queued(m)' + Cardinality(Live(m)') + Budget(m)' <= Expected
      <4>1. CASE outcome = "failed"
        BY <2>1, <2>2, <2>3, <2>5, <3>2, <3>3, <3>4, <3>6, <3>7, <3>8, <4>1
      <4>2. CASE outcome # "failed"
        BY <2>1, <2>2, <2>3, <2>5, <3>2, <3>3, <3>4, <3>6, <3>7, <3>8, <4>2
      <4> QED
        BY <4>1, <4>2
    <3> QED
      BY <2>5, <3>4, <3>9
  <2> QED
    BY <2>4, <2>5
<1> QED
  BY <1>6, <1>7, <1>8, <1>10, <1>14, <1>16, CompleteKept

\* The row that is saved counts the try, and the attempt is still to be recorded.
LEMMA SaveKeepsCounts ==
  ASSUME ScheduleInv, ChainInv, CountInv, NEW w \in Workers, Saves(w)
  PROVE  CountInv'
<1> USE DEF CountInv
<1>1. /\ worker[w].pc = "saving" /\ worker'[w].pc = "recording"
      /\ worker'[w].msg = worker[w].msg /\ worker'[w].number = worker[w].number
      /\ worker'[w].todo = worker[w].todo /\ worker'[w].seen = worker[w].seen
      /\ worker'[w].outcome = worker[w].outcome
      /\ Others(w)
      /\ row'[worker[w].msg].there
      /\ row'[worker[w].msg].triggers = Trigger(w) + 1
      /\ Trigger(w) + 1 >= Expected => row'[worker[w].msg].complete
      /\ \A x \in Messages \ {worker[w].msg} : row'[x] = row[x]
  BY SaveEffect
<1>2. UNCHANGED <<attempt, retries, tries, sent, deaths, overlap>>
  BY DEF Saves
<1>3. worker[w] \in Worker
  BY DEF ScheduleInv, SchedulesTypeOK
<1>4. PICK m \in Messages : m = worker[w].msg
  BY <1>1, <1>3 DEF ScheduleInv, TriggersHaveMessages, Worker
<1> SUFFICES ASSUME ~overlap, deaths = 0
             PROVE  /\ CompleteInTime' /\ FirstsIncomplete' /\ RecordersDiffer'
                    /\ AttemptsTally' /\ TriesTally' /\ SendsTally'
  BY <1>2
<1>5. /\ row[m].there /\ row[m].triggers = Trigger(w)
      /\ \A v \in Workers \ {w} :
           worker[v].msg = m => worker[v].pc \notin {"sending", "saving"}
  BY <1>1, <1>4, HolderKnows
<1>6. /\ row[m].triggers \in Nat /\ row'[m].triggers = row[m].triggers + 1
      /\ row'[m].triggers >= Expected => row'[m].complete
      /\ \A x \in Messages \ {m} : row'[x] = row[x]
  BY <1>1, <1>4, <1>5 DEF ScheduleInv, SchedulesTypeOK, Row
<1>7. CompleteInTime'
  <2> SUFFICES ASSUME NEW x \in Messages, row'[x].triggers >= Expected
               PROVE  row'[x].complete
    BY DEF CompleteInTime
  <2>1. CASE x = m
    BY <1>6, <2>1
  <2>2. CASE x # m
    BY <1>6, <2>2 DEF CompleteInTime
  <2> QED
    BY <2>1, <2>2
<1>8. FirstsIncomplete'
  <2>1. \A x \in worker[w].todo : ~worker[w].seen[x].complete
    BY DEF FirstsIncomplete
  <2> QED
    BY <1>1, <2>1, FirstsKept
<1>9. \A v \in Workers : /\ worker'[v].msg = worker[v].msg /\ Trigger(v)' = Trigger(v)
                         /\ worker'[v].pc = "recording" <=> worker[v].pc = "recording" \/ v = w
  BY <1>1 DEF Others, Trigger
<1>10. \A v \in Workers : worker[v].pc = "recording" /\ worker[v].msg = m => Trigger(v) # Trigger(w)
  <2> SUFFICES ASSUME NEW v \in Workers, worker[v].pc = "recording", worker[v].msg = m
               PROVE  Trigger(v) # Trigger(w)
    OBVIOUS
  <2>1. Trigger(v) < row[m].triggers
    BY <1>5 DEF ChainInv, RecordersBehind
  <2>2. Trigger(v) \in Nat
    BY DEF Trigger, ScheduleInv, SchedulesTypeOK, Worker, Row
  <2> QED
    BY <1>5, <1>6, <2>1, <2>2
<1>11. \A a \in attempt : a.msg = m => a.trigger # Trigger(w)
  <2> SUFFICES ASSUME NEW a \in attempt, a.msg = m PROVE a.trigger # Trigger(w)
    OBVIOUS
  <2>1. a.trigger < row[m].triggers /\ a.trigger \in Nat
    BY DEF ChainInv, AttemptsBehind, ScheduleInv, SchedulesTypeOK, Attempt
  <2> QED
    BY <1>5, <1>6, <2>1
<1>12. RecordersDiffer'
  <2> SUFFICES ASSUME NEW v \in Workers, worker'[v].pc = "recording"
               PROVE  /\ \A u \in Workers : worker'[u].pc = "recording" /\ worker'[u].msg = worker'[v].msg
                                              /\ Trigger(u)' = Trigger(v)' => u = v
                      /\ \A a \in attempt : a.msg = worker'[v].msg => a.trigger # Trigger(v)'
    BY <1>2 DEF RecordersDiffer
  <2>1. CASE v = w
    BY <1>4, <1>9, <1>10, <1>11, <2>1
  <2>2. CASE v # w
    BY <1>4, <1>9, <1>10, <2>2 DEF RecordersDiffer
  <2> QED
    BY <2>1, <2>2
<1>13. \A x \in Messages : /\ AttemptsOf(x)' = AttemptsOf(x)
                           /\ x # m => Recorders(x)' = Recorders(x)
                           /\ x = m => Recorders(x)' = Recorders(x) \union {w} /\ w \notin Recorders(x)
  <2> SUFFICES ASSUME NEW x \in Messages
               PROVE  /\ AttemptsOf(x)' = AttemptsOf(x)
                      /\ x # m => Recorders(x)' = Recorders(x)
                      /\ x = m => Recorders(x)' = Recorders(x) \union {w} /\ w \notin Recorders(x)
    OBVIOUS
  <2>1. AttemptsOf(x)' = AttemptsOf(x)
    BY <1>2 DEF AttemptsOf
  <2>2. \A v \in Workers : v \in Recorders(x)' <=> v \in Recorders(x) \/ (v = w /\ x = m)
    BY <1>4, <1>9 DEF Recorders
  <2>3. w \notin Recorders(x)
    BY <1>1 DEF Recorders
  <2>4. Recorders(x) \subseteq Workers /\ Recorders(x)' \subseteq Workers
    BY DEF Recorders
  <2> QED
    BY <2>1, <2>2, <2>3, <2>4
<1>14. AttemptsTally'
  <2> SUFFICES ASSUME NEW x \in Messages
               PROVE  /\ IsFiniteSet(AttemptsOf(x)') /\ IsFiniteSet(Recorders(x)')
                      /\ row'[x].there =>
                           row'[x].triggers = Cardinality(AttemptsOf(x)') + Cardinality(Recorders(x)')
    BY DEF AttemptsTally
  <2>1. /\ IsFiniteSet(AttemptsOf(x)) /\ IsFiniteSet(Recorders(x))
        /\ row[x].there => row[x].triggers = Cardinality(AttemptsOf(x)) + Cardinality(Recorders(x))
    BY DEF AttemptsTally
  <2>2. CASE x # m
    BY <1>6, <1>13, <2>1, <2>2
  <2>3. CASE x = m
    <3>1. /\ IsFiniteSet(Recorders(x)') /\ Cardinality(Recorders(x)) \in Nat
          /\ Cardinality(Recorders(x)') = Cardinality(Recorders(x)) + 1
      BY <1>13, <2>1, <2>3, OneMore
    <3>2. Cardinality(AttemptsOf(x)) \in Nat
      BY <2>1, FS_CardinalityType
    <3> QED
      BY <1>5, <1>6, <1>13, <2>1, <2>3, <3>1, <3>2
  <2> QED
    BY <2>2, <2>3
<1>15. Saving(m) /\ ~Saving(m)' /\ \A x \in Messages \ {m} : Saving(x)' <=> Saving(x)
  <2>1. Saving(m)
    BY <1>1, <1>4 DEF Saving
  <2>2. ~Saving(m)'
    BY <1>1, <1>4, <1>5 DEF Saving, Others
  <2>3. \A x \in Messages \ {m} : Saving(x)' <=> Saving(x)
    BY <1>1, <1>4 DEF Saving, Others
  <2> QED
    BY <2>1, <2>2, <2>3
<1>16. TriesTally'
  <2> SUFFICES ASSUME NEW x \in Messages, row'[x].there
               PROVE  tries[x] = IF Saving(x)' THEN row'[x].triggers + 1 ELSE row'[x].triggers
    BY <1>2 DEF TriesTally
  <2>1. CASE x = m
    <3>1. tries[m] = row[m].triggers + 1
      BY <1>5, <1>15 DEF TriesTally
    <3> QED
      BY <1>6, <1>15, <2>1, <3>1
  <2>2. CASE x # m
    BY <1>6, <1>15, <2>2 DEF TriesTally
  <2> QED
    BY <2>1, <2>2
<1>17. SendsTally'
  <2>1. \A x \in Messages : Live(x)' = Live(x)
    <3> SUFFICES ASSUME NEW x \in Messages PROVE Live(x)' = Live(x)
      OBVIOUS
    <3>1. \A v \in Workers : v \in Live(x)' <=> v \in Live(x)
      BY <1>1 DEF Live, Others
    <3> QED
      BY <3>1 DEF Live
  <2> QED
    BY <1>2, <2>1 DEF SendsTally, Queued, Budget
<1> QED
  BY <1>7, <1>8, <1>12, <1>14, <1>16, <1>17

\* A recorded attempt is a new one; if it is retried, its chain goes on in the queue.
LEMMA RecordKeepsCounts ==
  ASSUME ScheduleInv, ChainInv, CountInv, NEW w \in Workers, Records(w)
  PROVE  CountInv'
<1> USE DEF CountInv
<1>1. /\ worker[w].pc = "recording" /\ worker'[w].pc \in {"idle", "choosing"}
      /\ worker'[w].todo = worker[w].todo
      /\ \A m \in worker[w].todo : worker'[w].seen[m] = worker[w].seen[m]
      /\ Others(w)
  BY ContinueEffect DEF ChainInv
<1>2. UNCHANGED <<row, tries, sent, deaths, overlap>>
  BY DEF Records
<1>3. worker[w] \in Worker
  BY DEF ScheduleInv, SchedulesTypeOK
<1>4. PICK m \in Messages : m = worker[w].msg
  BY <1>1, <1>3 DEF ScheduleInv, TriggersHaveMessages, Worker
<1>5. PICK n \in AttemptNumbers : n = worker[w].number
  BY <1>3 DEF Worker
<1> DEFINE new == NewAttempt(w)
<1>6. /\ new.msg = m /\ new.trigger = Trigger(w) /\ new.number = n
      /\ new.result = "failure" <=> worker[w].outcome = "failed"
  BY <1>4, <1>5 DEF NewAttempt, Trigger
<1>7. /\ attempt' = attempt \union {new}
      /\ retries' = IF new.result = "failure" /\ Retries(n)
                    THEN [retries EXCEPT ![<<m, NextAttemptNumber(n)>>] = @ + 1] ELSE retries
  BY <1>6 DEF Records
<1> HIDE DEF new
<1> SUFFICES ASSUME ~overlap, deaths = 0
             PROVE  /\ CompleteInTime' /\ FirstsIncomplete' /\ RecordersDiffer'
                    /\ AttemptsTally' /\ TriesTally' /\ SendsTally'
  BY <1>2
<1>8. SameCounts
  BY <1>2 DEF SameCounts
<1>9. FirstsIncomplete'
  <2>1. \A x \in worker'[w].todo : ~worker'[w].seen[x].complete
    BY <1>1 DEF FirstsIncomplete
  <2> QED
    BY <1>1, <2>1, FirstsKept
<1>10. \A v \in Workers : worker'[v].pc = "recording" => v # w /\ worker'[v] = worker[v]
  BY <1>1 DEF Others
<1>11. RecordersDiffer'
  <2> SUFFICES ASSUME NEW v \in Workers, worker'[v].pc = "recording"
               PROVE  /\ \A u \in Workers : worker'[u].pc = "recording" /\ worker'[u].msg = worker'[v].msg
                                              /\ Trigger(u)' = Trigger(v)' => u = v
                      /\ \A a \in attempt' : a.msg = worker'[v].msg => a.trigger # Trigger(v)'
    BY DEF RecordersDiffer
  <2>1. \A u \in Workers : worker'[u].pc = "recording" =>
          worker'[u] = worker[u] /\ Trigger(u)' = Trigger(u)
    BY <1>10 DEF Trigger
  <2>2. v # w /\ worker[v].pc = "recording" /\ worker'[v] = worker[v] /\ Trigger(v)' = Trigger(v)
    BY <1>10, <2>1
  <2>3. \A u \in Workers : worker'[u].pc = "recording" /\ worker'[u].msg = worker'[v].msg
                             /\ Trigger(u)' = Trigger(v)' => u = v
    BY <2>1, <2>2 DEF RecordersDiffer
  <2>4. \A a \in attempt : a.msg = worker[v].msg => a.trigger # Trigger(v)
    BY <2>2 DEF RecordersDiffer
  <2>5. worker[v].msg = m => Trigger(v) # Trigger(w)
    BY <1>1, <1>4, <2>2 DEF RecordersDiffer
  <2> QED
    BY <1>6, <1>7, <2>2, <2>3, <2>4, <2>5
<1>12. \A a \in attempt : a.msg = m => a.trigger # new.trigger
  BY <1>1, <1>4, <1>6 DEF RecordersDiffer
<1>13. \A x \in Messages : /\ x # m => AttemptsOf(x)' = AttemptsOf(x) /\ Recorders(x)' = Recorders(x)
                           /\ AttemptsOf(m)' = AttemptsOf(m) \union {new} /\ new \notin AttemptsOf(m)
                           /\ Recorders(m)' = Recorders(m) \ {w} /\ w \in Recorders(m)
  <2> SUFFICES ASSUME NEW x \in Messages
               PROVE  /\ x # m => AttemptsOf(x)' = AttemptsOf(x) /\ Recorders(x)' = Recorders(x)
                      /\ AttemptsOf(m)' = AttemptsOf(m) \union {new} /\ new \notin AttemptsOf(m)
                      /\ Recorders(m)' = Recorders(m) \ {w} /\ w \in Recorders(m)
    OBVIOUS
  <2>1. x # m => AttemptsOf(x)' = AttemptsOf(x)
    BY <1>6, <1>7 DEF AttemptsOf
  <2>2. AttemptsOf(m)' = AttemptsOf(m) \union {new} /\ new \notin AttemptsOf(m)
    BY <1>6, <1>7, <1>12 DEF AttemptsOf
  <2>3. \A v \in Workers, y \in Messages : v \in Recorders(y)' <=> v \in Recorders(y) /\ v # w
    BY <1>1, <1>10 DEF Recorders, Others
  <2>4. \A y \in Messages : w \in Recorders(y) <=> y = m
    BY <1>1, <1>4 DEF Recorders
  <2>5. \A y \in Messages : Recorders(y) \subseteq Workers /\ Recorders(y)' \subseteq Workers
    BY DEF Recorders
  <2>6. x # m => Recorders(x)' = Recorders(x)
    BY <2>3, <2>4, <2>5
  <2>7. Recorders(m)' = Recorders(m) \ {w} /\ w \in Recorders(m)
    BY <2>3, <2>4, <2>5
  <2> QED
    BY <2>1, <2>2, <2>6, <2>7
<1>14. AttemptsTally'
  <2> SUFFICES ASSUME NEW x \in Messages
               PROVE  /\ IsFiniteSet(AttemptsOf(x)') /\ IsFiniteSet(Recorders(x)')
                      /\ row[x].there =>
                           row[x].triggers = Cardinality(AttemptsOf(x)') + Cardinality(Recorders(x)')
    BY <1>2 DEF AttemptsTally
  <2>1. /\ IsFiniteSet(AttemptsOf(x)) /\ IsFiniteSet(Recorders(x))
        /\ row[x].there => row[x].triggers = Cardinality(AttemptsOf(x)) + Cardinality(Recorders(x))
    BY DEF AttemptsTally
  <2>2. CASE x # m
    BY <1>13, <2>1, <2>2
  <2>3. CASE x = m
    <3>1. /\ IsFiniteSet(AttemptsOf(m)') /\ Cardinality(AttemptsOf(m)) \in Nat
          /\ Cardinality(AttemptsOf(m)') = Cardinality(AttemptsOf(m)) + 1
      BY <1>13, <2>1, <2>3, OneMore
    <3>2. /\ IsFiniteSet(Recorders(m)') /\ Cardinality(Recorders(m)') \in Nat
          /\ Cardinality(Recorders(m)) = Cardinality(Recorders(m)') + 1
      BY <1>13, <2>1, <2>3, OneLess
    <3> QED
      BY <2>1, <2>3, <3>1, <3>2
  <2> QED
    BY <2>2, <2>3
<1>15. TriesTally'
  <2>1. \A x \in Messages : Saving(x)' <=> Saving(x)
    BY <1>1 DEF Saving, Others
  <2> QED
    BY <1>2, <2>1 DEF TriesTally
<1>16. \A x \in Messages : /\ x # m => Live(x)' = Live(x)
                           /\ Live(m)' = Live(m) \ {w}
                           /\ w \in Live(m) <=> worker[w].outcome = "failed"
  <2> SUFFICES ASSUME NEW x \in Messages
               PROVE  /\ x # m => Live(x)' = Live(x)
                      /\ Live(m)' = Live(m) \ {w}
                      /\ w \in Live(m) <=> worker[w].outcome = "failed"
    OBVIOUS
  <2>1. \A v \in Workers, y \in Messages : v \in Live(y)' <=> v \in Live(y) /\ v # w
    BY <1>1 DEF Live, Others
  <2>2. (w \in Live(x) => x = m) /\ (w \in Live(m) <=> worker[w].outcome = "failed")
    BY <1>1, <1>4 DEF Live
  <2>3. \A y \in Messages : Live(y) \subseteq Workers /\ Live(y)' \subseteq Workers
    BY DEF Live
  <2> QED
    BY <2>1, <2>2, <2>3
<1>17. \A x \in Messages :
         /\ Queued(x) \in Nat /\ Queued(x)' \in Nat
         /\ x # m => Queued(x)' = Queued(x)
         /\ Queued(m)' <= Queued(m) + 1
         /\ worker[w].outcome # "failed" => Queued(m)' = Queued(m)
  <2> SUFFICES ASSUME NEW x \in Messages
               PROVE  /\ Queued(x) \in Nat /\ Queued(x)' \in Nat
                      /\ x # m => Queued(x)' = Queued(x)
                      /\ x = m => Queued(x)' <= Queued(x) + 1
                      /\ x = m /\ worker[w].outcome # "failed" => Queued(x)' = Queued(x)
    OBVIOUS
  <2>1. \A k \in RetryNumbers : retries[<<x, k>>] \in Nat
    BY DEF ScheduleInv, SchedulesTypeOK
  <2>2. CASE ~(new.result = "failure" /\ Retries(n))
    <3>1. UNCHANGED retries
      BY <1>7, <2>2
    <3> QED
      BY <2>1, <3>1 DEF Queued, RetryNumbers
  <2>3. CASE new.result = "failure" /\ Retries(n)
    <3>1. NextAttemptNumber(n) \in RetryNumbers
      BY <2>3 DEF Retries, NextAttemptNumber, RetryNumbers, AttemptNumbers
    <3>2. \A k \in RetryNumbers :
            retries'[<<x, k>>] = IF x = m /\ k = NextAttemptNumber(n) THEN retries[<<x, k>>] + 1
                                                               ELSE retries[<<x, k>>]
      BY <1>7, <2>3, <3>1 DEF ScheduleInv, SchedulesTypeOK
    <3> QED
      BY <1>6, <2>1, <2>3, <3>1, <3>2 DEF Queued, RetryNumbers
  <2> QED
    BY <2>2, <2>3
<1>18. SendsTally'
  <2> SUFFICES ASSUME NEW x \in Messages
               PROVE  /\ IsFiniteSet(Live(x)')
                      /\ sent[x] + Queued(x)' + Cardinality(Live(x)') + Budget(x)' <= Expected
    BY <1>2 DEF SendsTally
  <2>1. /\ IsFiniteSet(Live(x)) /\ Budget(x)' = Budget(x)
        /\ sent[x] + Queued(x) + Cardinality(Live(x)) + Budget(x) <= Expected
    BY <1>2 DEF SendsTally, Budget
  <2>2. Cardinality(Live(x)) \in Nat /\ sent[x] \in Nat /\ Budget(x) \in Nat
    BY <2>1, FS_CardinalityType DEF ScheduleInv, SchedulesTypeOK, Budget
  <2>3. CASE x # m
    BY <1>16, <1>17, <2>1, <2>2, <2>3
  <2>4. CASE x = m /\ worker[w].outcome = "failed"
    <3>1. /\ IsFiniteSet(Live(m)') /\ Cardinality(Live(m)') \in Nat
          /\ Cardinality(Live(m)) = Cardinality(Live(m)') + 1
      BY <1>16, <2>1, <2>4, OneLess
    <3> QED
      BY <1>17, <2>1, <2>2, <2>4, <3>1
  <2>5. CASE x = m /\ worker[w].outcome # "failed"
    <3>1. Live(m)' = Live(m)
      BY <1>16, <2>5
    <3> QED
      BY <1>17, <2>1, <2>2, <2>5, <3>1
  <2> QED
    BY <2>3, <2>4, <2>5
<1> QED
  BY <1>8, <1>9, <1>11, <1>14, <1>15, <1>18, CompleteKept

\* An attempt that cannot be recorded is one of a message that is gone.
LEMMA FailKeepsCounts ==
  ASSUME ScheduleInv, ChainInv, CountInv, NEW w \in Workers, RecordFails(w)
  PROVE  CountInv'
<1> USE DEF CountInv
<1>1. /\ worker[w].pc = "recording"
      /\ UNCHANGED <<row, attempt, retries, tries, sent, deaths, overlap>>
      /\ worker' = [worker EXCEPT ![w] = IdleWorker]
  BY DEF RecordFails
<1>2. /\ worker'[w].pc = "idle" /\ worker'[w].msg = "none" /\ worker'[w].number = 1
      /\ worker'[w].todo = {}
      /\ Others(w)
  BY <1>1, StopEffect
<1>3. PICK m \in Messages : m = worker[w].msg
  BY <1>1 DEF ScheduleInv, TriggersHaveMessages, SchedulesTypeOK, Worker
<1> SUFFICES ASSUME ~overlap, deaths = 0
             PROVE  /\ CompleteInTime' /\ FirstsIncomplete' /\ RecordersDiffer'
                    /\ AttemptsTally' /\ TriesTally' /\ SendsTally'
  BY <1>1
<1>4. SameCounts
  BY <1>1 DEF SameCounts
<1>5. FirstsIncomplete'
  BY <1>2, FirstsKept
<1>6. RecordersDiffer'
  <2>1. \A v \in Workers : worker'[v].pc = "recording" => worker'[v] = worker[v]
    BY <1>2 DEF Others
  <2> QED
    BY <1>1, <2>1, DifferKept
<1>7. ~row[m].there
  <2>1. NewAttempt(w).msg = m /\ NewAttempt(w).trigger = Trigger(w)
    BY <1>3 DEF NewAttempt, Trigger
  <2>2. \A b \in attempt : ~(b.msg = m /\ b.trigger = Trigger(w))
    BY <1>1, <1>3 DEF RecordersDiffer
  <2> QED
    BY <2>1, <2>2 DEF RecordFails, Recordable
<1>8. \A x \in Messages : /\ AttemptsOf(x)' = AttemptsOf(x)
                          /\ Recorders(x)' \subseteq Recorders(x)
                          /\ x # m => Recorders(x)' = Recorders(x)
                          /\ Live(x)' \subseteq Live(x)
                          /\ Saving(x)' <=> Saving(x)
  <2> SUFFICES ASSUME NEW x \in Messages
               PROVE  /\ AttemptsOf(x)' = AttemptsOf(x)
                      /\ Recorders(x)' \subseteq Recorders(x)
                      /\ x # m => Recorders(x)' = Recorders(x)
                      /\ Live(x)' \subseteq Live(x)
                      /\ Saving(x)' <=> Saving(x)
    OBVIOUS
  <2>1. AttemptsOf(x)' = AttemptsOf(x)
    BY <1>1 DEF AttemptsOf
  <2>2. \A v \in Workers : /\ v \in Recorders(x)' <=> v \in Recorders(x) /\ v # w
                           /\ v \in Live(x)' => v \in Live(x)
    BY <1>2 DEF Recorders, Live, Others
  <2>3. x # m => w \notin Recorders(x)
    BY <1>3 DEF Recorders
  <2>4. Recorders(x) \subseteq Workers /\ Recorders(x)' \subseteq Workers /\ Live(x)' \subseteq Workers
    BY DEF Recorders, Live
  <2>5. Saving(x)' <=> Saving(x)
    BY <1>1, <1>2 DEF Saving, Others
  <2>6. Recorders(x)' \subseteq Recorders(x) /\ Live(x)' \subseteq Live(x)
    BY <2>2, <2>4
  <2>7. x # m => Recorders(x)' = Recorders(x)
    BY <2>2, <2>3, <2>4
  <2> QED
    BY <2>1, <2>5, <2>6, <2>7
<1>9. AttemptsTally'
  <2> SUFFICES ASSUME NEW x \in Messages
               PROVE  /\ IsFiniteSet(AttemptsOf(x)') /\ IsFiniteSet(Recorders(x)')
                      /\ row[x].there =>
                           row[x].triggers = Cardinality(AttemptsOf(x)') + Cardinality(Recorders(x)')
    BY <1>1 DEF AttemptsTally
  <2>1. /\ IsFiniteSet(AttemptsOf(x)) /\ IsFiniteSet(Recorders(x))
        /\ row[x].there => row[x].triggers = Cardinality(AttemptsOf(x)) + Cardinality(Recorders(x))
    BY DEF AttemptsTally
  <2>2. IsFiniteSet(Recorders(x)')
    BY <1>8, <2>1, FS_Subset
  <2> QED
    BY <1>7, <1>8, <2>1, <2>2
<1>10. TriesTally'
  BY <1>1, <1>8 DEF TriesTally
<1>11. SendsTally'
  <2> SUFFICES ASSUME NEW x \in Messages
               PROVE  /\ IsFiniteSet(Live(x)')
                      /\ sent[x] + Queued(x)' + Cardinality(Live(x)') + Budget(x)' <= Expected
    BY <1>1 DEF SendsTally
  <2>1. /\ IsFiniteSet(Live(x)) /\ Budget(x)' = Budget(x) /\ Queued(x)' = Queued(x)
        /\ sent[x] + Queued(x) + Cardinality(Live(x)) + Budget(x) <= Expected
    BY <1>1 DEF SendsTally, Budget, Queued
  <2>2. IsFiniteSet(Live(x)') /\ Cardinality(Live(x)') <= Cardinality(Live(x))
    BY <1>8, <2>1, FS_Subset
  <2>3. Cardinality(Live(x)) \in Nat /\ Cardinality(Live(x)') \in Nat
    BY <2>1, <2>2, FS_CardinalityType
  <2>4. sent[x] \in Nat /\ Budget(x) \in Nat
    BY DEF ScheduleInv, SchedulesTypeOK, Budget
  <2>5. Queued(x) \in Nat
    BY DEF ScheduleInv, SchedulesTypeOK, Queued, RetryNumbers
  <2> QED
    BY <2>1, <2>2, <2>3, <2>4, <2>5
<1> QED
  BY <1>4, <1>5, <1>6, <1>9, <1>10, <1>11, CompleteKept

\* Changes of dates, and tools.
LEMMA EditKeepsCounts ==
  ASSUME ScheduleInv, CountInv, SameCounts, UNCHANGED <<worker, attempt, retries, tries, sent, deaths>>,
         overlap => overlap'
  PROVE  CountInv'
<1> USE DEF CountInv
<1> SUFFICES ASSUME ~overlap, deaths = 0
             PROVE  /\ CompleteInTime' /\ FirstsIncomplete' /\ RecordersDiffer'
                    /\ AttemptsTally' /\ TriesTally' /\ SendsTally'
  OBVIOUS
<1>1. SameSets
  BY CalmSteps DEF OnlyCalm
<1>2. FirstsIncomplete' /\ RecordersDiffer'
  BY DEF FirstsIncomplete, RecordersDiffer, Trigger
<1> QED
  BY <1>1, <1>2, CompleteKept, TalliesKept

\* A message that is deleted takes its attempts with it, and nobody saves it.
LEMMA ArchiveKeepsCounts ==
  ASSUME ScheduleInv, CountInv, NEW m \in Messages, Archives(m)
  PROVE  CountInv'
<1> USE DEF CountInv
<1>1. /\ UNCHANGED <<worker, retries, tries, sent, deaths>>
      /\ row' = [row EXCEPT ![m] = NoRow]
      /\ attempt' = {a \in attempt : a.msg # m}
      /\ overlap => overlap'
  BY DEF Archives, Edits
<1>2. /\ ~row'[m].there /\ row'[m].triggers = 0
      /\ \A x \in Messages \ {m} : row'[x] = row[x]
  BY <1>1 DEF ScheduleInv, SchedulesTypeOK, NoRow
<1> SUFFICES ASSUME ~overlap, deaths = 0
             PROVE  /\ CompleteInTime' /\ FirstsIncomplete' /\ RecordersDiffer'
                    /\ AttemptsTally' /\ TriesTally' /\ SendsTally'
  BY <1>1
<1>3. CompleteInTime'
  BY <1>2 DEF CompleteInTime
<1>4. SameSets
  BY <1>1, CalmSteps DEF OnlyCalm
<1>5. FirstsIncomplete' /\ RecordersDiffer'
  BY <1>1 DEF FirstsIncomplete, RecordersDiffer, Trigger
<1>6. AttemptsTally'
  <2> SUFFICES ASSUME NEW x \in Messages
               PROVE  /\ IsFiniteSet(AttemptsOf(x)') /\ IsFiniteSet(Recorders(x)')
                      /\ row'[x].there =>
                           row'[x].triggers = Cardinality(AttemptsOf(x)') + Cardinality(Recorders(x)')
    BY DEF AttemptsTally
  <2>1. /\ IsFiniteSet(AttemptsOf(x)) /\ IsFiniteSet(Recorders(x)) /\ Recorders(x)' = Recorders(x)
        /\ row[x].there => row[x].triggers = Cardinality(AttemptsOf(x)) + Cardinality(Recorders(x))
    BY <1>4 DEF AttemptsTally, SameSets
  <2>2. CASE x # m
    <3>1. AttemptsOf(x)' = AttemptsOf(x)
      BY <1>1, <2>2 DEF AttemptsOf
    <3> QED
      BY <1>2, <2>1, <2>2, <3>1
  <2>3. CASE x = m
    <3>1. AttemptsOf(x)' = {}
      BY <1>1, <2>3 DEF AttemptsOf
    <3> QED
      BY <1>2, <2>1, <2>3, <3>1, FS_EmptySet
  <2> QED
    BY <2>2, <2>3
<1>7. TriesTally'
  BY <1>1, <1>2, <1>4 DEF TriesTally, SameSets
<1>8. SendsTally'
  BY <1>1, <1>4 DEF SendsTally, SameSets, Queued, Budget
<1> QED
  BY <1>3, <1>5, <1>6, <1>7, <1>8

-----------------------------------------------------------------------------
\* Every step keeps both.

\* The counts of the rows are the same after all changes but those of a worker and
\* a deletion.
LEMMA DateChangesKeep ==
  ASSUME ScheduleInv, ChainInv, CountInv, NEW m \in Messages, NEW due \in BOOLEAN,
         \/ FallsDue(m) \/ EndDatePasses(m)
         \/ ApiCancels(m) \/ Reschedules(m, due)
  PROVE  ChainInv' /\ CountInv'
<1>1. /\ UNCHANGED <<worker, tool, attempt, retries, tries, sent, deaths>>
      /\ overlap => overlap'
  <2>1. CASE FallsDue(m)
    BY <2>1 DEF FallsDue
  <2>2. CASE EndDatePasses(m)
    BY <2>2 DEF EndDatePasses
  <2>3. CASE ApiCancels(m)
    BY <2>3 DEF ApiCancels, Edits
  <2>4. CASE Reschedules(m, due)
    BY <2>4 DEF Reschedules, Edits
  <2> QED
    BY <2>1, <2>2, <2>3, <2>4
<1>2. SameCounts
  <2>1. CASE FallsDue(m)
    BY <2>1 DEF FallsDue, SameCounts, ScheduleInv, SchedulesTypeOK, Row
  <2>2. CASE EndDatePasses(m)
    BY <2>2 DEF EndDatePasses, SameCounts
  <2>3. CASE ApiCancels(m)
    BY <2>3 DEF ApiCancels, SameCounts, ScheduleInv, SchedulesTypeOK, Row
  <2>4. CASE Reschedules(m, due)
    BY <2>4 DEF Reschedules, SameCounts, ScheduleInv, SchedulesTypeOK, Row
  <2> QED
    BY <2>1, <2>2, <2>3, <2>4
<1> QED
  BY <1>1, <1>2, EditKeepsChains, EditKeepsCounts

\* What a tool saves counts what the row counts, unless something overlapped.
LEMMA ToolSaveKeeps ==
  ASSUME ScheduleInv, ChainInv, CountInv, NEW t \in Tools, NEW due \in BOOLEAN, ToolSaves(t, due)
  PROVE  ChainInv' /\ CountInv'
<1>1. /\ UNCHANGED <<worker, attempt, retries, tries, sent, deaths, overlap>>
      /\ tool' = [tool EXCEPT ![t] = IdleTool]
      /\ tool[t].msg # "none"
  BY DEF ToolSaves
<1>2. CASE overlap
  <2>1. Tidy'
    BY <1>1 DEF ChainInv, Tidy
  <2> QED
    BY <1>1, <1>2, <2>1 DEF ChainInv, CountInv
<1>3. CASE ~overlap
  <2>1. PICK m \in Messages : m = tool[t].msg
    BY <1>1 DEF ScheduleInv, SchedulesTypeOK, Tool
  <2>2. PICK seen \in Row : seen = tool[t].seen
    BY DEF ScheduleInv, SchedulesTypeOK, Tool
  <2>3. Agrees(seen, m)
    BY <1>3, <2>1, <2>2 DEF ChainInv, HoldersAgree, ToolHolds
  <2>4. PICK r : /\ row' = [row EXCEPT ![m] = r]
                 /\ r.there = seen.there /\ r.triggers = seen.triggers /\ r.complete = seen.complete
    <3> DEFINE cancelled == [seen EXCEPT !.cancelled = TRUE]
               moved == [seen EXCEPT !.due = due]
    <3>0. /\ cancelled.there = seen.there /\ cancelled.triggers = seen.triggers
          /\ cancelled.complete = seen.complete
          /\ moved.there = seen.there /\ moved.triggers = seen.triggers
          /\ moved.complete = seen.complete
      BY DEF Row
    <3>1. CASE tool[t].op = "cancel"
      <4>1. row' = [row EXCEPT ![m] = cancelled]
        BY <2>1, <2>2, <3>1 DEF ToolSaves
      <4> HIDE DEF cancelled
      <4> QED
        BY <3>0, <4>1
    <3>2. CASE tool[t].op # "cancel"
      <4>1. row' = [row EXCEPT ![m] = moved]
        BY <2>1, <2>2, <3>2 DEF ToolSaves
      <4> HIDE DEF moved
      <4> QED
        BY <3>0, <4>1
    <3> QED
      BY <3>1, <3>2
  <2>5. SameCounts
    <3> SUFFICES ASSUME NEW x \in Messages
                 PROVE  /\ row'[x].there = row[x].there
                        /\ row'[x].triggers = row[x].triggers
                        /\ row'[x].complete = row[x].complete
      BY DEF SameCounts
    <3>1. CASE x = m
      <4>1. row'[m] = r
        BY <2>4 DEF ScheduleInv, SchedulesTypeOK
      <4>2. /\ seen.there = row[m].there
            /\ seen.triggers = row[m].triggers /\ seen.complete = row[m].complete
        BY <2>2, <2>3 DEF Agrees, ScheduleInv, SchedulesTypeOK, Row
      <4> QED
        BY <2>4, <3>1, <4>1, <4>2
    <3>2. CASE x # m
      BY <2>4, <3>2 DEF ScheduleInv, SchedulesTypeOK
    <3> QED
      BY <3>1, <3>2
  <2>6. \A u \in Tools : tool'[u] = tool[u] \/ tool'[u].msg \notin Messages
    BY <1>1, NamesAssumption DEF ScheduleInv, SchedulesTypeOK, IdleTool
  <2> QED
    BY <1>1, <2>5, <2>6, EditKeepsChains, EditKeepsCounts
<1> QED
  BY <1>2, <1>3

LEMMA ToolLoadKeeps ==
  ASSUME ScheduleInv, ChainInv, CountInv, NEW t \in Tools, NEW m \in Messages,
         NEW op \in {"cancel", "move"}, ToolLoads(t, m, op)
  PROVE  ChainInv' /\ CountInv'
<1>1. /\ UNCHANGED <<row, worker, attempt, retries, tries, sent, deaths>>
      /\ overlap => overlap'
  BY DEF ToolLoads, Edits
<1>2. SameCounts
  BY <1>1 DEF SameCounts
<1> QED
  BY <1>1, <1>2, LoadKeepsChains, EditKeepsCounts

\* A kill ends what the counts say, not the chains.
LEMMA DeathKeeps ==
  ASSUME ScheduleInv, ChainInv, CountInv, NEW w \in Workers, WorkerDies(w)
  PROVE  ChainInv' /\ CountInv'
<1>1. ChainInv'
  BY StopKeepsChains DEF WorkerDies
<1>2. deaths' # 0
  BY DEF WorkerDies, ScheduleInv, SchedulesTypeOK
<1> QED
  BY <1>1, <1>2 DEF CountInv

LEMMA FailKeeps ==
  ASSUME ScheduleInv, ChainInv, CountInv, NEW w \in Workers, RecordFails(w)
  PROVE  ChainInv' /\ CountInv'
<1>1. ChainInv'
  BY StopKeepsChains DEF RecordFails
<1> QED
  BY <1>1, FailKeepsCounts

LEMMA StepKeepsCounts ==
  ASSUME ScheduleInv, ChainInv, CountInv, [ScheduleNext]_scheduleVars
  PROVE  ChainInv' /\ CountInv'
<1>1. CASE \E m \in Messages : FallsDue(m) \/ EndDatePasses(m)
  BY <1>1, DateChangesKeep
<1>2. CASE \E w \in Workers : PollStarts(w)
  BY <1>2, PollKeepsChains, PollKeepsCounts
<1>3. CASE \E w \in Workers, m \in Messages, n \in RetryNumbers : RetryStarts(w, m, n)
  BY <1>3, RetryKeepsChains, RetryKeepsCounts
<1>4. CASE \E w \in Workers : WorkerStep(w)
  <2>1. PICK w \in Workers : WorkerStep(w)
    BY <1>4
  <2>2. CASE \E m \in Messages : TakesNext(w, m)
    BY <2>2, TakeKeepsChains, TakeKeepsCounts
  <2>3. CASE \E outcome \in {"sent", "skipped", "failed"} : Sends(w, outcome)
    BY <2>3, SendKeepsChains, SendKeepsCounts
  <2>4. CASE Saves(w)
    BY <2>4, SaveKeepsChains, SaveKeepsCounts
  <2>5. CASE Records(w)
    BY <2>5, RecordKeepsChains, RecordKeepsCounts
  <2>6. CASE RecordFails(w)
    BY <2>6, FailKeeps
  <2> QED
    BY <2>1, <2>2, <2>3, <2>4, <2>5, <2>6 DEF WorkerStep
<1>5. CASE \E w \in Workers : WorkerDies(w)
  BY <1>5, DeathKeeps
<1>6. CASE \E t \in Tools, due \in BOOLEAN : ToolSaves(t, due)
  BY <1>6, ToolSaveKeeps
<1>7. CASE Edit
  <2>1. PICK m \in Messages : \/ \E t \in Tools, op \in {"cancel", "move"} : ToolLoads(t, m, op)
                              \/ ApiCancels(m)
                              \/ \E due \in BOOLEAN : Reschedules(m, due)
                              \/ Archives(m)
    BY <1>7 DEF Edit
  <2>2. CASE \E t \in Tools, op \in {"cancel", "move"} : ToolLoads(t, m, op)
    BY <2>2, ToolLoadKeeps
  <2>3. CASE ApiCancels(m)
    BY <2>3, DateChangesKeep
  <2>4. CASE \E due \in BOOLEAN : Reschedules(m, due)
    BY <2>4, DateChangesKeep
  <2>5. CASE Archives(m)
    BY <2>5, ArchiveKeepsChains, ArchiveKeepsCounts
  <2> QED
    BY <2>1, <2>2, <2>3, <2>4, <2>5
<1>8. CASE UNCHANGED scheduleVars
  <2>1. /\ UNCHANGED <<row, worker, tool, attempt, retries, tries, sent, deaths, overlap>>
    BY <1>8 DEF scheduleVars
  <2>2. SameCounts
    BY <2>1 DEF SameCounts
  <2> QED
    BY <2>1, <2>2, EditKeepsChains, EditKeepsCounts
<1> QED
  BY <1>1, <1>2, <1>3, <1>4, <1>5, <1>6, <1>7, <1>8 DEF ScheduleNext

\* Nothing was triggered, and nobody holds a message.
LEMMA InitCounts == ScheduleInit => ChainInv /\ CountInv
<1> SUFFICES ASSUME ScheduleInit PROVE ChainInv /\ CountInv
  OBVIOUS
<1>1. ScheduleInv
  BY InitHolds
<1>2. \A w \in Workers : /\ worker[w].pc = "idle" /\ worker[w].todo = {}
                         /\ worker[w].msg = "none" /\ worker[w].number = 1
  BY DEF ScheduleInit, ScheduleStart, IdleWorker
<1>3. \A t \in Tools : tool[t].msg = "none"
  BY DEF ScheduleInit, ScheduleStart, IdleTool
<1>4. attempt = {} /\ \A m \in Messages : row[m].there /\ row[m].triggers = 0
  BY DEF ScheduleInit, ScheduleStart, NoRow
<1>5. \A m \in Messages : tries[m] = 0 /\ sent[m] = 0 /\ \A n \in RetryNumbers : retries[<<m, n>>] = 0
  BY DEF ScheduleInit, ScheduleStart
<1>6. Tidy
  BY <1>2 DEF Tidy
<1>7. \A w \in Workers, m \in Messages : ~WorkerHolds(w, m)
  BY <1>2 DEF WorkerHolds
<1>8. \A t \in Tools, m \in Messages : ~ToolHolds(t, m)
  BY <1>3, NamesAssumption DEF ToolHolds
<1>9. OneHolder /\ HoldersAgree
  BY <1>7, <1>8 DEF OneHolder, HoldersAgree
<1>10. RecordersBehind /\ WorkersFollow
  BY <1>2 DEF RecordersBehind, WorkersFollow, Busy
<1>11. AttemptsBehind /\ AttemptsFollow /\ RetriesFollow
  BY <1>4, <1>5 DEF AttemptsBehind, AttemptsFollow, RetriesFollow
<1>12. CompleteInTime
  BY <1>4, ExpectedAssumption DEF CompleteInTime
<1>13. FirstsIncomplete /\ RecordersDiffer
  BY <1>2 DEF FirstsIncomplete, RecordersDiffer
<1>14. \A m \in Messages : AttemptsOf(m) = {} /\ Recorders(m) = {} /\ Live(m) = {} /\ ~Saving(m)
  BY <1>2, <1>4 DEF AttemptsOf, Recorders, Live, Saving
<1>15. IsFiniteSet({}) /\ Cardinality({}) = 0
  BY FS_EmptySet
<1>16. AttemptsTally /\ TriesTally
  <2>1. \A m \in Messages : Cardinality(AttemptsOf(m)) = 0 /\ Cardinality(Recorders(m)) = 0
    BY <1>14, <1>15
  <2>2. AttemptsTally
    BY <1>4, <1>14, <1>15, <2>1 DEF AttemptsTally
  <2>3. TriesTally
    BY <1>4, <1>5, <1>14 DEF TriesTally
  <2> QED
    BY <2>2, <2>3
<1>17. \A m \in Messages : Queued(m) = 0 /\ Budget(m) = Expected
  <2> SUFFICES ASSUME NEW m \in Messages PROVE Queued(m) = 0 /\ Budget(m) = Expected
    OBVIOUS
  <2>1. retries[<<m, 2>>] = 0 /\ retries[<<m, 3>>] = 0 /\ tries[m] = 0
    BY <1>5 DEF RetryNumbers
  <2> QED
    BY <2>1, ExpectedAssumption DEF Queued, Budget
<1>18. SendsTally
  BY <1>5, <1>14, <1>15, <1>17, ExpectedAssumption DEF SendsTally
<1> QED
  BY <1>6, <1>9, <1>10, <1>11, <1>12, <1>13, <1>16, <1>18 DEF ChainInv, CountInv

\* As long as no row is loaded or changed between a load and its save, holders of a
\* row exclude each other and attempts form chains; if no worker is killed either,
\* the rows, the attempts and the tries tally (poll_scheduled_messages,
\* retry_scheduled_message, safe_trigger).
THEOREM RowsTally == ScheduleSpec => [](ScheduleInv /\ ChainInv /\ CountInv)
<1>1. ScheduleInit => ScheduleInv /\ ChainInv /\ CountInv
  BY InitHolds, InitCounts
<1>2. ScheduleInv /\ ChainInv /\ CountInv /\ [ScheduleNext]_scheduleVars => (ScheduleInv /\ ChainInv /\ CountInv)'
  BY StepPreserves, StepKeepsCounts
<1> QED
  BY <1>1, <1>2, PTL DEF ScheduleSpec

\* Under the same conditions a participant receives no more than the message
\* repeats, total_triggers is the number of attempts, and every later attempt follows
\* a failed one (ScheduledMessage._trigger and safe_trigger).
THEOREM TriggersAreCounted == ScheduleSpec => []TriggersTally
<1>1. ASSUME ScheduleInv, ChainInv, CountInv PROVE NeverTooMany
  <2> SUFFICES ASSUME ~overlap, deaths = 0, NEW m \in Messages PROVE sent[m] <= Expected
    BY DEF NeverTooMany
  <2>1. /\ IsFiniteSet(Live(m))
        /\ sent[m] + Queued(m) + Cardinality(Live(m)) + Budget(m) <= Expected
    BY <1>1 DEF CountInv, SendsTally
  <2>2. Cardinality(Live(m)) \in Nat
    BY <2>1, FS_CardinalityType
  <2>3. sent[m] \in Nat /\ Budget(m) \in Nat
    BY <1>1 DEF ScheduleInv, SchedulesTypeOK, Budget
  <2>4. Queued(m) \in Nat
    BY <1>1 DEF ScheduleInv, SchedulesTypeOK, Queued, RetryNumbers
  <2> QED
    BY <2>1, <2>2, <2>3, <2>4
<1>2. ASSUME ScheduleInv, ChainInv, CountInv PROVE TriggersRecorded
  <2> SUFFICES ASSUME ~overlap, deaths = 0, NEW m \in Messages, row[m].there,
                      \A w \in Workers : worker[w].msg # m
               PROVE  row[m].triggers = Cardinality({a \in attempt : a.msg = m})
    BY DEF TriggersRecorded
  <2>1. Recorders(m) = {}
    BY DEF Recorders
  <2>2. /\ IsFiniteSet(AttemptsOf(m))
        /\ row[m].triggers = Cardinality(AttemptsOf(m)) + Cardinality(Recorders(m))
    BY <1>2 DEF CountInv, AttemptsTally
  <2>3. Cardinality(AttemptsOf(m)) \in Nat /\ Cardinality(Recorders(m)) = 0
    BY <2>1, <2>2, FS_CardinalityType, FS_EmptySet
  <2>4. row[m].triggers = Cardinality(AttemptsOf(m))
    BY <2>2, <2>3
  <2> QED
    BY <2>4 DEF AttemptsOf
<1>3. ASSUME ChainInv PROVE AttemptsInChains
  BY <1>3 DEF ChainInv, AttemptsFollow, Follows, AttemptsInChains
<1>4. ScheduleInv /\ ChainInv /\ CountInv => TriggersTally
  BY <1>1, <1>2, <1>3 DEF TriggersTally
<1> QED
  BY <1>4, RowsTally, PTL
=============================================================================
