---------------------------- MODULE EventTriggers ----------------------------
(***************************************************************************)
(* The timeout and static triggers of one session together: a timeout that *)
(* ends the conversation, an end in another way and a last timeout raise   *)
(* what static triggers wait for, and a static trigger may end the         *)
(* conversation that timeout triggers watch.                               *)
(***************************************************************************)
EXTENDS TimeoutTriggers, StaticTriggers

eventVars == <<timeoutVars, staticVars>>

EventInit == TimeoutInit /\ StaticInit

\* TimeoutTrigger.fire: its action ends the session by an event.
TimeoutActs(t, m, ok, ends) ==
  /\ LogFire(t, m, ok, ends)
  /\ IF ends THEN Raise("ended_by_event") ELSE UNCHANGED staticVars

\* Mutant: only for the message that is still the latest one.
OfLatest(t, m) == Exhausted(t, m) /\ m = humans

\* TimeoutTrigger.fire raises the last timeout.
RaisesLast(t, m) == Exhausted(t, m)

TimeoutChecks(t, m) ==
  /\ CheckFire(t, m)
  /\ IF RaisesLast(t, m) THEN Raise("last_timeout") ELSE UNCHANGED staticVars

\* A task that dies after its action has raised the end.
TimeoutDies(t, m) ==
  /\ KillFire(t, m)
  /\ IF open' # open THEN Raise("ended_by_event") ELSE UNCHANGED staticVars

UserEnds == SessionEnds /\ Raise("ended_by_user")

\* session.end, also of a session that has ended.
OpenAfter(ends) == open /\ ~ends

StaticActs ==
  \E ends \in BOOLEAN :
    /\ StaticStep(ends)
    /\ open' = OpenAfter(ends)
    /\ UNCHANGED <<humans, since, silent, logVars, queued, running, logged, extra,
                   lasts, kills>>

EventNext ==
  \/ \E t \in Timeouts :
       \/ (Poll(t) \/ TimePasses(t) \/ StartFire(t) \/ Reconfigure(t)) /\ UNCHANGED staticVars
       \/ \E m \in SessionMessages :
            (\E ok, ends \in BOOLEAN : TimeoutActs(t, m, ok, ends)) \/ TimeoutChecks(t, m) \/ TimeoutDies(t, m)
  \/ HumanMessage /\ UNCHANGED staticVars
  \/ UserEnds \/ StaticActs

EventFairness ==
  /\ TimeoutFairness
  /\ WF_eventVars(StaticActs)

EventSpec == EventInit /\ [][EventNext]_eventVars

-----------------------------------------------------------------------------
\* To the timeout triggers, static triggers are nothing but other ways to end the
\* session: with them, the triggers still do what TimeoutSpec says of them alone,
\* and a session that has ended is never open again (experiments/models.py:1565).
TimeoutsAlone == TimeoutSpec

\* Every last timeout is heard: the static triggers that wait for it fire, also
\* when the participant writes or the session ends meanwhile
\* (events/models.py:385, events/tasks.py:13).
LastTimeoutHeard ==
  (\E t \in Timeouts, m \in SessionMessages : lasts[t][m] > 0)
    ~> \A s \in LastTimeouts : fired[s] > 0

\* Neither the silence of a participant nor its last timeout goes without an answer.
TimeoutsAnswered == SilenceHandled /\ LastTimeoutHeard

\* Triggers act neither too often nor too rarely, timeouts and static ones.
TriggersCounted == ActsAtMost /\ LastTimeoutAtMost /\ LastTimeoutRaised /\ EveryRaiseFires
=============================================================================
