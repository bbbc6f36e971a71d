---------------------------- MODULE StaticTriggers ----------------------------
(***************************************************************************)
(* The static triggers of one session (apps/events): what happens raises a *)
(* type, a task enqueues the triggers that match it, each is fired by a    *)
(* task of its own.  They are composed with the timeout triggers in        *)
(* EventTriggers.                                                          *)
(***************************************************************************)
EXTENDS Integers

CONSTANTS
  Statics,        \* active static triggers of the chatbot version
  ConversationEnds,  \* those of type conversation_end, which is never raised itself
  LastTimeouts,   \* those of type last_timeout; the others are ended_by_event
  EndingStatics   \* those whose action ends the conversation

ASSUME StaticSubsets ==
  /\ ConversationEnds \subseteq Statics /\ LastTimeouts \subseteq Statics
  /\ EndingStatics \subseteq Statics /\ ConversationEnds \intersect LastTimeouts = {}

VARIABLES
  raised,   \* enqueue_static_triggers tasks that wait, by type
  fires,    \* fire_static_trigger tasks that wait
  fired,    \* logs of each trigger
  happened  \* history: how often each type was raised

staticVars == <<raised, fires, fired, happened>>

EndTypes == {"ended_by_user", "ended_by_event"}
TriggerTypes == EndTypes \union {"last_timeout"}

StaticInit ==
  /\ raised = [type \in TriggerTypes |-> 0]
  /\ fires = [s \in Statics |-> 0]
  /\ fired = [s \in Statics |-> 0]
  /\ happened = [type \in TriggerTypes |-> 0]

TypeOf(s) ==
  IF s \in ConversationEnds THEN "conversation_end"
  ELSE IF s \in LastTimeouts THEN "last_timeout" ELSE "ended_by_event"

\* Mutant: a conversation_end trigger waits for its own type.
OwnType(type) == {s \in Statics : TypeOf(s) = type}

\* _get_static_triggers_to_fire
Matching(type) ==
  {s \in Statics : TypeOf(s) = type \/ (type \in EndTypes /\ TypeOf(s) = "conversation_end")}

\* session.end, or the last timeout: enqueue_static_triggers.delay.
Raise(type) ==
  /\ raised' = [raised EXCEPT ![type] = @ + 1]
  /\ happened' = [happened EXCEPT ![type] = @ + 1]
  /\ UNCHANGED <<fires, fired>>

EnqueueStatics(type) ==
  /\ raised[type] > 0
  /\ raised' = [raised EXCEPT ![type] = @ - 1]
  /\ fires' = [s \in Statics |-> fires[s] + (IF s \in Matching(type) THEN 1 ELSE 0)]
  /\ UNCHANGED <<fired, happened>>

\* StaticTrigger.fire: the action may end the conversation, and raises that; a
\* failure is logged too.
FireStatic(s, ends) ==
  /\ fires[s] > 0 /\ (ends => s \in EndingStatics)
  /\ fires' = [fires EXCEPT ![s] = @ - 1]
  /\ fired' = [fired EXCEPT ![s] = @ + 1]
  /\ IF ends
     THEN /\ raised' = [raised EXCEPT !["ended_by_event"] = @ + 1]
          /\ happened' = [happened EXCEPT !["ended_by_event"] = @ + 1]
     ELSE UNCHANGED <<raised, happened>>

StaticStep(ends) ==
  \/ ends = FALSE /\ \E type \in TriggerTypes : EnqueueStatics(type)
  \/ \E s \in Statics : FireStatic(s, ends)
StaticNext == (\E ends \in BOOLEAN : StaticStep(ends)) \/ \E type \in TriggerTypes : Raise(type)

StaticSpec == StaticInit /\ [][StaticNext]_staticVars

-----------------------------------------------------------------------------
\* Counts are counts.
StaticTypeOK ==
  /\ raised \in [TriggerTypes -> Nat] /\ happened \in [TriggerTypes -> Nat]
  /\ fires \in [Statics -> Nat] /\ fired \in [Statics -> Nat]

\* Every end of a conversation, however it ends, fires the conversation_end
\* triggers once, the last timeout does not, and other triggers fire once each
\* time their own type is raised (events/tasks.py:23): what has happened was fired
\* or is in a queue.
EveryRaiseFires ==
  LET Count(counts, s) ==
        IF s \in ConversationEnds THEN counts["ended_by_user"] + counts["ended_by_event"]
        ELSE counts[TypeOf(s)]
  IN \A s \in Statics : fired[s] + fires[s] + Count(raised, s) = Count(happened, s)
=============================================================================
