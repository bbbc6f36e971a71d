---------------------------- MODULE MCFairProtocols ----------------------------
(***************************************************************************)
(* Protocols with liveness properties for TLC, side by side as in          *)
(* MCProtocols: the triggers of a session, the versions of a chatbot, the  *)
(* forms of an annotation queue and a scheduled message.                   *)
(***************************************************************************)
EXTENDS EventTriggers, ChatbotVersions, AnnotationQueue, ScheduledMessages

VARIABLE protocol

FairProtocols == {"events", "versions", "queue", "schedules"}
fairProtocolVars == <<protocol, eventVars, versionVars, vars, scheduleVars>>

\* A protocol that rests has one initial state.
FairProtocolsInit ==
  /\ protocol \in FairProtocols
  /\ EventInit /\ VersionInit
  /\ Init /\ (protocol # "queue" => required = 1)
  /\ IF protocol = "schedules" THEN ScheduleInit ELSE ScheduleStart([m \in Messages |-> NoRow])

FairProtocolsNext ==
  /\ UNCHANGED protocol
  /\ \/ protocol = "events" /\ EventNext /\ UNCHANGED <<versionVars, vars, scheduleVars>>
     \/ protocol = "versions" /\ VersionNext /\ UNCHANGED <<eventVars, vars, scheduleVars>>
     \/ protocol = "queue" /\ Next /\ UNCHANGED <<eventVars, versionVars, scheduleVars>>
     \/ protocol = "schedules" /\ ScheduleNext /\ UNCHANGED <<eventVars, versionVars, vars>>

\* A protocol that rests is not asked for anything: none of the steps that are fair
\* is enabled in its initial state.
FairProtocolsSpec ==
  /\ FairProtocolsInit /\ [][FairProtocolsNext]_fairProtocolVars
  /\ EventFairness /\ VersionFairness /\ Fairness /\ ScheduleFairness
=============================================================================
