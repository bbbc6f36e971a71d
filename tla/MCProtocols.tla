----------------------------- MODULE MCProtocols -----------------------------
(***************************************************************************)
(* The short protocols of the application for TLC, side by side: one is    *)
(* chosen at the start and runs, the others rest.  They share nothing, so  *)
(* each property is about the states of one of them.                       *)
(***************************************************************************)
EXTENDS EventTriggers, AutoPopulation, EvaluationTags, WidgetAuth, Notifications, ProviderToken,
        RateLimit, AnnotationOutputs

VARIABLE protocol

Protocols == {"events", "auto_population", "tags", "widgets", "notifications", "tokens",
              "rates", "outputs"}
protocolVars == <<protocol, eventVars, ruleVars, tagVars, widgetVars, noticeVars, tokenVars,
                  rateVars, outputVars>>

\* The protocols other than p stay where they are.
Rest(p) ==
  /\ p # "events" => UNCHANGED eventVars
  /\ p # "auto_population" => UNCHANGED ruleVars
  /\ p # "tags" => UNCHANGED tagVars
  /\ p # "widgets" => UNCHANGED widgetVars
  /\ p # "notifications" => UNCHANGED noticeVars
  /\ p # "tokens" => UNCHANGED tokenVars
  /\ p # "rates" => UNCHANGED rateVars
  /\ p # "outputs" => UNCHANGED outputVars

\* A protocol that rests has one initial state.
ProtocolsInit ==
  /\ protocol \in Protocols
  /\ EventInit /\ RuleInit /\ NoticeInit /\ TokenInit
  /\ IF protocol = "tags" THEN TagsInit ELSE TagsStart({})
  /\ IF protocol = "widgets" THEN WidgetInit ELSE WidgetStart("never", 2)
  /\ IF protocol = "rates" THEN RateInit
     ELSE RateStart([enforce |-> FALSE, refuse |-> TRUE, failOpen |-> TRUE], [v \in Visits |-> {}])
  /\ IF protocol = "outputs" THEN OutputInit
     ELSE OutputStart(TRUE, [a \in Annotations |-> 0], Nobody)

ProtocolsNext ==
  /\ UNCHANGED protocol
  /\ Rest(protocol)
  /\ \/ protocol = "events" /\ EventNext
     \/ protocol = "auto_population" /\ RuleNext
     \/ protocol = "tags" /\ TagsNext
     \/ protocol = "widgets" /\ WidgetNext
     \/ protocol = "notifications" /\ NoticeNext
     \/ protocol = "tokens" /\ TokenNext
     \/ protocol = "rates" /\ RateNext
     \/ protocol = "outputs" /\ OutputNext

ProtocolsSpec == ProtocolsInit /\ [][ProtocolsNext]_protocolVars
=============================================================================
