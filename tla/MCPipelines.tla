---------------------------- MODULE MCPipelines ----------------------------
(***************************************************************************)
(* For TLC, side by side as in MCProtocols: the editors of a pipeline, its *)
(* build and run, and scheduled messages polled by several workers.        *)
(***************************************************************************)
EXTENDS PipelineEdits, PipelineRun, ScheduledMessages, TLC

VARIABLE part

Symmetry == Permutations(Editors)
Parts == {"edits", "graphs", "schedules"}
partVars == <<part, editVars, graphVars, scheduleVars>>

\* A part that rests has one initial state.
PartsInit ==
  /\ part \in Parts
  /\ EditsInit /\ ScheduleInit
  /\ IF part = "graphs" THEN GraphInit ELSE GraphStart({})

PartsNext ==
  /\ UNCHANGED part
  /\ \/ part = "edits" /\ EditsNext /\ UNCHANGED <<graphVars, scheduleVars>>
     \/ part = "graphs" /\ GraphNext /\ UNCHANGED <<editVars, scheduleVars>>
     \/ part = "schedules" /\ ScheduleNext /\ UNCHANGED <<editVars, graphVars>>

PartsSpec == PartsInit /\ [][PartsNext]_partVars
=============================================================================
