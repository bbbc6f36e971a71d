---------------------------- MODULE EvaluationPlan ---------------------------
(***************************************************************************)
(* What an evaluation run promises (ADR-0047), without ticks, batches,     *)
(* queues or crashes: a plan of (message, evaluator) pairs is frozen, each *)
(* pair is judged at most once, and the run completes only when every pair *)
(* that is still due has been judged.  EvaluationRun implements it.        *)
(***************************************************************************)
CONSTANT Pairs

VARIABLES
  phase,    \* "none", "open", "completed", "failed" or "deleted"
  due,      \* the planned pairs whose message and evaluator still exist
  outcome   \* per pair: "none", "ok" or "error"

planVars == <<phase, due, outcome>>

Init ==
  /\ phase = "none"
  /\ due = {}
  /\ outcome = [p \in Pairs |-> "none"]

\* EvaluationConfig.run
Freeze ==
  /\ phase = "none"
  /\ phase' = "open"
  /\ due' \subseteq Pairs
  /\ UNCHANGED outcome

\* A pair is judged once, in an open run or by a straggler in a failed one.
Judge ==
  \E p \in due, o \in {"ok", "error"} :
    /\ phase \in {"open", "failed"}
    /\ outcome[p] = "none"
    /\ outcome' = [outcome EXCEPT ![p] = o]
    /\ UNCHANGED <<phase, due>>

\* Messages or evaluators are deleted: their pairs are no longer due.
Withdraw ==
  /\ phase # "none"
  /\ due' \subseteq due
  /\ outcome' = [p \in Pairs |-> IF p \in due \ due' THEN "none" ELSE outcome[p]]
  /\ UNCHANGED phase

Complete ==
  /\ phase = "open"
  /\ \A p \in due : outcome[p] # "none"
  /\ phase' = "completed"
  /\ UNCHANGED <<due, outcome>>

GiveUp ==
  /\ phase = "open"
  /\ phase' = "failed"
  /\ UNCHANGED <<due, outcome>>

Delete ==
  /\ phase # "none"
  /\ phase' = "deleted"
  /\ due' = {}
  /\ outcome' = [p \in Pairs |-> "none"]

Next == Freeze \/ Judge \/ Withdraw \/ Complete \/ GiveUp \/ Delete

Spec == Init /\ [][Next]_planVars
=============================================================================
