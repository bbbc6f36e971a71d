--------------------------- MODULE MCEvaluationRun ---------------------------
(* Small instances of EvaluationRun for TLC.                               *)
EXTENDS EvaluationRun, TLC

\* Drivers, workers and evaluators are interchangeable; messages are ordered by
\* their ids.  Used by the runs without liveness properties.
Symmetry ==
  Permutations(Drivers) \cup Permutations(Workers) \cup Permutations(Evaluators)
=============================================================================
