-------------------------- MODULE MCAnnotationQueue --------------------------
(* Instances of AnnotationQueue for TLC.                                      *)
EXTENDS AnnotationQueue, TLC

\* Reviewers, requests and admins are interchangeable: every action quantifies
\* over all of them and no definition orders them.
Symmetry ==
  Permutations(Reviewers) \cup Permutations(Requests) \cup Permutations(Admins)
=============================================================================
