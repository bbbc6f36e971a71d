-------------------------- MODULE AnnotationOutputs --------------------------
(***************************************************************************)
(* What follows the annotations of one item of a queue                     *)
(* (apps/human_annotations, apps/assessments): submissions, edits, marks of*)
(* the authoritative annotation and changes of the required number of      *)
(* reviews recompute the stored aggregate and rewrite the scores after they*)
(* have committed, each from what it read itself.  Who may submit, and the *)
(* statuses, are in AnnotationQueue.                                       *)
(***************************************************************************)
EXTENDS Integers, Sequences

CONSTANTS
  Annotations,  \* annotations of the item, one of each reviewer
  Changes,      \* ids of requests
  MaxData,      \* bound: versions of an annotation's data
  NoChange, NoAnnotation

ASSUME OutputConstants ==
  MaxData \in Nat \ {0} /\ NoChange \notin Changes /\ NoAnnotation \notin Annotations

VARIABLES
  single,    \* num_reviews_required is 1
  data,      \* version of each annotation's data, 0 before it is submitted
  authority, \* the authoritative annotation, and whether it was marked automatically
  itemLock,
  aggregate, \* the stored aggregate: annotations that contribute, with their data
  scores,    \* version of the data each annotation's scores are from
  change,    \* requests: kind, annotation, progress and what they have read
  reads,     \* number of aggregates computed so far
  stored,    \* history: the number of the aggregate that is stored
  missed,    \* history: how many were computed when a change was last left without one
  crossed    \* history: annotations whose scores another save, or none, has followed

outputVars == <<single, data, authority, itemLock, aggregate, scores, change, reads,
                stored, missed, crossed>>

Nobody == [of |-> NoAnnotation, auto |-> FALSE]
NewChange == [kind |-> "none", of |-> NoAnnotation, pc |-> "idle", todo |-> <<>>, version |-> 0,
              single |-> FALSE, value |-> {}, read |-> 0, beaten |-> FALSE]

Submitted == {a \in Annotations : data[a] > 0}

\* The authoritative annotation if there is one, else all that are submitted.
Contributing ==
  {<<a, data[a]>> : a \in IF authority.of \in Submitted THEN {authority.of} ELSE Submitted}

OutputStart(isSingle, before, authoritative) ==
  /\ single = isSingle
  /\ data = before /\ scores = data
  /\ authority = authoritative
  /\ itemLock = NoChange
  /\ aggregate = Contributing
  /\ change = [c \in Changes |-> NewChange]
  /\ reads = 0 /\ stored = 0 /\ missed = -1
  /\ crossed = {}

\* Some annotations may have been submitted, scored and aggregated before.
OutputInit ==
  \E isSingle \in BOOLEAN, before \in [Annotations -> {0, 1}] :
    \E authoritative \in {Nobody} \union
          [of : {a \in Annotations : before[a] > 0}, auto : {FALSE, isSingle}] :
      OutputStart(isSingle, before, authoritative)

\* Requests that have read or saved an annotation and will write its scores.
Writers(a) ==
  {c \in Changes : /\ change[c].of = a
                   /\ \/ change[c].pc \in {"loaded", "replacing"}
                      \/ \E i \in DOMAIN change[c].todo : change[c].todo[i] = "scores"}
Marking == {c \in Changes : change[c].pc = "marking"}
Begins(c, kind, a) == [NewChange EXCEPT !.kind = kind, !.of = a]

\* Mutant: an edit writes no scores.
NoScoresOfEdits(kind) ==
  IF kind = "submit" THEN <<"aggregate", "scores">> ELSE <<"aggregate">>

\* What is done after a commit.
Followed(kind) ==
  CASE kind = "submit" -> <<"aggregate", "scores">>
    [] kind = "edit" -> <<"scores", "aggregate">>
    [] OTHER -> <<"aggregate">>

Follow(c) == [change EXCEPT ![c].pc = "next", ![c].todo = Followed(change[c].kind)]
Proceeds(c) ==
  change' = [change EXCEPT ![c].todo = Tail(@),
                           ![c].pc = IF Len(change[c].todo) = 1 THEN "done" ELSE "next"]

-----------------------------------------------------------------------------
\* Changes.

LoadItem(c, a) ==
  /\ change[c].pc = "idle" /\ data[a] = 0 /\ Writers(a) = {}
  /\ change' = [change EXCEPT ![c] = [Begins(c, "submit", a) EXCEPT !.pc = "loaded",
                                                                  !.single = single]]
  /\ UNCHANGED <<single, data, authority, itemLock, aggregate, scores, reads, stored,
                 missed, crossed>>

\* Annotation.save of a new annotation, under the lock of the item; the first of a
\* queue with one review is marked.
Submit(c) ==
  LET marks == change[c].single /\ authority = Nobody
  IN /\ change[c].kind = "submit" /\ change[c].pc = "loaded" /\ itemLock = NoChange
     /\ marks => Marking = {}
     /\ data' = [data EXCEPT ![change[c].of] = 1]
     /\ authority' = IF marks THEN [of |-> change[c].of, auto |-> TRUE] ELSE authority
     /\ change' = [Follow(c) EXCEPT ![c].version = 1]
     /\ UNCHANGED <<single, itemLock, aggregate, scores, reads, stored, missed, crossed>>

\* The edit view saves the data; a mark that is being set holds the row.
Edit(c, a) ==
  /\ change[c].pc = "idle" /\ data[a] \in 1 .. MaxData - 1
  /\ \A d \in Changes : change[d].of = a => ~(d \in Marking \/ itemLock = d)
  /\ data' = [data EXCEPT ![a] = @ + 1]
  /\ change' = [change EXCEPT ![c] = [Begins(c, "edit", a) EXCEPT !.pc = "next",
                                        !.todo = Followed("edit"), !.version = data[a] + 1]]
  /\ crossed' = IF Writers(a) # {} THEN crossed \union {a} ELSE crossed \ {a}
  /\ UNCHANGED <<single, authority, itemLock, aggregate, scores, reads, stored, missed>>

\* SetAuthoritative reads the annotation, then locks the item, changes the mark and
\* writes the scores of what it has read, in one transaction.
LoadMark(c, a, kind) ==
  /\ change[c].pc = "idle" /\ data[a] > 0
  /\ change' = [change EXCEPT ![c] = [Begins(c, kind, a) EXCEPT !.pc = "loaded", !.version = data[a]]]
  /\ UNCHANGED <<single, data, authority, itemLock, aggregate, scores, reads, stored,
                 missed, crossed>>

StartMark(c) ==
  /\ change[c].kind \in {"mark", "unmark"} /\ change[c].pc = "loaded"
  /\ itemLock = NoChange /\ Marking = {}
  /\ itemLock' = c
  /\ change' = [change EXCEPT ![c].pc = "replacing"]
  /\ UNCHANGED <<single, data, authority, aggregate, scores, reads, stored, missed, crossed>>

\* The number of required reviews is saved, then the items are resynced.
SaveRequired(c) ==
  /\ change[c].pc = "idle"
  /\ single' = ~single
  /\ change' = [change EXCEPT ![c] = [NewChange EXCEPT !.kind = IF single THEN "raise" ELSE "lower",
                                                       !.pc = "resyncing"]]
  /\ UNCHANGED <<data, authority, itemLock, aggregate, scores, reads, stored, missed,
                 crossed>>

\* Mutant: resync_items recomputes nothing.
NoneCleared == FALSE

\* A raise clears a mark that was set automatically.
Clears == authority.auto

ResyncRaise(c) ==
  /\ change[c].kind = "raise" /\ change[c].pc = "resyncing" /\ itemLock = NoChange
  /\ authority' = IF authority.auto THEN Nobody ELSE authority
  /\ change' = IF Clears THEN Follow(c) ELSE [change EXCEPT ![c].pc = "done"]
  /\ UNCHANGED <<single, data, itemLock, aggregate, scores, reads, stored, missed, crossed>>

\* resync_items marks a lone annotation, then waits for the item; nothing follows.
MarkLone(c) ==
  /\ change[c].kind = "lower" /\ change[c].pc = "resyncing"
  /\ itemLock = NoChange /\ Marking = {}
  /\ \/ \E a \in Submitted :
          /\ Submitted = {a} /\ authority.of # a
          /\ change' = [change EXCEPT ![c].pc = "marking", ![c].of = a]
     \/ change' = [change EXCEPT ![c].pc = "done"]
  /\ UNCHANGED <<single, data, authority, itemLock, aggregate, scores, reads, stored,
                 missed, crossed>>

CommitLone(c) ==
  /\ c \in Marking /\ itemLock = NoChange
  /\ authority' = [of |-> change[c].of, auto |-> TRUE]
  /\ missed' = IF Submitted = {change[c].of} THEN missed ELSE reads
  /\ change' = [change EXCEPT ![c].pc = "done"]
  /\ UNCHANGED <<single, data, itemLock, aggregate, scores, reads, stored, crossed>>

-----------------------------------------------------------------------------
\* What follows them.

NextIs(c, step) == change[c].pc = "next" /\ Head(change[c].todo) = step

\* compute_aggregates_for_queue reads the annotations, ...
Compute(c) ==
  /\ NextIs(c, "aggregate")
  /\ reads' = reads + 1
  /\ change' = [change EXCEPT ![c].pc = "storing", ![c].value = Contributing, ![c].read = reads']
  /\ UNCHANGED <<single, data, authority, itemLock, aggregate, scores, stored, missed,
                 crossed>>

\* ... and stores the aggregate, whatever is stored meanwhile.
Store(c) ==
  /\ change[c].pc = "storing"
  /\ aggregate' = change[c].value
  /\ stored' = change[c].read
  /\ Proceeds(c)
  /\ UNCHANGED <<single, data, authority, itemLock, scores, reads, missed, crossed>>

\* _replace_scores deletes the scores it sees, ...
DeleteScores(c) ==
  /\ NextIs(c, "scores")
  /\ change' = [change EXCEPT ![c].pc = "replacing", ![c].beaten = FALSE]
  /\ UNCHANGED <<single, data, authority, itemLock, aggregate, scores, reads, stored,
                 missed, crossed>>

\* ... and creates new ones, which the unique constraint refuses when others were
\* created since; that is logged.
ReplacedScores(c) ==
  scores' = IF change[c].beaten THEN scores ELSE [scores EXCEPT ![change[c].of] = change[c].version]
Beats(c, changes) ==
  [d \in Changes |-> IF d # c /\ changes[d].pc = "replacing" /\ changes[d].of = change[c].of
                     THEN [changes[d] EXCEPT !.beaten = @ \/ ~change[c].beaten] ELSE changes[d]]

CreateScores(c) ==
  /\ change[c].pc = "replacing" /\ itemLock # c
  /\ ReplacedScores(c)
  /\ change' = Beats(c, [change EXCEPT ![c].todo = Tail(@),
                                       ![c].pc = IF Len(change[c].todo) = 1 THEN "done" ELSE "next"])
  /\ UNCHANGED <<single, data, authority, itemLock, aggregate, reads, stored, missed,
                 crossed>>

CommitMark(c) ==
  /\ itemLock = c
  /\ itemLock' = NoChange
  /\ ReplacedScores(c)
  /\ authority' = IF change[c].kind = "mark" THEN [of |-> change[c].of, auto |-> FALSE]
                  ELSE IF authority.of = change[c].of THEN Nobody ELSE authority
  /\ change' = Beats(c, Follow(c))
  /\ UNCHANGED <<single, data, aggregate, reads, stored, missed, crossed>>

\* An aggregation or a write of scores fails, which is logged, or the request dies.
Lapse(c) ==
  /\ change[c].pc \in {"next", "storing"} \/ (change[c].pc = "replacing" /\ itemLock # c)
  /\ \/ Proceeds(c)
     \/ change' = [change EXCEPT ![c].todo = <<>>, ![c].pc = "done"]
  /\ missed' = reads
  /\ crossed' = crossed \union ({change[c].of} \intersect Annotations)
  /\ UNCHANGED <<single, data, authority, itemLock, aggregate, scores, reads, stored>>

OutputNext ==
  \E c \in Changes :
    \/ \E a \in Annotations :
         LoadItem(c, a) \/ Edit(c, a) \/ \E kind \in {"mark", "unmark"} : LoadMark(c, a, kind)
    \/ Submit(c) \/ StartMark(c) \/ CommitMark(c)
    \/ SaveRequired(c) \/ ResyncRaise(c) \/ MarkLone(c) \/ CommitLone(c)
    \/ Compute(c) \/ Store(c) \/ DeleteScores(c) \/ CreateScores(c) \/ Lapse(c)

OutputSpec == OutputInit /\ [][OutputNext]_outputVars

-----------------------------------------------------------------------------
Settled == \A c \in Changes : change[c].pc \in {"idle", "done"}

\* When requests are over and the aggregate computed last is the one stored, it is
\* that of the annotations as they are: every change is followed by a computation,
\* also a raise that clears a mark; except for a computation that has failed and an
\* automatic mark that lands on two reviews (human_annotations/aggregation.py:58).
EveryChangeIsAggregated ==
  Settled /\ stored = reads /\ missed < reads => aggregate = Contributing

\* Scores are those of the annotation's data when requests are over, unless the data
\* was saved while another request was about to write the scores of older data
\* (assessments/score_writers.py:107).
ScoresAreCurrent ==
  Settled => \A a \in Annotations \ crossed : scores[a] = data[a]

\* What is derived from annotations follows them: the aggregate and the scores.
OutputsAreCurrent == EveryChangeIsAggregated /\ ScoresAreCurrent
=============================================================================
