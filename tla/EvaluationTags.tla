---------------------------- MODULE EvaluationTags ----------------------------
(***************************************************************************)
(* The tags that evaluation runs of one config put on chats or messages    *)
(* (apps/evaluations/tagging.py): every result applies the tags its rules  *)
(* match, the finalized run removes those it did not apply, and clearing   *)
(* the runs removes all.  The run itself is EvaluationRun.                 *)
(***************************************************************************)
EXTENDS Integers, FiniteSets

CONSTANTS
  FullRuns, DeltaRuns,  \* ids of evaluation runs
  Targets,              \* chats or chat messages, one for each evaluation message
  RuleTags,             \* tags of the evaluators' rules
  MaxTagEdits           \* bound: edits of the rules, and of links by users

TagRuns == FullRuns \union DeltaRuns
TagPairs == Targets \X RuleTags

ASSUME RunsAreOfOneType == FullRuns \intersect DeltaRuns = {} /\ MaxTagEdits \in Nat

VARIABLES
  link,       \* the link of each target and tag: "none", by an "evaluation" or by a "user"
  managed,    \* tags that a rule of the evaluators has now
  collected,  \* targets of the messages in the dataset
  tagRun,     \* runs: progress, targets of the frozen plan, those to evaluate, AppliedTag rows,
              \* and the stale links it has computed
  clearing,   \* runs a request is about to delete
  edits,
  mixed       \* history: runs and targets whose links others may have changed, or would have to

tagVars == <<link, managed, collected, tagRun, clearing, edits, mixed>>

NoRun == [pc |-> "idle", scope |-> {}, todo |-> {}, applied |-> {}, stale |-> {}]

TagsStart(messages) ==
  /\ link = [p \in TagPairs |-> "none"]
  /\ managed = RuleTags
  /\ collected = messages
  /\ tagRun = [r \in TagRuns |-> NoRun]
  /\ clearing = {}
  /\ edits = 0
  /\ mixed = {}

TagsInit == \E messages \in SUBSET Targets : TagsStart(messages)

Active == {r \in TagRuns : tagRun[r].pc \in {"running", "completed", "sweeping"}}
Kept == {r \in TagRuns : tagRun[r].pc \notin {"idle", "deleted"}}

\* Targets whose links a run may change.
Reach(r, scope) == IF r \in DeltaRuns THEN scope ELSE Targets

-----------------------------------------------------------------------------
\* Runs.

\* The plan is frozen: the dataset, or the messages that were appended.
StartTagRun(r) ==
  /\ tagRun[r].pc = "idle" /\ collected # {}
  /\ \E scope \in IF r \in FullRuns THEN {collected} ELSE SUBSET collected \ {{}} :
       /\ tagRun' = [tagRun EXCEPT ![r] = [pc |-> "running", scope |-> scope, todo |-> scope,
                                          applied |-> {}, stale |-> {}]]
       /\ mixed' = mixed \union (Kept \X Reach(r, scope))
                        \union ({r} \X UNION {Reach(q, tagRun[q].scope) : q \in Active})
  /\ UNCHANGED <<link, managed, collected, clearing, edits>>

\* apply_rules_to_result, in the transaction of the result: links that are there
\* stay as they are.  No tag matches a result that is an error.
ApplyRules(r, t, matched) ==
  LET pairs == {t} \X matched
  IN /\ tagRun[r].pc = "running" /\ t \in tagRun[r].todo
     /\ link' = [p \in TagPairs |-> IF p \in pairs /\ link[p] = "none" THEN "evaluation" ELSE link[p]]
     /\ tagRun' = [tagRun EXCEPT ![r].todo = @ \ {t}, ![r].applied = @ \union pairs]
     /\ UNCHANGED <<managed, collected, clearing, edits, mixed>>

CompleteTagRun(r) ==
  /\ tagRun[r].pc = "running" /\ tagRun[r].todo = {}
  /\ tagRun' = [tagRun EXCEPT ![r].pc = "completed"]
  /\ UNCHANGED <<link, managed, collected, clearing, edits, mixed>>

\* Mutant: only tags that the run has applied to some target are looked at.
UsedTags(r) == {tag \in managed : \E t \in Targets : <<t, tag>> \in tagRun[r].applied}

\* _get_possible_tags, of the rules as they are now.
PossibleTags(r) == managed

\* Mutant: a delta run sweeps the dataset too.
WholeDataset(r) == collected

\* _compute_stale_by_target: the dataset as it is now, or the messages of a delta run.
Swept(r) == IF r \in DeltaRuns THEN tagRun[r].scope \intersect collected ELSE collected

ComputeStale(r) ==
  /\ tagRun[r].pc = "completed"
  /\ tagRun' = [tagRun EXCEPT ![r].pc = "sweeping",
                              ![r].stale = (Swept(r) \X PossibleTags(r)) \ tagRun[r].applied]
  /\ UNCHANGED <<link, managed, collected, clearing, edits, mixed>>

\* Whoever has put the link there.
RemoveStale(r) ==
  /\ tagRun[r].pc = "sweeping"
  /\ link' = [p \in TagPairs |-> IF p \in tagRun[r].stale THEN "none" ELSE link[p]]
  /\ tagRun' = [tagRun EXCEPT ![r].pc = "done", ![r].stale = {}]
  /\ UNCHANGED <<managed, collected, clearing, edits, mixed>>

\* finalize_evaluation_run dies or fails before the links are removed.
SweepDies(r) ==
  /\ tagRun[r].pc \in {"completed", "sweeping"}
  /\ tagRun' = [tagRun EXCEPT ![r].pc = "done", ![r].stale = {}]
  /\ mixed' = mixed \union ({r} \X Targets)
  /\ UNCHANGED <<link, managed, collected, clearing, edits>>

-----------------------------------------------------------------------------
\* Users.

\* ClearEvaluationRuns is refused while one of the runs is in progress.
CheckClear ==
  /\ clearing = {} /\ Kept # {}
  /\ \A r \in Kept : tagRun[r].pc # "running"
  /\ clearing' = Kept
  /\ UNCHANGED <<link, managed, collected, tagRun, edits, mixed>>

\* Mutant: only finalized runs are un-applied.
AppliedByDone == UNION {tagRun[r].applied : r \in {q \in clearing : tagRun[q].pc = "done"}}

\* remove_applied_tags_for_runs reads the AppliedTag rows of the runs.
AppliedByCleared == UNION {tagRun[r].applied : r \in clearing}

\* Links of a user stay.
ClearRuns ==
  /\ clearing # {}
  /\ link' = [p \in TagPairs |->
                IF p \in AppliedByCleared /\ link[p] = "evaluation" THEN "none" ELSE link[p]]
  /\ tagRun' = [r \in TagRuns |-> IF r \in clearing THEN [NoRun EXCEPT !.pc = "deleted"] ELSE tagRun[r]]
  /\ clearing' = {}
  /\ mixed' = mixed \union (Kept \X Targets)
  /\ UNCHANGED <<managed, collected, edits>>

EditRules(tag) ==
  /\ edits < MaxTagEdits /\ edits' = edits + 1
  /\ managed' = IF tag \in managed THEN managed \ {tag} ELSE managed \union {tag}
  /\ mixed' = mixed \union (Kept \X Targets)
  /\ UNCHANGED <<link, collected, tagRun, clearing>>

AppendMessage(t) ==
  /\ t \notin collected
  /\ collected' = collected \union {t}
  /\ UNCHANGED <<link, managed, tagRun, clearing, edits, mixed>>

\* add_tags of a user, who may take the tag away again.
TagByHand(p) ==
  /\ edits < MaxTagEdits /\ edits' = edits + 1
  /\ link' \in {[link EXCEPT ![p] = IF link[p] = "none" THEN "user" ELSE link[p]],
                [link EXCEPT ![p] = "none"]}
  /\ link' # link
  /\ mixed' = mixed \union (Kept \X {p[1]})
  /\ UNCHANGED <<managed, collected, tagRun, clearing>>

TagsNext ==
  \/ \E r \in TagRuns :
       \/ StartTagRun(r) \/ CompleteTagRun(r) \/ ComputeStale(r) \/ RemoveStale(r) \/ SweepDies(r)
       \/ \E t \in Targets, matched \in SUBSET managed : ApplyRules(r, t, matched)
  \/ CheckClear \/ ClearRuns
  \/ (\E tag \in RuleTags : EditRules(tag)) \/ (\E t \in Targets : AppendMessage(t))
  \/ \E p \in TagPairs : TagByHand(p)

TagsSpec == TagsInit /\ [][TagsNext]_tagVars

-----------------------------------------------------------------------------
\* After a run, each target it has evaluated is tagged as the run says: stale tags
\* of earlier runs are gone, its own are there, and a later delta run of other
\* targets does not change that; unless another run that reaches the target, a
\* clearing, an edit of the rules or a user came between (evaluations/tagging.py:166).
TagsAsEvaluated ==
  \A r \in TagRuns : tagRun[r].pc = "done" =>
    \A t \in tagRun[r].scope, tag \in managed :
      <<r, t>> \notin mixed => (link[<<t, tag>>] # "none" <=> <<t, tag>> \in tagRun[r].applied)

\* Every link of an evaluation has a run that has recorded it, so that clearing the
\* runs takes all of them away, also those of a run that is being finalized
\* (evaluations/tagging.py:218).
LinksAreRecorded ==
  \A p \in TagPairs :
    link[p] = "evaluation" => \E r \in TagRuns : p \in tagRun[r].applied

\* Tags are what the runs say, and the runs know every tag there is.
TagsAreRight == TagsAsEvaluated /\ LinksAreRecorded
=============================================================================
