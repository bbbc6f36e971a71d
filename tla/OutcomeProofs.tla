---------------------------- MODULE OutcomeProofs ----------------------------
(***************************************************************************)
(* Proofs about AutoPopulation, EvaluationTags and AnnotationOutputs, what *)
(* evaluations and annotations result in: what a rule appends is evaluated *)
(* once and the rule is disabled by the failures it had, the tags of a     *)
(* run's targets are those the run says, and the aggregate and the scores  *)
(* of an annotated item are those of its annotations.                      *)
(***************************************************************************)
EXTENDS AutoPopulation, EvaluationTags, AnnotationOutputs, TLAPS

-----------------------------------------------------------------------------
(* The rule.                                                               *)

Rules == [enabled : BOOLEAN, failures : Nat]
TickRows ==
  [pc : {"idle", "listed", "ingesting", "committed", "failed", "counting", "done"},
   append : SUBSET NewSessions, failures : Nat]

RuleTyped ==
  /\ rule \in Rules
  /\ tick \in [Ticks -> TickRows]
  /\ deltas \in [NewSessions -> Nat]
  /\ toggle \in [enable : BOOLEAN, failures : Nat \union {NotRead}]
  /\ dataset \subseteq NewSessions
  /\ recorded \in Nat /\ raced \in BOOLEAN
  /\ disabledBy \in {"nobody", "user", "failures"}

\* A tick that ingests holds the row of a rule that is enabled: nobody counts failures
\* or toggles the rule meanwhile.
IngestsUnderLock ==
  /\ \A k \in Ticks : tick[k].pc = "ingesting" <=> rowLock = k
  /\ rowLock # NoTick => rule.enabled
  /\ rule.enabled => disabledBy = "nobody"

\* A toggle that enables the rule brings no failures.
TogglesFresh == toggle.enable => toggle.failures = 0

\* A session waits for the delta run of one tick.
Awaits(k, s) == tick[k].pc = "committed" /\ s \in tick[k].append

OneTickAppends ==
  /\ byHand \subseteq dataset /\ dropped \subseteq dataset
  /\ \A j, k \in Ticks, s \in NewSessions : Awaits(j, s) /\ Awaits(k, s) => j = k

\* What AppendedEvaluatedOnce says of one session.
EvaluatedOnce(s) ==
  IF s \in dataset \ (byHand \union dropped)
  THEN deltas[s] = (IF \E k \in Ticks : Awaits(k, s) THEN 0 ELSE 1)
  ELSE deltas[s] = 0 /\ ~\E k \in Ticks : Awaits(k, s)

\* The count is exact, and what has disabled the rule has reached the threshold.
CountsRecorded ==
  ~raced =>
    /\ rule.failures = recorded
    /\ disabledBy = "failures" => recorded >= Threshold
    /\ rule.enabled => recorded < Threshold

RuleInv ==
  /\ RuleTyped /\ IngestsUnderLock /\ TogglesFresh /\ OneTickAppends /\ CountsRecorded
  /\ \A s \in NewSessions : EvaluatedOnce(s)

LEMMA RuleInvImplies == RuleInv => RuleKeepsCount
<1> SUFFICES ASSUME RuleInv PROVE RuleKeepsCount OBVIOUS
<1>1. AppendedEvaluatedOnce
  BY DEF AppendedEvaluatedOnce, RuleInv, EvaluatedOnce, Awaits
<1>2. DisabledByFailures BY DEF DisabledByFailures, RuleInv, CountsRecorded
<1> QED BY <1>1, <1>2 DEF RuleKeepsCount

LEMMA RuleInitInv == RuleInit => RuleInv
<1> SUFFICES ASSUME RuleInit PROVE RuleInv OBVIOUS
<1>1. RuleTyped BY DEF RuleInit, RuleTyped, Rules, TickRows, NotRead
<1>2. \A k \in Ticks, s \in NewSessions : ~Awaits(k, s) BY DEF RuleInit, Awaits
<1>3. IngestsUnderLock /\ TogglesFresh /\ OneTickAppends
  BY <1>2, RuleConstants DEF RuleInit, IngestsUnderLock, TogglesFresh, OneTickAppends
<1>4. CountsRecorded BY RuleConstants DEF RuleInit, CountsRecorded
<1>5. \A s \in NewSessions : EvaluatedOnce(s)
  BY <1>2 DEF RuleInit, EvaluatedOnce
<1> QED BY <1>1, <1>3, <1>4, <1>5 DEF RuleInv

\* One tick changes.
Ticks1(k, row) ==
  /\ tick' \in [Ticks -> TickRows] /\ tick'[k] = row
  /\ \A j \in Ticks \ {k} : tick'[j] = tick[j]

LEMMA TickMoved ==
  ASSUME RuleTyped, NEW k \in Ticks, NEW pc \in {"listed", "failed", "done"}, TickMoves(k, pc)
  PROVE  Ticks1(k, [pc |-> pc, append |-> tick[k].append, failures |-> tick[k].failures])
BY DEF RuleTyped, TickMoves, Ticks1, TickRows

\* A tick that does not append anything moves, under no lock of its own.
LEMMA QuietTick ==
  ASSUME RuleInv, NEW k \in Ticks, NEW row \in TickRows, Ticks1(k, row),
         tick[k].pc # "committed", row.pc \notin {"ingesting", "committed"},
         tick[k].pc = "ingesting" => rowLock' = NoTick,
         tick[k].pc # "ingesting" => UNCHANGED rowLock,
         UNCHANGED <<rule, dataset, deltas, toggleVars, ruleHistory, byHand, dropped>>
  PROVE  RuleInv'
<1>1. RuleTyped' BY DEF RuleInv, RuleTyped, Ticks1, toggleVars, ruleHistory
<1>2. \A j \in Ticks, s \in NewSessions : Awaits(j, s)' <=> Awaits(j, s)
  BY DEF Ticks1, Awaits
<1>3. OneTickAppends' BY <1>2 DEF RuleInv, OneTickAppends
<1>4. \A s \in NewSessions : EvaluatedOnce(s)'
  BY <1>2 DEF RuleInv, EvaluatedOnce
<1>5. CountsRecorded' BY DEF RuleInv, CountsRecorded, ruleHistory
<1>6. \A j \in Ticks : tick'[j].pc = "ingesting" <=> rowLock' = j
  BY RuleConstants DEF Ticks1, RuleInv, IngestsUnderLock
<1>7. IngestsUnderLock' /\ TogglesFresh'
  BY <1>6 DEF RuleInv, IngestsUnderLock, TogglesFresh, ruleHistory, toggleVars
<1> QED BY <1>1, <1>3, <1>4, <1>5, <1>7 DEF RuleInv

\* The rule is locked, or passed over.
LEMMA LockRuleStep ==
  ASSUME RuleInv, NEW k \in Ticks, LockRule(k) PROVE RuleInv'
<1>0. RuleTyped BY DEF RuleInv
<1>1. UNCHANGED <<rule, dataset, deltas, toggleVars, ruleHistory, byHand, dropped>>
      /\ tick[k].pc = "listed"
  BY DEF LockRule
<1>2. CASE rowLock = NoTick /\ rule.enabled
  <2>1. PICK found \in SUBSET (NewSessions \ dataset) :
          tick' = [tick EXCEPT ![k].pc = "ingesting", ![k].append = found]
    BY <1>2 DEF LockRule
  <2>2. rowLock' = k BY <1>2 DEF LockRule
  <2>3. Ticks1(k, [pc |-> "ingesting", append |-> found, failures |-> tick[k].failures])
    BY <1>0, <2>1 DEF RuleTyped, Ticks1, TickRows
  <2>4. RuleTyped' BY <1>0, <1>1, <2>3 DEF RuleTyped, Ticks1, toggleVars, ruleHistory
  <2>5. \A j \in Ticks, s \in NewSessions : Awaits(j, s)' <=> Awaits(j, s)
    BY <1>1, <2>3 DEF Ticks1, Awaits
  <2>6. OneTickAppends' BY <1>1, <2>5 DEF RuleInv, OneTickAppends
  <2>7. \A s \in NewSessions : EvaluatedOnce(s)'
    BY <1>1, <2>5 DEF RuleInv, EvaluatedOnce
  <2>8. CountsRecorded' BY <1>1 DEF RuleInv, CountsRecorded, ruleHistory
  <2>9. \A j \in Ticks \ {k} : tick[j].pc # "ingesting"
    BY <1>2, RuleConstants DEF RuleInv, IngestsUnderLock
  <2>10. IngestsUnderLock' /\ TogglesFresh'
    BY <1>1, <1>2, <2>2, <2>3, <2>9
       DEF RuleInv, IngestsUnderLock, TogglesFresh, Ticks1, ruleHistory, toggleVars
  <2> QED BY <2>4, <2>6, <2>7, <2>8, <2>10 DEF RuleInv
<1>3. CASE ~(rowLock = NoTick /\ rule.enabled)
  <2>1. TickMoves(k, "done") /\ UNCHANGED rowLock BY <1>3 DEF LockRule
  <2> DEFINE row == [pc |-> "done", append |-> tick[k].append, failures |-> tick[k].failures]
  <2>2. row \in TickRows /\ row.pc = "done" BY <1>0 DEF RuleTyped, TickRows
  <2>3. Ticks1(k, row) BY <1>0, <2>1, TickMoved
  <2> HIDE DEF row
  <2> QED BY <1>1, <2>1, <2>2, <2>3, QuietTick
<1> QED BY <1>2, <1>3

\* What is new is appended, and the count starts anew.
LEMMA IngestStep ==
  ASSUME RuleInv, NEW k \in Ticks, Ingest(k) PROVE RuleInv'
<1> DEFINE fresh == tick[k].append \ dataset
<1> DEFINE pc == IF fresh = {} THEN "done" ELSE "committed"
<1>0. RuleTyped BY DEF RuleInv
<1>1. /\ dataset' = dataset \union fresh /\ rowLock' = NoTick
      /\ tick' = [tick EXCEPT ![k].append = fresh, ![k].pc = pc]
      /\ UNCHANGED <<deltas, toggleVars, disabledBy, raced, byHand, dropped>>
  BY DEF Ingest, Appended
<1>2. rule' = [rule EXCEPT !.failures = 0] /\ recorded' = 0 /\ tick[k].pc = "ingesting"
  BY DEF Ingest, FailuresAfter
<1>3. fresh \subseteq NewSessions /\ fresh \intersect dataset = {} BY <1>0 DEF RuleTyped, TickRows
<1>4. pc \in {"done", "committed"} /\ (pc = "done" => fresh = {}) OBVIOUS
<1> HIDE DEF fresh, pc
<1>5. Ticks1(k, [pc |-> pc, append |-> fresh, failures |-> tick[k].failures])
  BY <1>0, <1>1, <1>3, <1>4 DEF RuleTyped, Ticks1, TickRows
<1>6. rule' \in Rules /\ rule'.failures = 0 /\ rule'.enabled = rule.enabled
  BY <1>0, <1>2 DEF RuleTyped, Rules
<1>7. RuleTyped'
  BY <1>0, <1>1, <1>2, <1>3, <1>5, <1>6 DEF RuleTyped, Ticks1, toggleVars
<1>8. \A j \in Ticks \ {k} : \A s \in NewSessions : Awaits(j, s)' <=> Awaits(j, s)
  BY <1>5 DEF Ticks1, Awaits
<1>9. \A s \in NewSessions : ~Awaits(k, s) /\ (Awaits(k, s)' <=> s \in fresh)
  BY <1>2, <1>4, <1>5 DEF Ticks1, Awaits
<1>10. \A s \in NewSessions \ dataset, j \in Ticks : ~Awaits(j, s) /\ deltas[s] = 0
  BY DEF RuleInv, EvaluatedOnce
<1>11. OneTickAppends'
  BY <1>1, <1>3, <1>8, <1>9, <1>10 DEF RuleInv, OneTickAppends
<1>12. ASSUME NEW s \in NewSessions PROVE EvaluatedOnce(s)'
  <2>1. EvaluatedOnce(s) BY DEF RuleInv
  <2>2. CASE s \in fresh
    <3>1. s \in dataset' \ (byHand' \union dropped')
      BY <1>1, <1>3, <2>2 DEF RuleInv, OneTickAppends
    <3> QED BY <1>1, <1>3, <1>9, <1>10, <2>2, <3>1 DEF EvaluatedOnce
  <2>3. CASE s \notin fresh
    <3>1. (\E j \in Ticks : Awaits(j, s)') <=> (\E j \in Ticks : Awaits(j, s))
      BY <1>8, <1>9, <2>3
    <3> QED BY <1>1, <2>1, <2>3, <3>1 DEF EvaluatedOnce
  <2> QED BY <2>2, <2>3
<1>13. rule.enabled /\ disabledBy = "nobody"
  <2>1. rowLock = k BY <1>2 DEF RuleInv, IngestsUnderLock
  <2> QED BY <2>1, RuleConstants DEF RuleInv, IngestsUnderLock
<1>14. CountsRecorded'
  BY <1>1, <1>2, <1>6, <1>13, RuleConstants DEF CountsRecorded
<1>15. \A j \in Ticks : tick'[j].pc # "ingesting"
  BY <1>2, <1>4, <1>5 DEF RuleInv, IngestsUnderLock, Ticks1
<1>16. IngestsUnderLock' /\ TogglesFresh'
  BY <1>1, <1>6, <1>13, <1>15, RuleConstants DEF RuleInv, IngestsUnderLock, TogglesFresh, toggleVars
<1> QED BY <1>7, <1>11, <1>12, <1>14, <1>16 DEF RuleInv

\* A tick whose sessions wait for their delta run creates it or drops them.
LEMMA DeltaStep ==
  ASSUME RuleInv, NEW k \in Ticks, NEW pc \in {"done", "failed"},
         tick[k].pc = "committed", TickMoves(k, pc),
         \/ /\ deltas' = [s \in NewSessions |-> deltas[s] + (IF s \in tick[k].append THEN 1 ELSE 0)]
            /\ UNCHANGED dropped
         \/ dropped' = dropped \union tick[k].append /\ UNCHANGED deltas,
         UNCHANGED <<rule, rowLock, dataset, toggleVars, ruleHistory, byHand>>
  PROVE  RuleInv'
<1>0. RuleTyped /\ tick[k].append \subseteq NewSessions BY DEF RuleInv, RuleTyped, TickRows
<1>1. Ticks1(k, [pc |-> pc, append |-> tick[k].append, failures |-> tick[k].failures])
  BY <1>0, TickMoved
<1>2. \A s \in tick[k].append :
        /\ Awaits(k, s) /\ s \in dataset \ (byHand \union dropped) /\ deltas[s] = 0
        /\ \A j \in Ticks \ {k} : ~Awaits(j, s)
  BY <1>0 DEF RuleInv, EvaluatedOnce, OneTickAppends, Awaits
<1>3. \A s \in NewSessions : ~Awaits(k, s)' BY <1>1 DEF Ticks1, Awaits
<1>4. \A j \in Ticks \ {k} : \A s \in NewSessions : Awaits(j, s)' <=> Awaits(j, s)
  BY <1>1 DEF Ticks1, Awaits
<1>5. deltas' \in [NewSessions -> Nat] BY <1>0 DEF RuleTyped
<1>6. RuleTyped' BY <1>0, <1>1, <1>5 DEF RuleTyped, Ticks1, toggleVars, ruleHistory
<1>7. OneTickAppends' BY <1>2, <1>3, <1>4 DEF RuleInv, OneTickAppends
<1>8. ASSUME NEW s \in NewSessions PROVE EvaluatedOnce(s)'
  <2>1. EvaluatedOnce(s) BY DEF RuleInv
  <2>2. CASE s \in tick[k].append
    <3>1. ~\E j \in Ticks : Awaits(j, s)' BY <1>2, <1>3, <1>4, <2>2
    <3> QED BY <1>2, <2>2, <3>1 DEF EvaluatedOnce
  <2>3. CASE s \notin tick[k].append
    <3>1. (\E j \in Ticks : Awaits(j, s)') <=> (\E j \in Ticks : Awaits(j, s))
      BY <1>3, <1>4, <2>3 DEF Awaits
    <3>2. deltas'[s] = deltas[s] /\ (s \in dropped' <=> s \in dropped) BY <1>0, <2>3 DEF RuleTyped
    <3> QED BY <2>1, <3>1, <3>2 DEF EvaluatedOnce
  <2> QED BY <2>2, <2>3
<1>9. CountsRecorded' /\ IngestsUnderLock' /\ TogglesFresh'
  BY <1>1 DEF RuleInv, CountsRecorded, IngestsUnderLock, TogglesFresh, Ticks1, ruleHistory,
              toggleVars
<1> QED BY <1>6, <1>7, <1>8, <1>9 DEF RuleInv

\* Nothing of what ticks append changes.
LEMMA SameAppended ==
  ASSUME RuleInv, UNCHANGED <<dataset, deltas, byHand, dropped>>,
         \A j \in Ticks, s \in NewSessions : Awaits(j, s)' <=> Awaits(j, s)
  PROVE  OneTickAppends' /\ \A s \in NewSessions : EvaluatedOnce(s)'
BY DEF RuleInv, OneTickAppends, EvaluatedOnce

\* A failure is counted, and may disable the rule.
LEMMA RecordFailureStep ==
  ASSUME RuleInv, NEW k \in Ticks, RecordFailure(k) PROVE RuleInv'
<1> DEFINE failures == tick[k].failures + 1
<1>0. RuleTyped BY DEF RuleInv
<1>1. /\ tick[k].pc = "counting" /\ rowLock = NoTick /\ TickMoves(k, "done")
      /\ rule' = [enabled |-> rule.enabled /\ ~Disables(failures), failures |-> failures]
      /\ recorded' = recorded + 1
      /\ disabledBy' = (IF Disables(failures) THEN "failures" ELSE disabledBy)
      /\ raced' = (raced \/ tick[k].failures # rule.failures)
      /\ UNCHANGED <<rowLock, dataset, deltas, toggleVars, byHand, dropped>>
  BY DEF RecordFailure
<1>2. failures \in Nat /\ rule.failures \in Nat /\ rule.enabled \in BOOLEAN
  BY <1>0 DEF RuleTyped, TickRows, Rules
<1>3. Ticks1(k, [pc |-> "done", append |-> tick[k].append, failures |-> tick[k].failures])
  BY <1>0, <1>1, TickMoved
<1>4. rule'.failures = failures /\ (rule'.enabled <=> rule.enabled /\ ~Disables(failures))
  BY <1>1
<1>5. rule' \in Rules
  <2>1. (rule.enabled /\ ~Disables(failures)) \in BOOLEAN BY <1>2
  <2> HIDE DEF failures
  <2> QED BY <1>1, <1>2, <2>1 DEF Rules
<1>6. raced' \in BOOLEAN BY <1>0, <1>1, Zenon DEF RuleTyped
<1>7. disabledBy' \in {"nobody", "user", "failures"} /\ recorded' \in Nat
  BY <1>0, <1>1 DEF RuleTyped
<1>8. RuleTyped' BY <1>0, <1>1, <1>3, <1>5, <1>6, <1>7 DEF RuleTyped, Ticks1, toggleVars
<1>9. \A j \in Ticks, s \in NewSessions : Awaits(j, s)' <=> Awaits(j, s)
  BY <1>1, <1>3 DEF Ticks1, Awaits
<1>10. ASSUME ~raced'
       PROVE  /\ rule'.failures = recorded'
              /\ disabledBy' = "failures" => recorded' >= Threshold
              /\ rule'.enabled => recorded' < Threshold
  <2>1. ~raced /\ tick[k].failures = rule.failures BY <1>1, <1>10
  <2>2. failures = recorded' BY <1>1, <2>1 DEF RuleInv, CountsRecorded
  <2>3. Disables(failures) <=> recorded' >= Threshold BY <2>2 DEF Disables
  <2>4. recorded \in Nat /\ Threshold \in Nat BY <1>0, RuleConstants DEF RuleTyped
  <2>5. disabledBy = "failures" => recorded' >= Threshold
    BY <1>1, <2>1, <2>4 DEF RuleInv, CountsRecorded
  <2>6. rule'.enabled => recorded' < Threshold BY <1>1, <1>4, <2>3, <2>4
  <2> QED BY <1>1, <1>4, <2>2, <2>3, <2>5, <2>6
<1>11. CountsRecorded' BY <1>10 DEF CountsRecorded
<1>12. IngestsUnderLock' /\ TogglesFresh'
  <2>1. rule'.enabled => disabledBy' = "nobody"
    BY <1>1, <1>4 DEF RuleInv, IngestsUnderLock
  <2>2. \A j \in Ticks : tick'[j].pc # "ingesting"
    BY <1>1, <1>3, RuleConstants DEF RuleInv, IngestsUnderLock, Ticks1
  <2> QED BY <1>1, <2>1, <2>2, RuleConstants DEF RuleInv, IngestsUnderLock, TogglesFresh, toggleVars
<1> QED BY <1>1, <1>8, <1>9, <1>11, <1>12, SameAppended DEF RuleInv

\* A user toggles the rule.
LEMMA SaveToggleStep ==
  ASSUME RuleInv, SaveToggle PROVE RuleInv'
<1>0. RuleTyped BY DEF RuleInv
<1>1. /\ rowLock = NoTick
      /\ rule' = [enabled |-> toggle.enable, failures |-> toggle.failures]
      /\ recorded' = (IF toggle.enable THEN 0 ELSE recorded)
      /\ disabledBy' = (IF toggle.enable THEN "nobody" ELSE "user")
      /\ raced' = (raced \/ (~toggle.enable /\ toggle.failures # rule.failures))
      /\ toggle' = [enable |-> FALSE, failures |-> NotRead]
      /\ UNCHANGED <<rowLock, dataset, tick, deltas, toggles, byHand, dropped>>
  BY DEF SaveToggle
<1>2. toggle.failures \in Nat /\ toggle.enable \in BOOLEAN BY <1>0 DEF SaveToggle, RuleTyped
<1>3. rule' \in Rules /\ rule'.failures = toggle.failures /\ rule'.enabled = toggle.enable
  BY <1>1, <1>2 DEF Rules
<1>4. raced' \in BOOLEAN BY <1>0, <1>1, <1>2, Zenon DEF RuleTyped
<1>5. recorded' \in Nat /\ disabledBy' \in {"nobody", "user", "failures"}
  BY <1>0, <1>1 DEF RuleTyped
<1>6. RuleTyped' BY <1>0, <1>1, <1>3, <1>4, <1>5 DEF RuleTyped
<1>7. \A j \in Ticks, s \in NewSessions : Awaits(j, s)' <=> Awaits(j, s)
  BY <1>1 DEF Awaits
<1>8. CountsRecorded'
  <2>1. CASE toggle.enable
    <3>1. toggle.failures = 0 BY <2>1 DEF RuleInv, TogglesFresh
    <3> QED BY <1>1, <1>3, <2>1, <3>1, RuleConstants DEF CountsRecorded
  <2>2. CASE ~toggle.enable
    BY <1>1, <1>3, <2>2 DEF RuleInv, CountsRecorded
  <2> QED BY <2>1, <2>2
<1>9. IngestsUnderLock' /\ TogglesFresh'
  BY <1>1, <1>3, RuleConstants DEF RuleInv, IngestsUnderLock, TogglesFresh
<1> QED BY <1>1, <1>6, <1>7, <1>8, <1>9, SameAppended DEF RuleInv

LEMMA RuleStep == RuleInv /\ [RuleNext]_ruleVars => RuleInv'
<1> SUFFICES ASSUME RuleInv, [RuleNext]_ruleVars PROVE RuleInv' OBVIOUS
<1>0. RuleTyped BY DEF RuleInv
<1>1. ASSUME NEW k \in Ticks, NEW pc \in {"listed", "failed", "done"}, TickMoves(k, pc),
             tick[k].pc # "committed",
             tick[k].pc = "ingesting" => rowLock' = NoTick,
             tick[k].pc # "ingesting" => UNCHANGED rowLock,
             UNCHANGED <<rule, dataset, deltas, toggleVars, ruleHistory, byHand, dropped>>
      PROVE  RuleInv'
  <2> DEFINE row == [pc |-> pc, append |-> tick[k].append, failures |-> tick[k].failures]
  <2>1. row \in TickRows /\ row.pc \notin {"ingesting", "committed"}
    BY <1>0 DEF RuleTyped, TickRows
  <2>2. Ticks1(k, row) BY <1>0, <1>1, TickMoved
  <2> HIDE DEF row
  <2> QED BY <1>1, <2>1, <2>2, QuietTick
<1>2. ASSUME NEW k \in Ticks, ListRule(k) PROVE RuleInv' BY <1>1, <1>2 DEF ListRule
<1>3. ASSUME NEW k \in Ticks, IngestFails(k) PROVE RuleInv' BY <1>1, <1>3 DEF IngestFails
<1>4. ASSUME NEW k \in Ticks, CreateDelta(k) PROVE RuleInv' BY <1>4, DeltaStep DEF CreateDelta
<1>5. ASSUME NEW k \in Ticks, DeltaFails(k) PROVE RuleInv' BY <1>5, DeltaStep DEF DeltaFails
<1>6. ASSUME NEW k \in Ticks, TickDies(k) PROVE RuleInv'
  <2>1. /\ TickMoves(k, "done") /\ rowLock' = (IF rowLock = k THEN NoTick ELSE rowLock)
        /\ dropped' = (IF tick[k].pc = "committed" THEN dropped \union tick[k].append ELSE dropped)
        /\ UNCHANGED <<rule, dataset, deltas, toggleVars, ruleHistory, byHand>>
    BY <1>6 DEF TickDies
  <2>2. CASE tick[k].pc = "committed" /\ rowLock # k BY <2>1, <2>2, DeltaStep
  <2>3. CASE tick[k].pc # "committed" /\ (tick[k].pc = "ingesting" \/ rowLock # k)
    <3>1. tick[k].pc = "ingesting" => rowLock = k BY DEF RuleInv, IngestsUnderLock
    <3> QED BY <1>1, <2>1, <2>3, <3>1
  <2>4. CASE tick[k].pc # "ingesting" /\ rowLock = k BY <2>4 DEF RuleInv, IngestsUnderLock
  <2> QED BY <2>2, <2>3, <2>4
<1>7. ASSUME NEW k \in Ticks, FetchRule(k) PROVE RuleInv'
  <2> DEFINE row == [pc |-> "counting", append |-> tick[k].append, failures |-> rule.failures]
  <2>1. row \in TickRows /\ row.pc = "counting" BY <1>0 DEF RuleTyped, TickRows, Rules
  <2>2. Ticks1(k, row)
    BY <1>0, <1>7 DEF FetchRule, RuleTyped, Ticks1, TickRows, Rules
  <2> HIDE DEF row
  <2> QED BY <1>7, <2>1, <2>2, QuietTick DEF FetchRule
<1>8. ASSUME NEW s \in NewSessions, AddByHand(s) PROVE RuleInv'
  <2>1. /\ s \notin dataset /\ dataset' = dataset \union {s} /\ byHand' = byHand \union {s}
        /\ UNCHANGED <<rule, rowLock, tick, deltas, toggleVars, ruleHistory, dropped>>
    BY <1>8 DEF AddByHand
  <2>2. RuleTyped' BY <1>0, <2>1 DEF RuleTyped, toggleVars, ruleHistory
  <2>3. \A j \in Ticks, q \in NewSessions : Awaits(j, q)' <=> Awaits(j, q) BY <2>1 DEF Awaits
  <2>4. OneTickAppends' BY <2>1, <2>3 DEF RuleInv, OneTickAppends
  <2>5. ASSUME NEW q \in NewSessions PROVE EvaluatedOnce(q)'
    <3>1. EvaluatedOnce(q) BY DEF RuleInv
    <3> QED BY <2>1, <2>3, <3>1 DEF EvaluatedOnce
  <2>6. CountsRecorded' /\ IngestsUnderLock' /\ TogglesFresh'
    BY <2>1 DEF RuleInv, CountsRecorded, IngestsUnderLock, TogglesFresh, ruleHistory, toggleVars
  <2> QED BY <2>2, <2>4, <2>5, <2>6 DEF RuleInv
<1>9. CASE ReadToggle
  <2>1. /\ toggle' = [enable |-> ~rule.enabled,
                      failures |-> IF rule.enabled THEN rule.failures ELSE 0]
        /\ UNCHANGED <<rule, rowLock, dataset, tick, deltas, ruleHistory, byHand, dropped>>
    BY <1>9 DEF ReadToggle
  <2>2. /\ toggle' \in [enable : BOOLEAN, failures : Nat \union {NotRead}]
        /\ toggle'.enable => toggle'.failures = 0
    BY <1>0, <2>1 DEF RuleTyped, Rules
  <2>3. RuleTyped' BY <1>0, <2>1, <2>2 DEF RuleTyped, ruleHistory
  <2>4. \A j \in Ticks, s \in NewSessions : Awaits(j, s)' <=> Awaits(j, s) BY <2>1 DEF Awaits
  <2>5. CountsRecorded' /\ IngestsUnderLock' /\ TogglesFresh'
    BY <2>1, <2>2 DEF RuleInv, CountsRecorded, IngestsUnderLock, TogglesFresh, ruleHistory
  <2> QED BY <2>1, <2>3, <2>4, <2>5, SameAppended DEF RuleInv
<1>10. CASE UNCHANGED ruleVars
  <2>1. \A j \in Ticks, s \in NewSessions : Awaits(j, s)' <=> Awaits(j, s)
    BY <1>10 DEF Awaits, ruleVars
  <2>2. RuleTyped' /\ CountsRecorded' /\ IngestsUnderLock' /\ TogglesFresh'
    BY <1>10 DEF RuleInv, RuleTyped, CountsRecorded, IngestsUnderLock, TogglesFresh, ruleVars,
                 ruleHistory, toggleVars
  <2> QED BY <1>10, <2>1, <2>2, SameAppended DEF RuleInv, ruleVars
<1> QED BY <1>2, <1>3, <1>4, <1>5, <1>6, <1>7, <1>8, <1>9, <1>10, LockRuleStep, IngestStep,
           RecordFailureStep, SaveToggleStep DEF RuleNext

\* For any number of ticks, sessions and users, what a rule appends is evaluated once,
\* and the rule is disabled by the failures it had in a row.
THEOREM RuleCounts == RuleSpec => []RuleKeepsCount
BY RuleInitInv, RuleStep, RuleInvImplies, PTL DEF RuleSpec

-----------------------------------------------------------------------------
(* Tags.                                                                   *)

RunRows ==
  [pc : {"idle", "running", "completed", "sweeping", "done", "deleted"},
   scope : SUBSET Targets, todo : SUBSET Targets,
   applied : SUBSET TagPairs, stale : SUBSET TagPairs]

TagsTyped ==
  /\ link \in [TagPairs -> {"none", "evaluation", "user"}]
  /\ managed \subseteq RuleTags /\ collected \subseteq Targets
  /\ tagRun \in [TagRuns -> RunRows]
  /\ clearing \subseteq TagRuns
  /\ mixed \subseteq TagRuns \X Targets

IsActive(r) == tagRun[r].pc \in {"running", "completed", "sweeping"}
IsKept(r) == tagRun[r].pc \notin {"idle", "deleted"}

\* A run has recorded nothing before it starts and after it was deleted, and what it
\* evaluates stays in the dataset.
RunsRecord ==
  \A r \in TagRuns :
    /\ ~IsKept(r) => tagRun[r].applied = {}
    /\ tagRun[r].todo \subseteq tagRun[r].scope
    /\ tagRun[r].scope \subseteq collected

\* A run that may still change links of a target is known to the others.
ActiveAreMixed ==
  \A r, q \in TagRuns : \A t \in Targets :
    r # q /\ IsKept(r) /\ IsActive(q) /\ t \in Reach(q, tagRun[q].scope) => <<r, t>> \in mixed

\* A sweep reaches no further than its run, and spares what the run has applied.
SweepsInReach ==
  \A r \in TagRuns : tagRun[r].pc = "sweeping" =>
    /\ tagRun[r].stale \intersect tagRun[r].applied = {}
    /\ \A p \in tagRun[r].stale : p[1] \in Reach(r, tagRun[r].scope)

\* A target of a run that nobody else has touched: its tags are there, and once the
\* stale ones are known, each tag of a rule is one or the other.
TargetIsRight(r, t) ==
  /\ IsKept(r) => \A tag \in RuleTags :
       <<t, tag>> \in tagRun[r].applied => link[<<t, tag>>] # "none"
  /\ tagRun[r].pc = "sweeping" => \A tag \in managed :
       <<t, tag>> \in tagRun[r].applied \/ <<t, tag>> \in tagRun[r].stale
  /\ tagRun[r].pc = "done" => \A tag \in managed :
       link[<<t, tag>>] # "none" => <<t, tag>> \in tagRun[r].applied

TargetsAreRight ==
  \A r \in TagRuns : \A t \in tagRun[r].scope : <<r, t>> \notin mixed => TargetIsRight(r, t)

TagsInv ==
  /\ TagsTyped /\ RunsRecord /\ ActiveAreMixed /\ SweepsInReach /\ TargetsAreRight
  /\ LinksAreRecorded

LEMMA TagsInvImplies == TagsInv => TagsAreRight
<1> SUFFICES ASSUME TagsInv PROVE TagsAreRight OBVIOUS
<1>1. TagsAsEvaluated
  <2> SUFFICES ASSUME NEW r \in TagRuns, tagRun[r].pc = "done", NEW t \in tagRun[r].scope,
                      NEW tag \in managed, <<r, t>> \notin mixed
               PROVE  link[<<t, tag>>] # "none" <=> <<t, tag>> \in tagRun[r].applied
    BY DEF TagsAsEvaluated
  <2>1. TargetIsRight(r, t) /\ tag \in RuleTags
    BY DEF TagsInv, TagsTyped, TargetsAreRight
  <2> QED BY <2>1 DEF TargetIsRight, IsKept
<1> QED BY <1>1 DEF TagsAreRight, TagsInv

LEMMA TagsInitInv == TagsInit => TagsInv
<1> SUFFICES ASSUME NEW messages \in SUBSET Targets, TagsStart(messages) PROVE TagsInv
  BY DEF TagsInit
<1>1. /\ \A p \in TagPairs : link[p] = "none"
      /\ \A r \in TagRuns : /\ tagRun[r].pc = "idle" /\ tagRun[r].scope = {} /\ tagRun[r].todo = {}
                            /\ tagRun[r].applied = {} /\ tagRun[r].stale = {}
  BY DEF TagsStart, NoRun
<1>2. NoRun \in RunRows BY DEF NoRun, RunRows
<1>3. TagsTyped BY <1>2 DEF TagsStart, TagsTyped
<1> QED BY <1>1, <1>3 DEF TagsInv, RunsRecord, IsKept, IsActive, ActiveAreMixed, SweepsInReach,
                          TargetsAreRight, LinksAreRecorded

\* One run changes.
RunBecomes(r, row) ==
  /\ tagRun' \in [TagRuns -> RunRows] /\ tagRun'[r] = row
  /\ \A q \in TagRuns \ {r} : tagRun'[q] = tagRun[q]

\* More pairs are mixed, the dataset grows; a run that is no longer mixed with nobody
\* keeps its tags and its links.
LEMMA OthersStayRight ==
  ASSUME TagsInv, NEW q \in TagRuns, NEW t \in tagRun[q].scope, <<q, t>> \notin mixed',
         mixed \subseteq mixed', tagRun'[q] = tagRun[q], managed' = managed,
         \A tag \in RuleTags : link'[<<t, tag>>] = link[<<t, tag>>]
  PROVE  TargetIsRight(q, t)'
<1>1. TargetIsRight(q, t) BY DEF TagsInv, TargetsAreRight
<1>2. managed \subseteq RuleTags BY DEF TagsInv, TagsTyped
<1> QED BY <1>1, <1>2 DEF TargetIsRight, IsKept

\* A run starts with the dataset, or a part of it.
LEMMA StartTagRunStep ==
  ASSUME TagsInv, NEW r \in TagRuns, StartTagRun(r) PROVE TagsInv'
<1>0. TagsTyped BY DEF TagsInv
<1>1. tagRun[r].pc = "idle" /\ UNCHANGED <<link, managed, collected, clearing, edits>>
  BY DEF StartTagRun
<1>2. PICK scope \in SUBSET collected :
        /\ tagRun' = [tagRun EXCEPT ![r] = [pc |-> "running", scope |-> scope, todo |-> scope,
                                            applied |-> {}, stale |-> {}]]
        /\ mixed' = mixed \union (Kept \X Reach(r, scope))
                          \union ({r} \X UNION {Reach(q, tagRun[q].scope) : q \in Active})
  BY DEF StartTagRun
<1> DEFINE row == [pc |-> "running", scope |-> scope, todo |-> scope, applied |-> {}, stale |-> {}]
<1>3. tagRun' = [tagRun EXCEPT ![r] = row] BY <1>2
<1>4. scope \subseteq Targets BY <1>0 DEF TagsTyped
<1>5. row \in RunRows BY <1>4 DEF RunRows
<1>6. /\ row.pc = "running" /\ row.scope = scope /\ row.todo = scope
      /\ row.applied = {} /\ row.stale = {}
  OBVIOUS
<1> HIDE DEF row
<1>7. RunBecomes(r, row) BY <1>0, <1>2, <1>3, <1>5 DEF TagsTyped, RunBecomes
<1>8. \A q \in TagRuns : Reach(q, tagRun[q].scope) \subseteq Targets
  BY <1>0 DEF Reach, TagsTyped, RunRows
<1>9. Reach(r, scope) \subseteq Targets BY <1>4 DEF Reach
<1>10. mixed' \subseteq TagRuns \X Targets /\ mixed \subseteq mixed'
  BY <1>0, <1>2, <1>8, <1>9 DEF TagsTyped, Kept, Active
<1>11. TagsTyped' BY <1>0, <1>1, <1>7, <1>10 DEF TagsTyped, RunBecomes
<1>12. RunsRecord' BY <1>1, <1>6, <1>7 DEF TagsInv, RunsRecord, RunBecomes, IsKept
<1>13. ActiveAreMixed'
  <2> SUFFICES ASSUME NEW p \in TagRuns, NEW q \in TagRuns, NEW t \in Targets, p # q,
                      IsKept(p)', IsActive(q)', t \in Reach(q, tagRun'[q].scope)
               PROVE  <<p, t>> \in mixed'
    BY DEF ActiveAreMixed, Reach
  <2>1. CASE p # r /\ q # r
    BY <1>7, <1>10, <2>1 DEF TagsInv, ActiveAreMixed, RunBecomes, IsKept, IsActive
  <2>2. CASE q = r
    <3>1. p \in Kept /\ t \in Reach(r, scope)
      BY <1>6, <1>7, <2>2 DEF Kept, RunBecomes, IsKept
    <3> QED BY <1>2, <3>1
  <2>3. CASE p = r
    <3>1. q \in Active /\ t \in Reach(q, tagRun[q].scope)
      BY <1>7, <2>3 DEF Active, RunBecomes, IsActive
    <3> QED BY <1>2, <2>3, <3>1
  <2> QED BY <2>1, <2>2, <2>3
<1>14. SweepsInReach' BY <1>6, <1>7 DEF TagsInv, SweepsInReach, RunBecomes, Reach
<1>15. ASSUME NEW q \in TagRuns, NEW t \in tagRun'[q].scope, <<q, t>> \notin mixed'
       PROVE  TargetIsRight(q, t)'
  <2>1. CASE q = r BY <1>6, <1>7, <2>1 DEF TargetIsRight, RunBecomes
  <2>2. CASE q # r BY <1>1, <1>7, <1>10, <1>15, <2>2, OthersStayRight DEF RunBecomes
  <2> QED BY <2>1, <2>2
<1>16. LinksAreRecorded'
  <2>1. tagRun[r].applied = {} BY <1>1 DEF TagsInv, RunsRecord, IsKept
  <2> QED BY <1>1, <1>7, <2>1 DEF TagsInv, LinksAreRecorded, RunBecomes
<1> QED BY <1>11, <1>12, <1>13, <1>14, <1>15, <1>16 DEF TagsInv, TargetsAreRight

\* A result applies its tags.
LEMMA ApplyRulesStep ==
  ASSUME TagsInv, NEW r \in TagRuns, NEW t \in Targets, NEW matched \in SUBSET managed,
         ApplyRules(r, t, matched)
  PROVE  TagsInv'
<1> DEFINE pairs == {t} \X matched
<1> DEFINE todo == tagRun[r].todo \ {t}
<1> DEFINE applied == tagRun[r].applied \union pairs
<1> DEFINE row == [pc |-> tagRun[r].pc, scope |-> tagRun[r].scope, todo |-> todo,
                   applied |-> applied, stale |-> tagRun[r].stale]
<1>0. TagsTyped BY DEF TagsInv
<1>1. /\ tagRun[r].pc = "running" /\ t \in tagRun[r].todo
      /\ link' = [p \in TagPairs |-> IF p \in pairs /\ link[p] = "none" THEN "evaluation" ELSE link[p]]
      /\ tagRun' = [tagRun EXCEPT ![r].todo = todo, ![r].applied = applied]
      /\ UNCHANGED <<managed, collected, clearing, edits, mixed>>
  BY DEF ApplyRules
<1>2. pairs \subseteq TagPairs BY <1>0 DEF TagsTyped, TagPairs
<1>3. todo \subseteq tagRun[r].todo /\ todo \subseteq Targets /\ applied \subseteq TagPairs
  BY <1>0, <1>2 DEF TagsTyped, RunRows
<1>4. tagRun[r].applied \subseteq applied /\ pairs \subseteq applied
      /\ \A p \in applied : p \in tagRun[r].applied \/ p \in pairs
  OBVIOUS
<1>5. \A p \in pairs : p[1] = t OBVIOUS
<1> HIDE DEF pairs, todo, applied
<1>6. RunBecomes(r, row) BY <1>0, <1>1, <1>3 DEF TagsTyped, RunBecomes, RunRows
<1>7. \A p \in TagPairs : /\ link[p] # "none" => link'[p] = link[p]
                          /\ p \in pairs => link'[p] # "none"
                          /\ p \notin pairs => link'[p] = link[p]
                          /\ link'[p] \in {"none", "evaluation", "user"}
  BY <1>0, <1>1 DEF TagsTyped
<1>8. TagsTyped' BY <1>0, <1>1, <1>6, <1>7 DEF TagsTyped, RunBecomes
<1>9. RunsRecord' BY <1>1, <1>3, <1>6 DEF TagsInv, RunsRecord, RunBecomes, IsKept
<1>10. ActiveAreMixed'
  <2>1. \A q \in TagRuns : tagRun'[q].pc = tagRun[q].pc /\ tagRun'[q].scope = tagRun[q].scope
    BY <1>6 DEF RunBecomes
  <2> QED BY <1>1, <2>1 DEF TagsInv, ActiveAreMixed, IsKept, IsActive, Reach
<1>11. SweepsInReach' BY <1>1, <1>6 DEF TagsInv, SweepsInReach, RunBecomes, Reach
<1>12. ASSUME NEW q \in TagRuns, NEW u \in tagRun'[q].scope, <<q, u>> \notin mixed'
       PROVE  TargetIsRight(q, u)'
  <2>1. u \in tagRun[q].scope /\ u \in Targets /\ <<q, u>> \notin mixed
    BY <1>0, <1>1, <1>6, <1>12 DEF RunBecomes, TagsTyped, RunRows
  <2>2. \A tag \in RuleTags : <<u, tag>> \in TagPairs BY <2>1 DEF TagPairs
  <2>3. CASE q = r
    <3>1. TargetIsRight(r, u) BY <2>1, <2>3 DEF TagsInv, TargetsAreRight
    <3>2. tagRun'[r].pc = "running" /\ tagRun'[r].applied = applied
      BY <1>1, <1>6 DEF RunBecomes
    <3>3. ASSUME NEW tag \in RuleTags, <<u, tag>> \in applied PROVE link'[<<u, tag>>] # "none"
      <4>1. <<u, tag>> \in TagPairs BY <2>2
      <4>2. CASE <<u, tag>> \in pairs BY <1>7, <4>1, <4>2
      <4>3. CASE <<u, tag>> \in tagRun[r].applied
        <5>1. link[<<u, tag>>] # "none" BY <1>1, <3>1, <4>3 DEF TargetIsRight, IsKept
        <5> QED BY <1>7, <4>1, <5>1
      <4> QED BY <1>4, <3>3, <4>2, <4>3
    <3> QED BY <2>3, <3>2, <3>3 DEF TargetIsRight
  <2>4. CASE q # r
    <3>1. tagRun'[q] = tagRun[q] BY <1>6, <2>4 DEF RunBecomes
    <3>2. CASE IsKept(q)
      <4>1. u # t
        <5>1. t \in Reach(r, tagRun[r].scope) /\ IsActive(r)
          BY <1>1 DEF TagsInv, RunsRecord, Reach, IsActive
        <5>2. <<q, t>> \in mixed BY <2>4, <3>2, <5>1 DEF TagsInv, ActiveAreMixed
        <5> QED BY <2>1, <5>2
      <4>2. \A tag \in RuleTags : link'[<<u, tag>>] = link[<<u, tag>>]
        BY <1>5, <1>7, <2>2, <4>1
      <4> QED BY <1>1, <2>1, <3>1, <4>2, <1>12, OthersStayRight
    <3>3. CASE ~IsKept(q) BY <3>1, <3>3 DEF TargetIsRight, IsKept
    <3> QED BY <3>2, <3>3
  <2> QED BY <2>3, <2>4
<1>13. LinksAreRecorded'
  <2> SUFFICES ASSUME NEW p \in TagPairs, link'[p] = "evaluation"
               PROVE  \E q \in TagRuns : p \in tagRun'[q].applied
    BY DEF LinksAreRecorded
  <2>1. tagRun'[r].applied = applied BY <1>6 DEF RunBecomes
  <2>2. CASE p \in pairs BY <1>4, <2>1, <2>2
  <2>3. CASE p \notin pairs
    <3>1. PICK q \in TagRuns : p \in tagRun[q].applied
      BY <1>7, <2>3 DEF TagsInv, LinksAreRecorded
    <3> QED BY <1>4, <1>6, <2>1, <3>1 DEF RunBecomes
  <2> QED BY <2>2, <2>3
<1> QED BY <1>8, <1>9, <1>10, <1>11, <1>12, <1>13 DEF TagsInv, TargetsAreRight

\* A run goes on, and changes neither links nor what it has applied; when it has no
\* more to do with a target that is not mixed, its stale links are removed.
LEMMA QuietRunStep ==
  ASSUME TagsInv, NEW r \in TagRuns, NEW row \in RunRows, RunBecomes(r, row),
         IsKept(r), row.pc \in {"running", "completed", "done"},
         row.pc # "done" => IsActive(r),
         row.pc = "done" => {r} \X Targets \subseteq mixed',
         row.scope = tagRun[r].scope, row.todo = tagRun[r].todo,
         row.applied = tagRun[r].applied,
         mixed \subseteq mixed', mixed' \subseteq TagRuns \X Targets,
         UNCHANGED <<link, managed, collected, clearing>>
  PROVE  TagsInv'
<1>0. TagsTyped BY DEF TagsInv
<1>1. TagsTyped' BY <1>0 DEF TagsTyped, RunBecomes
<1>2. RunsRecord' BY DEF TagsInv, RunsRecord, RunBecomes, IsKept
<1>3. ActiveAreMixed'
  <2>1. \A q \in TagRuns : /\ tagRun'[q].scope = tagRun[q].scope
                           /\ IsKept(q)' => IsKept(q)
                           /\ IsActive(q)' => IsActive(q)
    BY DEF RunBecomes, IsKept, IsActive
  <2> QED BY <2>1 DEF TagsInv, ActiveAreMixed, Reach
<1>4. SweepsInReach' BY DEF TagsInv, SweepsInReach, RunBecomes, Reach
<1>5. ASSUME NEW q \in TagRuns, NEW u \in tagRun'[q].scope, <<q, u>> \notin mixed'
      PROVE  TargetIsRight(q, u)'
  <2>1. tagRun'[q].scope = tagRun[q].scope BY DEF RunBecomes
  <2>2. CASE q # r BY <1>5, <2>1, <2>2, OthersStayRight DEF RunBecomes
  <2>3. CASE q = r
    <3>1. TargetIsRight(r, u) BY <1>5, <2>1, <2>3 DEF TagsInv, TargetsAreRight
    <3>2. u \in Targets BY <1>0, <1>5, <2>1 DEF TagsTyped, RunRows
    <3>3. row.pc # "done" BY <1>5, <2>3, <3>2
    <3> QED BY <2>3, <3>1, <3>3 DEF TargetIsRight, RunBecomes
  <2> QED BY <2>2, <2>3
<1>6. LinksAreRecorded'
  <2>1. \A q \in TagRuns : tagRun'[q].applied = tagRun[q].applied BY DEF RunBecomes
  <2> QED BY <2>1 DEF TagsInv, LinksAreRecorded
<1> QED BY <1>1, <1>2, <1>3, <1>4, <1>5, <1>6 DEF TagsInv, TargetsAreRight

\* The run has ended, and looks for what it has not applied.
LEMMA ComputeStaleStep ==
  ASSUME TagsInv, NEW r \in TagRuns, ComputeStale(r) PROVE TagsInv'
<1> DEFINE stale == (Swept(r) \X managed) \ tagRun[r].applied
<1> DEFINE row == [pc |-> "sweeping", scope |-> tagRun[r].scope, todo |-> tagRun[r].todo,
                   applied |-> tagRun[r].applied, stale |-> stale]
<1>0. TagsTyped BY DEF TagsInv
<1>1. /\ tagRun[r].pc = "completed"
      /\ tagRun' = [tagRun EXCEPT ![r].pc = "sweeping", ![r].stale = stale]
      /\ UNCHANGED <<link, managed, collected, clearing, edits, mixed>>
  BY DEF ComputeStale, PossibleTags
<1>2. Swept(r) \subseteq Targets BY <1>0 DEF TagsTyped, Swept
<1>3. stale \subseteq TagPairs BY <1>0, <1>2 DEF TagsTyped, TagPairs
<1>4. tagRun[r].scope \subseteq Swept(r) BY DEF TagsInv, RunsRecord, Swept
<1>5. Swept(r) \subseteq Reach(r, tagRun[r].scope)
  BY <1>0 DEF Swept, Reach, TagsTyped
<1>6. \A p \in stale : p[1] \in Reach(r, tagRun[r].scope) BY <1>5
<1>7. stale \intersect tagRun[r].applied = {} OBVIOUS
<1>8. \A t \in tagRun[r].scope, tag \in managed :
        <<t, tag>> \in tagRun[r].applied \/ <<t, tag>> \in stale
  BY <1>4
<1> HIDE DEF stale
<1>9. RunBecomes(r, row) BY <1>0, <1>1, <1>3 DEF TagsTyped, RunBecomes, RunRows
<1>10. /\ row.pc = "sweeping" /\ row.scope = tagRun[r].scope /\ row.todo = tagRun[r].todo
       /\ row.applied = tagRun[r].applied /\ row.stale = stale
  OBVIOUS
<1> HIDE DEF row
<1>11. TagsTyped' BY <1>0, <1>1, <1>9 DEF TagsTyped, RunBecomes
<1>12. RunsRecord' BY <1>1, <1>9, <1>10 DEF TagsInv, RunsRecord, RunBecomes, IsKept
<1>13. ActiveAreMixed'
  <2>1. \A q \in TagRuns : /\ tagRun'[q].scope = tagRun[q].scope
                           /\ IsKept(q)' => IsKept(q)
                           /\ IsActive(q)' => IsActive(q)
    BY <1>1, <1>9, <1>10 DEF RunBecomes, IsKept, IsActive
  <2> QED BY <1>1, <2>1 DEF TagsInv, ActiveAreMixed, Reach
<1>14. SweepsInReach'
  BY <1>6, <1>7, <1>9, <1>10 DEF TagsInv, SweepsInReach, RunBecomes, Reach
<1>15. ASSUME NEW q \in TagRuns, NEW u \in tagRun'[q].scope, <<q, u>> \notin mixed'
       PROVE  TargetIsRight(q, u)'
  <2>1. tagRun'[q].scope = tagRun[q].scope BY <1>9, <1>10 DEF RunBecomes
  <2>2. CASE q # r BY <1>1, <1>9, <1>15, <2>1, <2>2, OthersStayRight DEF RunBecomes
  <2>3. CASE q = r
    <3>1. TargetIsRight(r, u) BY <1>1, <1>15, <2>1, <2>3 DEF TagsInv, TargetsAreRight
    <3>2. u \in tagRun[r].scope BY <1>15, <2>1, <2>3
    <3>3. tagRun'[r] = row /\ IsKept(r) BY <1>1, <1>9 DEF RunBecomes, IsKept
    <3> QED BY <1>1, <1>8, <1>10, <2>3, <3>1, <3>2, <3>3 DEF TargetIsRight
  <2> QED BY <2>2, <2>3
<1>16. LinksAreRecorded'
  <2>1. \A q \in TagRuns : tagRun'[q].applied = tagRun[q].applied
    BY <1>9, <1>10 DEF RunBecomes
  <2> QED BY <1>1, <2>1 DEF TagsInv, LinksAreRecorded
<1> QED BY <1>11, <1>12, <1>13, <1>14, <1>15, <1>16 DEF TagsInv, TargetsAreRight

\* The stale links are removed.
LEMMA RemoveStaleStep ==
  ASSUME TagsInv, NEW r \in TagRuns, RemoveStale(r) PROVE TagsInv'
<1> DEFINE row == [pc |-> "done", scope |-> tagRun[r].scope, todo |-> tagRun[r].todo,
                   applied |-> tagRun[r].applied, stale |-> {}]
<1>0. TagsTyped BY DEF TagsInv
<1>1. /\ tagRun[r].pc = "sweeping"
      /\ link' = [p \in TagPairs |-> IF p \in tagRun[r].stale THEN "none" ELSE link[p]]
      /\ tagRun' = [tagRun EXCEPT ![r].pc = "done", ![r].stale = {}]
      /\ UNCHANGED <<managed, collected, clearing, edits, mixed>>
  BY DEF RemoveStale
<1>2. RunBecomes(r, row) BY <1>0, <1>1 DEF TagsTyped, RunBecomes, RunRows
<1>3. /\ row.pc = "done" /\ row.scope = tagRun[r].scope /\ row.todo = tagRun[r].todo
      /\ row.applied = tagRun[r].applied
  OBVIOUS
<1> HIDE DEF row
<1>4. \A p \in TagPairs :
        link'[p] = (IF p \in tagRun[r].stale THEN "none" ELSE link[p])
  BY <1>1
<1>5. TagsTyped' BY <1>0, <1>1, <1>2 DEF TagsTyped, RunBecomes
<1>6. RunsRecord' BY <1>1, <1>2, <1>3 DEF TagsInv, RunsRecord, RunBecomes, IsKept
<1>7. ActiveAreMixed'
  <2>1. \A q \in TagRuns : /\ tagRun'[q].scope = tagRun[q].scope
                           /\ IsKept(q)' => IsKept(q)
                           /\ IsActive(q)' => IsActive(q)
    BY <1>1, <1>2, <1>3 DEF RunBecomes, IsKept, IsActive
  <2> QED BY <1>1, <2>1 DEF TagsInv, ActiveAreMixed, Reach
<1>8. SweepsInReach' BY <1>2, <1>3 DEF TagsInv, SweepsInReach, RunBecomes, Reach
<1>9. ASSUME NEW q \in TagRuns, NEW u \in tagRun'[q].scope, <<q, u>> \notin mixed'
      PROVE  TargetIsRight(q, u)'
  <2>1. tagRun'[q].scope = tagRun[q].scope BY <1>2, <1>3 DEF RunBecomes
  <2>2. u \in Targets /\ \A tag \in RuleTags : <<u, tag>> \in TagPairs
    BY <1>0, <1>9, <2>1 DEF TagsTyped, RunRows, TagPairs
  <2>3. TargetIsRight(q, u) BY <1>1, <1>9, <2>1 DEF TagsInv, TargetsAreRight
  <2>4. CASE q # r
    <3>1. tagRun'[q] = tagRun[q] BY <1>2, <2>4 DEF RunBecomes
    <3>2. CASE IsKept(q)
      <4>1. u \notin Reach(r, tagRun[r].scope)
        BY <1>1, <1>9, <2>2, <2>4, <3>2 DEF TagsInv, ActiveAreMixed, IsActive
      <4>2. \A tag \in RuleTags : <<u, tag>> \notin tagRun[r].stale
        BY <1>1, <4>1 DEF TagsInv, SweepsInReach
      <4>3. \A tag \in RuleTags : link'[<<u, tag>>] = link[<<u, tag>>]
        BY <1>4, <2>2, <4>2
      <4> QED BY <1>1, <1>9, <2>1, <3>1, <4>3, OthersStayRight
    <3>3. CASE ~IsKept(q) BY <3>1, <3>3 DEF TargetIsRight, IsKept
    <3> QED BY <3>2, <3>3
  <2>5. CASE q = r
    <3>1. tagRun'[r].pc = "done" /\ tagRun'[r].applied = tagRun[r].applied /\ IsKept(r)
      BY <1>1, <1>2, <1>3 DEF RunBecomes, IsKept
    <3>2. ASSUME NEW tag \in RuleTags, <<u, tag>> \in tagRun[r].applied
          PROVE  link'[<<u, tag>>] # "none"
      <4>1. <<u, tag>> \notin tagRun[r].stale
        BY <1>1, <3>2 DEF TagsInv, SweepsInReach
      <4> QED BY <1>4, <2>2, <2>3, <2>5, <3>1, <3>2, <4>1 DEF TargetIsRight
    <3>3. ASSUME NEW tag \in managed, link'[<<u, tag>>] # "none"
          PROVE  <<u, tag>> \in tagRun[r].applied
      <4>1. tag \in RuleTags BY <1>0 DEF TagsTyped
      <4> QED BY <1>1, <1>4, <2>2, <2>3, <2>5, <3>3, <4>1 DEF TargetIsRight
    <3> QED BY <1>1, <2>5, <3>1, <3>2, <3>3 DEF TargetIsRight
  <2> QED BY <2>4, <2>5
<1>10. LinksAreRecorded'
  <2>1. \A q \in TagRuns : tagRun'[q].applied = tagRun[q].applied
    BY <1>2, <1>3 DEF RunBecomes
  <2> QED BY <1>4, <2>1 DEF TagsInv, LinksAreRecorded
<1> QED BY <1>5, <1>6, <1>7, <1>8, <1>9, <1>10 DEF TagsInv, TargetsAreRight

\* The runs that were there are deleted, with the links they have recorded.
LEMMA ClearRunsStep ==
  ASSUME TagsInv, ClearRuns PROVE TagsInv'
<1>0. TagsTyped BY DEF TagsInv
<1>1. /\ link' = [p \in TagPairs |->
                    IF p \in AppliedByCleared /\ link[p] = "evaluation" THEN "none" ELSE link[p]]
      /\ clearing' = {} /\ mixed' = mixed \union (Kept \X Targets)
      /\ UNCHANGED <<managed, collected, edits>>
  BY DEF ClearRuns
<1> DEFINE gone == [NoRun EXCEPT !.pc = "deleted"]
<1>2. tagRun' = [r \in TagRuns |-> IF r \in clearing THEN gone ELSE tagRun[r]]
  BY DEF ClearRuns
<1>3. /\ gone \in RunRows /\ gone.pc = "deleted" /\ gone.scope = {} /\ gone.todo = {}
      /\ gone.applied = {} /\ gone.stale = {}
  BY DEF NoRun, RunRows
<1> HIDE DEF gone
<1>4. /\ tagRun' \in [TagRuns -> RunRows]
      /\ \A r \in TagRuns : tagRun'[r] = (IF r \in clearing THEN gone ELSE tagRun[r])
  BY <1>0, <1>2, <1>3 DEF TagsTyped
<1>5. mixed \subseteq mixed' /\ mixed' \subseteq TagRuns \X Targets
  BY <1>0, <1>1 DEF TagsTyped, Kept
<1>6. \A p \in TagPairs : link'[p] =
        (IF p \in AppliedByCleared /\ link[p] = "evaluation" THEN "none" ELSE link[p])
  BY <1>1
<1>7. TagsTyped' BY <1>0, <1>1, <1>4, <1>5 DEF TagsTyped
<1>8. RunsRecord' BY <1>1, <1>3, <1>4 DEF TagsInv, RunsRecord, IsKept
<1>9. \A r \in TagRuns : IsKept(r)' => IsKept(r) /\ r \notin clearing
  BY <1>3, <1>4 DEF IsKept
<1>10. \A r \in TagRuns : IsActive(r)' => IsActive(r) /\ r \notin clearing
  BY <1>3, <1>4 DEF IsActive
<1>11. ActiveAreMixed'
  BY <1>4, <1>5, <1>9, <1>10 DEF TagsInv, ActiveAreMixed, Reach
<1>12. SweepsInReach' BY <1>3, <1>4 DEF TagsInv, SweepsInReach, Reach
<1>13. ASSUME NEW q \in TagRuns, NEW u \in tagRun'[q].scope, <<q, u>> \notin mixed'
       PROVE  TargetIsRight(q, u)'
  <2>1. u \in Targets BY <1>4 DEF RunRows
  <2>2. ~IsKept(q) BY <1>1, <1>13, <2>1 DEF Kept, IsKept
  <2>3. ~IsKept(q)' BY <1>9, <2>2
  <2> QED BY <2>3 DEF TargetIsRight, IsKept
<1>14. LinksAreRecorded'
  <2> SUFFICES ASSUME NEW p \in TagPairs, link'[p] = "evaluation"
               PROVE  \E q \in TagRuns : p \in tagRun'[q].applied
    BY DEF LinksAreRecorded
  <2>1. link[p] = "evaluation" /\ p \notin AppliedByCleared BY <1>6
  <2>2. PICK q \in TagRuns : p \in tagRun[q].applied BY <2>1 DEF TagsInv, LinksAreRecorded
  <2>3. q \notin clearing BY <2>1, <2>2 DEF AppliedByCleared
  <2> QED BY <1>4, <2>2, <2>3
<1> QED BY <1>7, <1>8, <1>11, <1>12, <1>13, <1>14 DEF TagsInv, TargetsAreRight

\* Users change rules, the dataset and links; runs do not move.
LEMMA UsersStep ==
  ASSUME TagsInv, TagsTyped', UNCHANGED tagRun, collected \subseteq collected',
         mixed \subseteq mixed', LinksAreRecorded',
         \A r \in TagRuns, t \in Targets : IsKept(r) /\ <<r, t>> \notin mixed' =>
           managed' = managed /\ \A tag \in RuleTags : link'[<<t, tag>>] = link[<<t, tag>>]
  PROVE  TagsInv'
<1>1. RunsRecord' BY DEF TagsInv, RunsRecord, IsKept
<1>2. ActiveAreMixed' BY DEF TagsInv, ActiveAreMixed, IsKept, IsActive, Reach
<1>3. SweepsInReach' BY DEF TagsInv, SweepsInReach, Reach
<1>4. ASSUME NEW q \in TagRuns, NEW u \in tagRun[q].scope, <<q, u>> \notin mixed'
      PROVE  TargetIsRight(q, u)'
  <2>1. u \in Targets BY DEF TagsInv, TagsTyped, RunRows
  <2>2. CASE IsKept(q) BY <1>4, <2>1, <2>2, OthersStayRight
  <2>3. CASE ~IsKept(q) BY <2>3 DEF TargetIsRight, IsKept
  <2> QED BY <2>2, <2>3
<1> QED BY <1>1, <1>2, <1>3, <1>4 DEF TagsInv, TargetsAreRight

LEMMA TagsStep == TagsInv /\ [TagsNext]_tagVars => TagsInv'
<1> SUFFICES ASSUME TagsInv, [TagsNext]_tagVars PROVE TagsInv' OBVIOUS
<1>0. TagsTyped BY DEF TagsInv
<1>1. ASSUME NEW r \in TagRuns, CompleteTagRun(r) PROVE TagsInv'
  <2> DEFINE row == [pc |-> "completed", scope |-> tagRun[r].scope, todo |-> tagRun[r].todo,
                     applied |-> tagRun[r].applied, stale |-> tagRun[r].stale]
  <2>1. /\ tagRun[r].pc = "running" /\ tagRun' = [tagRun EXCEPT ![r].pc = "completed"]
        /\ UNCHANGED <<link, managed, collected, clearing, edits, mixed>>
    BY <1>1 DEF CompleteTagRun
  <2>2. RunBecomes(r, row) BY <1>0, <2>1 DEF TagsTyped, RunBecomes, RunRows
  <2>3. row \in RunRows BY <2>2 DEF RunBecomes
  <2>4. IsActive(r) /\ IsKept(r) BY <2>1 DEF IsActive, IsKept
  <2>5. mixed \subseteq mixed' /\ mixed' \subseteq TagRuns \X Targets BY <1>0, <2>1 DEF TagsTyped
  <2>6. /\ row.pc = "completed" /\ row.scope = tagRun[r].scope
        /\ row.todo = tagRun[r].todo /\ row.applied = tagRun[r].applied
    OBVIOUS
  <2> HIDE DEF row
  <2> QED BY <2>1, <2>2, <2>3, <2>4, <2>5, <2>6, QuietRunStep
<1>2. ASSUME NEW r \in TagRuns, SweepDies(r) PROVE TagsInv'
  <2> DEFINE row == [pc |-> "done", scope |-> tagRun[r].scope, todo |-> tagRun[r].todo,
                     applied |-> tagRun[r].applied, stale |-> {}]
  <2>1. /\ tagRun[r].pc \in {"completed", "sweeping"}
        /\ tagRun' = [tagRun EXCEPT ![r].pc = "done", ![r].stale = {}]
        /\ mixed' = mixed \union ({r} \X Targets)
        /\ UNCHANGED <<link, managed, collected, clearing, edits>>
    BY <1>2 DEF SweepDies
  <2>2. RunBecomes(r, row) BY <1>0, <2>1 DEF TagsTyped, RunBecomes, RunRows
  <2>3. row \in RunRows BY <2>2 DEF RunBecomes
  <2>4. IsActive(r) /\ IsKept(r) BY <2>1 DEF IsActive, IsKept
  <2>5. /\ mixed \subseteq mixed' /\ mixed' \subseteq TagRuns \X Targets
        /\ {r} \X Targets \subseteq mixed'
    BY <1>0, <2>1 DEF TagsTyped
  <2>6. /\ row.pc = "done" /\ row.scope = tagRun[r].scope
        /\ row.todo = tagRun[r].todo /\ row.applied = tagRun[r].applied
    OBVIOUS
  <2> HIDE DEF row
  <2> QED BY <2>1, <2>2, <2>3, <2>4, <2>5, <2>6, QuietRunStep
<1>3. CASE CheckClear
  <2>1. clearing' = Kept /\ UNCHANGED <<link, managed, collected, tagRun, edits, mixed>>
    BY <1>3 DEF CheckClear
  <2>2. TagsTyped' BY <1>0, <2>1 DEF TagsTyped, Kept
  <2>3. LinksAreRecorded' BY <2>1 DEF TagsInv, LinksAreRecorded
  <2> QED BY <2>1, <2>2, <2>3, UsersStep
<1>4. ASSUME NEW tag \in RuleTags, EditRules(tag) PROVE TagsInv'
  <2>1. /\ managed' = (IF tag \in managed THEN managed \ {tag} ELSE managed \union {tag})
        /\ mixed' = mixed \union (Kept \X Targets)
        /\ UNCHANGED <<link, collected, tagRun, clearing>>
    BY <1>4 DEF EditRules
  <2>2. TagsTyped' /\ mixed \subseteq mixed' BY <1>0, <2>1 DEF TagsTyped, Kept
  <2>3. LinksAreRecorded' BY <2>1 DEF TagsInv, LinksAreRecorded
  <2>4. \A r \in TagRuns, t \in Targets : IsKept(r) => <<r, t>> \in mixed'
    BY <2>1 DEF Kept, IsKept
  <2> QED BY <2>1, <2>2, <2>3, <2>4, UsersStep
<1>5. ASSUME NEW t \in Targets, AppendMessage(t) PROVE TagsInv'
  <2>1. /\ collected' = collected \union {t}
        /\ UNCHANGED <<link, managed, tagRun, clearing, edits, mixed>>
    BY <1>5 DEF AppendMessage
  <2>2. TagsTyped' BY <1>0, <2>1 DEF TagsTyped
  <2>3. LinksAreRecorded' BY <2>1 DEF TagsInv, LinksAreRecorded
  <2> QED BY <2>1, <2>2, <2>3, UsersStep
<1>6. ASSUME NEW p \in TagPairs, TagByHand(p) PROVE TagsInv'
  <2>1. /\ mixed' = mixed \union (Kept \X {p[1]})
        /\ UNCHANGED <<managed, collected, tagRun, clearing>>
    BY <1>6 DEF TagByHand
  <2>2. PICK new \in {"none", "evaluation", "user"} :
          /\ link' = [link EXCEPT ![p] = new]
          /\ new = "evaluation" => link[p] = "evaluation"
    <3>1. link[p] \in {"none", "evaluation", "user"} BY <1>0 DEF TagsTyped
    <3>2. CASE link' = [link EXCEPT ![p] = "none"] BY <3>2
    <3>3. CASE link' = [link EXCEPT ![p] = IF link[p] = "none" THEN "user" ELSE link[p]]
      <4>1. CASE link[p] = "none" BY <3>3, <4>1
      <4>2. CASE link[p] # "none" BY <3>1, <3>3, <4>2
      <4> QED BY <4>1, <4>2
    <3> QED BY <1>6, <3>2, <3>3 DEF TagByHand
  <2>3. p[1] \in Targets BY DEF TagPairs
  <2>4. TagsTyped' /\ mixed \subseteq mixed'
    BY <1>0, <2>1, <2>2, <2>3 DEF TagsTyped, Kept
  <2>5. \A q \in TagPairs : q # p => link'[q] = link[q] BY <1>0, <2>2 DEF TagsTyped
  <2>6. LinksAreRecorded'
    <3>1. link'[p] = new BY <1>0, <2>2 DEF TagsTyped
    <3> QED BY <2>1, <2>2, <2>5, <3>1 DEF TagsInv, LinksAreRecorded
  <2>7. ASSUME NEW r \in TagRuns, NEW t \in Targets, IsKept(r), <<r, t>> \notin mixed',
               NEW tag \in RuleTags
        PROVE  link'[<<t, tag>>] = link[<<t, tag>>]
    <3>1. t # p[1] BY <2>1, <2>7 DEF Kept, IsKept
    <3>2. <<t, tag>> \in TagPairs /\ <<t, tag>> # p BY <3>1 DEF TagPairs
    <3> QED BY <2>5, <3>2
  <2> QED BY <2>1, <2>4, <2>6, <2>7, UsersStep
<1>7. CASE UNCHANGED tagVars
  <2>1. UNCHANGED <<link, managed, collected, tagRun, clearing, mixed>> BY <1>7 DEF tagVars
  <2>2. TagsTyped' BY <1>0, <2>1 DEF TagsTyped
  <2>3. LinksAreRecorded' BY <2>1 DEF TagsInv, LinksAreRecorded
  <2> QED BY <2>1, <2>2, <2>3, UsersStep
<1> QED BY <1>1, <1>2, <1>3, <1>4, <1>5, <1>6, <1>7, StartTagRunStep, ApplyRulesStep,
           ComputeStaleStep, RemoveStaleStep, ClearRunsStep DEF TagsNext

\* For any numbers of runs, targets and tags, the targets of a finished run carry the
\* tags it says, and every tag there is has a run that knows it.
THEOREM TagsStayRight == TagsSpec => []TagsAreRight
BY TagsInitInv, TagsStep, TagsInvImplies, PTL DEF TagsSpec

-----------------------------------------------------------------------------
(* The outputs of an item's annotations.                                   *)

\* What is left to do after a commit.
Todos ==
  {<<>>, <<"aggregate">>, <<"scores">>, <<"aggregate", "scores">>, <<"scores", "aggregate">>}
Holds(todo, step) == \E i \in DOMAIN todo : todo[i] = step

ChangeRows ==
  [kind : {"none", "submit", "edit", "mark", "unmark", "raise", "lower"},
   of : Annotations \union {NoAnnotation},
   pc : {"idle", "loaded", "replacing", "resyncing", "marking", "next", "storing", "done"},
   todo : Todos, version : Nat, single : BOOLEAN,
   value : SUBSET (Annotations \X Nat), read : Nat, beaten : BOOLEAN]

OutputTyped ==
  /\ single \in BOOLEAN
  /\ data \in [Annotations -> Nat] /\ scores \in [Annotations -> Nat]
  /\ authority \in [of : Annotations \union {NoAnnotation}, auto : BOOLEAN]
  /\ itemLock \in Changes \union {NoChange}
  /\ change \in [Changes -> ChangeRows]
  /\ reads \in Nat /\ stored \in Nat /\ missed \in Int
  /\ crossed \subseteq Annotations

\* A request has as much left to do as its place says; it may hold the item's lock.
Shape(r, locks) ==
  /\ r.pc \in {"idle", "done", "loaded", "resyncing", "marking"} => r.todo = <<>>
  /\ r.pc = "storing" => r.todo # <<>> /\ Head(r.todo) = "aggregate"
  /\ r.pc = "next" => r.todo # <<>>
  /\ locks => r.pc = "replacing" /\ r.kind \in {"mark", "unmark"} /\ r.todo = <<>>
  /\ r.pc = "replacing" /\ ~locks => r.todo # <<>> /\ Head(r.todo) = "scores"
  /\ r.pc \in {"loaded", "replacing", "marking"} \/ Holds(r.todo, "scores") => r.of \in Annotations
  /\ r.pc = "loaded" => r.kind \in {"submit", "mark", "unmark"} /\ ~r.beaten
Shapes == \A c \in Changes : Shape(change[c], itemLock = c)

\* Requests that will still compute the aggregate.
Owing(r) == r.pc # "storing" /\ Holds(r.todo, "aggregate")

NumbersOfReads == stored <= reads /\ \A c \in Changes : change[c].read <= reads

\* When nobody will compute it again and nothing was missed, the aggregate computed last,
\* stored or about to be, is the right one.
LatestIsRight ==
  (\A c \in Changes : ~Owing(change[c])) /\ missed < reads =>
    /\ stored = reads => aggregate = Contributing
    /\ \A c \in Changes : change[c].pc = "storing" /\ change[c].read = reads
         => change[c].value = Contributing

\* Requests that write scores of an annotation that is there, and those that bring one.
Writing(r) == r.pc \in {"loaded", "replacing"} \/ Holds(r.todo, "scores")
Entering(r) == r.pc = "loaded" /\ r.kind = "submit"
Rewriting(r, a) == r.of = a /\ Writing(r) /\ ~Entering(r)

EnterAlone ==
  \A c \in Changes : Entering(change[c]) =>
    /\ data[change[c].of] = 0
    /\ \A d \in Changes \ {c} : Writing(change[d]) => change[d].of # change[c].of

\* Unless saves have crossed, whoever writes scores writes those of the data as it is, one
\* that was beaten to it finds them written, and they are right or will be written.
ScoresFollow ==
  \A a \in Annotations \ crossed :
    /\ \A c \in Changes : Rewriting(change[c], a) =>
         /\ change[c].version = data[a]
         /\ change[c].pc = "replacing" /\ change[c].beaten => scores[a] = data[a]
    /\ scores[a] = data[a] \/ \E c \in Changes : Rewriting(change[c], a)

OutputInv ==
  /\ OutputTyped /\ Shapes /\ NumbersOfReads /\ LatestIsRight /\ EnterAlone /\ ScoresFollow

\* Work is done from the front.
LEMMA TodoSteps ==
  \A todo \in Todos : todo # <<>> =>
    /\ Tail(todo) \in Todos
    /\ Head(todo) \in {"aggregate", "scores"}
    /\ Holds(todo, Head(todo)) /\ ~Holds(Tail(todo), Head(todo))
    /\ \A step \in {"aggregate", "scores"} \ {Head(todo)} :
         Holds(Tail(todo), step) <=> Holds(todo, step)
    /\ Len(todo) = 1 <=> Tail(todo) = <<>>
<1> SUFFICES ASSUME NEW todo \in Todos, todo # <<>>
             PROVE  /\ Tail(todo) \in Todos
                    /\ Head(todo) \in {"aggregate", "scores"}
                    /\ Holds(todo, Head(todo)) /\ ~Holds(Tail(todo), Head(todo))
                    /\ \A step \in {"aggregate", "scores"} \ {Head(todo)} :
                         Holds(Tail(todo), step) <=> Holds(todo, step)
                    /\ Len(todo) = 1 <=> Tail(todo) = <<>>
  OBVIOUS
<1>1. CASE todo = <<"aggregate">> BY <1>1 DEF Todos, Holds
<1>2. CASE todo = <<"scores">> BY <1>2 DEF Todos, Holds
<1>3. CASE todo = <<"aggregate", "scores">>
  <2>1. Tail(todo) = <<"scores">> /\ Head(todo) = "aggregate" /\ Len(todo) = 2 BY <1>3
  <2> QED BY <1>3, <2>1 DEF Todos, Holds
<1>4. CASE todo = <<"scores", "aggregate">>
  <2>1. Tail(todo) = <<"aggregate">> /\ Head(todo) = "scores" /\ Len(todo) = 2 BY <1>4
  <2> QED BY <1>4, <2>1 DEF Todos, Holds
<1> QED BY <1>1, <1>2, <1>3, <1>4 DEF Todos

LEMMA NothingToDo == <<>> \in Todos /\ \A step : ~Holds(<<>>, step)
BY DEF Todos, Holds

LEMMA FollowedSteps ==
  \A kind : /\ Followed(kind) \in Todos /\ Followed(kind) # <<>>
            /\ Holds(Followed(kind), "aggregate")
            /\ kind \in {"submit", "edit"} <=> Holds(Followed(kind), "scores")
<1> TAKE kind
<1>1. CASE kind = "submit" BY <1>1 DEF Followed, Todos, Holds
<1>2. CASE kind = "edit" BY <1>2 DEF Followed, Todos, Holds
<1>3. CASE kind \notin {"submit", "edit"} BY <1>3 DEF Followed, Todos, Holds
<1> QED BY <1>1, <1>2, <1>3

-----------------------------------------------------------------------------
\* One request moves; the scores of others may come too late for theirs.
Moved(c, row) ==
  /\ row \in ChangeRows /\ change' \in [Changes -> ChangeRows]
  /\ change'[c] = row /\ \A d \in Changes \ {c} : change'[d] = change[d]

Others(c) ==
  \A d \in Changes \ {c} :
    /\ change'[d].pc = change[d].pc /\ change'[d].kind = change[d].kind
    /\ change'[d].of = change[d].of /\ change'[d].todo = change[d].todo
    /\ change'[d].version = change[d].version
    /\ change'[d].value = change[d].value /\ change'[d].read = change[d].read
    /\ change'[d].beaten # change[d].beaten => change[d].pc = "replacing"

LEMMA MovedOthers == ASSUME NEW c \in Changes, NEW row, Moved(c, row) PROVE Others(c)
BY DEF Moved, Others

LEMMA MoveOf ==
  ASSUME OutputTyped, NEW c \in Changes, NEW row \in ChangeRows,
         change' = [change EXCEPT ![c] = row]
  PROVE  Moved(c, row)
BY DEF OutputTyped, Moved

\* Same annotations, same contributions.
LEMMA SameContributing ==
  UNCHANGED <<data, authority>> => Contributing' = Contributing
BY DEF Contributing, Submitted

LEMMA ShapesMove ==
  ASSUME Shapes, NEW c \in Changes, Others(c), Shape(change'[c], itemLock' = c),
         \A d \in Changes \ {c} : (itemLock' = d) <=> (itemLock = d)
  PROVE  Shapes'
BY DEF Shapes, Shape, Others

LEMMA NumbersMove ==
  ASSUME OutputTyped, NumbersOfReads, NEW c \in Changes, Others(c), UNCHANGED <<reads, stored>>,
         change'[c].read \in {0, change[c].read}
  PROVE  NumbersOfReads'
BY DEF OutputTyped, NumbersOfReads, Others

\* Nothing is computed and nothing changes that is.
LatestQuiet(c) ==
  /\ UNCHANGED <<aggregate, stored, reads, missed>> /\ Contributing' = Contributing
  /\ change'[c].pc # "storing"
  /\ Owing(change[c]) => Owing(change'[c])

LEMMA LatestStays ==
  ASSUME LatestIsRight, NEW c \in Changes, Others(c), LatestQuiet(c)
  PROVE  LatestIsRight'
<1>1. \A d \in Changes \ {c} : Owing(change'[d]) <=> Owing(change[d]) BY DEF Others, Owing
<1> QED BY <1>1 DEF LatestIsRight, LatestQuiet, Others

\* Whoever still owes a computation makes up for what changes.
LEMMA LatestOwed ==
  ASSUME NEW c \in Changes, Owing(change'[c])
  PROVE  LatestIsRight'
BY DEF LatestIsRight

LEMMA LatestMissed ==
  ASSUME OutputTyped, missed' = reads, reads' = reads
  PROVE  LatestIsRight'
BY DEF LatestIsRight, OutputTyped

\* A request that neither begins nor ends to write scores.
SameWriter(old, new) ==
  /\ Writing(new) <=> Writing(old)
  /\ ~Entering(new) /\ ~Entering(old)
  /\ Writing(old) => new.of = old.of /\ new.version = old.version
  /\ new.pc = "replacing" /\ new.beaten => old.pc = "replacing" /\ old.beaten

ScoresQuiet(c) ==
  /\ UNCHANGED <<data, scores, crossed>>
  /\ \A d \in Changes \ {c} : change'[d] = change[d]
  /\ SameWriter(change[c], change'[c])

LEMMA ScoresStay ==
  ASSUME EnterAlone, ScoresFollow, NEW c \in Changes, ScoresQuiet(c)
  PROVE  EnterAlone' /\ ScoresFollow'
<1>1. EnterAlone' BY DEF ScoresQuiet, SameWriter, EnterAlone
<1>2. \A d \in Changes, a \in Annotations : Rewriting(change'[d], a) <=> Rewriting(change[d], a)
  BY DEF ScoresQuiet, SameWriter, Rewriting
<1>3. \A d \in Changes, a \in Annotations : Rewriting(change'[d], a) =>
        /\ change'[d].version = change[d].version
        /\ change'[d].pc = "replacing" /\ change'[d].beaten
             => change[d].pc = "replacing" /\ change[d].beaten
  BY <1>2 DEF ScoresQuiet, SameWriter, Rewriting
<1>4. ScoresFollow'
  <2> SUFFICES ASSUME NEW a \in Annotations \ crossed
               PROVE  /\ \A d \in Changes : Rewriting(change'[d], a) =>
                           /\ change'[d].version = data[a]
                           /\ change'[d].pc = "replacing" /\ change'[d].beaten
                                => scores[a] = data[a]
                      /\ scores[a] = data[a] \/ \E d \in Changes : Rewriting(change'[d], a)
    BY DEF ScoresFollow, ScoresQuiet
  <2> QED BY <1>2, <1>3 DEF ScoresFollow
<1> QED BY <1>1, <1>4

LEMMA OutputInitInv == OutputInit => OutputInv
<1> SUFFICES ASSUME OutputInit PROVE OutputInv OBVIOUS
<1>1. PICK isSingle \in BOOLEAN, before \in [Annotations -> {0, 1}],
           authoritative \in [of : Annotations \union {NoAnnotation}, auto : BOOLEAN] :
        OutputStart(isSingle, before, authoritative)
  BY DEF OutputInit, Nobody
<1>2. NewChange \in ChangeRows /\ \A c \in Changes : change[c] = NewChange
  BY <1>1, NothingToDo DEF OutputStart, NewChange, ChangeRows
<1>3. OutputTyped BY <1>1, <1>2 DEF OutputStart, OutputTyped, Nobody
<1>4. Shapes
  BY <1>1, <1>2, NothingToDo, OutputConstants DEF OutputStart, NewChange, Shapes, Shape
<1>5. NumbersOfReads BY <1>1, <1>2 DEF OutputStart, NewChange, NumbersOfReads
<1>6. LatestIsRight BY <1>1, <1>2 DEF OutputStart, NewChange, LatestIsRight
<1>7. EnterAlone BY <1>2 DEF NewChange, EnterAlone, Entering
<1>8. ScoresFollow
  BY <1>1, <1>2, NothingToDo DEF OutputStart, NewChange, ScoresFollow, Rewriting, Writing
<1> QED BY <1>3, <1>4, <1>5, <1>6, <1>7, <1>8 DEF OutputInv

LEMMA OutputInvImplies == OutputInv => OutputsAreCurrent
<1> SUFFICES ASSUME OutputInv, Settled PROVE EveryChangeIsAggregated /\ ScoresAreCurrent
  BY DEF OutputsAreCurrent, EveryChangeIsAggregated, ScoresAreCurrent
<1>1. \A c \in Changes : change[c].todo = <<>> /\ change[c].pc \in {"idle", "done"}
  BY DEF OutputInv, Shapes, Shape, Settled
<1>2. \A c \in Changes : ~Owing(change[c]) /\ ~Writing(change[c])
  BY <1>1, NothingToDo DEF Owing, Writing
<1>3. EveryChangeIsAggregated BY <1>2 DEF OutputInv, LatestIsRight, EveryChangeIsAggregated
<1>4. ScoresAreCurrent BY <1>2 DEF OutputInv, ScoresFollow, Rewriting, ScoresAreCurrent
<1> QED BY <1>3, <1>4

-----------------------------------------------------------------------------
\* Requests that follow up have this to do.
LEMMA FollowsUp ==
  ASSUME OutputTyped, NEW c \in Changes
  PROVE  LET row == [change[c] EXCEPT !.pc = "next", !.todo = Followed(change[c].kind)]
         IN  row \in ChangeRows /\ Follow(c) = [change EXCEPT ![c] = row]
<1>0. change[c] \in ChangeRows /\ change \in [Changes -> ChangeRows] BY DEF OutputTyped
<1>1. \A r \in ChangeRows : [r EXCEPT !.pc = "next"] \in ChangeRows BY DEF ChangeRows
<1>2. \A r \in ChangeRows, t \in Todos : [r EXCEPT !.todo = t] \in ChangeRows BY DEF ChangeRows
<1> DEFINE t == Followed(change[c].kind)
<1>3. t \in Todos BY FollowedSteps
<1>4. Follow(c) = [change EXCEPT ![c].pc = "next", ![c].todo = t] BY DEF Follow
<1> HIDE DEF t
<1>5. \A r \in ChangeRows :
        [[r EXCEPT !.pc = "next"] EXCEPT !.todo = t] = [r EXCEPT !.pc = "next", !.todo = t]
  BY DEF ChangeRows
<1>6. [change[c] EXCEPT !.pc = "next", !.todo = t] \in ChangeRows BY <1>0, <1>1, <1>2, <1>3, <1>5
<1>7. Follow(c) = [change EXCEPT ![c] = [change[c] EXCEPT !.pc = "next", !.todo = t]]
  BY <1>0, <1>4, <1>6
<1> QED BY <1>6, <1>7 DEF t

\* A submission is begun.
LEMMA LoadItemStep ==
  ASSUME OutputInv, NEW c \in Changes, NEW a \in Annotations, LoadItem(c, a)
  PROVE  OutputInv'
<1> DEFINE row == [Begins(c, "submit", a) EXCEPT !.pc = "loaded", !.single = single]
<1>0. OutputTyped /\ Shapes /\ NumbersOfReads /\ LatestIsRight /\ EnterAlone /\ ScoresFollow
  BY DEF OutputInv
<1>1. /\ row \in ChangeRows /\ row.pc = "loaded" /\ row.of = a /\ row.kind = "submit"
      /\ row.todo = <<>> /\ row.read = 0 /\ ~row.beaten
  BY <1>0, NothingToDo DEF Begins, NewChange, ChangeRows, OutputTyped
<1>2. /\ change' = [change EXCEPT ![c] = row] /\ change[c].pc = "idle"
      /\ data[a] = 0 /\ Writers(a) = {}
      /\ UNCHANGED <<single, data, authority, itemLock, aggregate, scores, reads, stored,
                     missed, crossed>>
  BY DEF LoadItem
<1> HIDE DEF row
<1>3. Moved(c, row) /\ Others(c) BY <1>0, <1>1, <1>2, MoveOf, MovedOthers
<1>4. OutputTyped' BY <1>0, <1>2, <1>3 DEF OutputTyped, Moved
<1>5. change[c].todo = <<>> /\ itemLock # c BY <1>0, <1>2 DEF Shapes, Shape
<1>6. Shapes' BY <1>0, <1>1, <1>2, <1>3, <1>5, NothingToDo, ShapesMove DEF Moved, Shape
<1>7. NumbersOfReads' BY <1>0, <1>1, <1>2, <1>3, NumbersMove DEF Moved
<1>8. LatestQuiet(c)
  BY <1>1, <1>2, <1>3, <1>5, NothingToDo, SameContributing DEF LatestQuiet, Moved, Owing
<1>9. LatestIsRight' BY <1>0, <1>3, <1>8, LatestStays
<1>10. \A d \in Changes : Writing(change[d]) => change[d].of # a
  BY <1>0, <1>2 DEF Writers, Writing, Holds
<1>11. EnterAlone'
  BY <1>0, <1>1, <1>2, <1>3, <1>10 DEF EnterAlone, Moved, Entering, Writing
<1>12. ScoresFollow'
  <2>1. \A d \in Changes, b \in Annotations :
          Rewriting(change'[d], b) <=> Rewriting(change[d], b) /\ d # c
    BY <1>1, <1>2, <1>3, <1>5, NothingToDo DEF Moved, Rewriting, Entering, Writing
  <2>2. ~\E b \in Annotations : Rewriting(change[c], b)
    BY <1>2, <1>5, NothingToDo DEF Rewriting, Writing
  <2>3. \A b \in Annotations : (\E d \in Changes : Rewriting(change[d], b)) =>
           \E d \in Changes : Rewriting(change'[d], b)
    BY <2>1, <2>2
  <2> QED BY <1>0, <1>2, <1>3, <2>1, <2>3 DEF ScoresFollow, Moved
<1> QED BY <1>4, <1>6, <1>7, <1>9, <1>11, <1>12 DEF OutputInv

\* A mark is begun: it will write the scores of the data it has read.
LEMMA LoadMarkStep ==
  ASSUME OutputInv, NEW c \in Changes, NEW a \in Annotations, NEW kind \in {"mark", "unmark"},
         LoadMark(c, a, kind)
  PROVE  OutputInv'
<1> DEFINE row == [Begins(c, kind, a) EXCEPT !.pc = "loaded", !.version = data[a]]
<1>0. OutputTyped /\ Shapes /\ NumbersOfReads /\ LatestIsRight /\ EnterAlone /\ ScoresFollow
  BY DEF OutputInv
<1>1. /\ row \in ChangeRows /\ row.pc = "loaded" /\ row.of = a /\ row.kind = kind
      /\ row.todo = <<>> /\ row.read = 0 /\ row.version = data[a] /\ ~row.beaten
  BY <1>0, NothingToDo DEF Begins, NewChange, ChangeRows, OutputTyped
<1>2. /\ change' = [change EXCEPT ![c] = row] /\ change[c].pc = "idle" /\ data[a] > 0
      /\ UNCHANGED <<single, data, authority, itemLock, aggregate, scores, reads, stored,
                     missed, crossed>>
  BY DEF LoadMark
<1> HIDE DEF row
<1>3. Moved(c, row) /\ Others(c) BY <1>0, <1>1, <1>2, MoveOf, MovedOthers
<1>4. OutputTyped' BY <1>0, <1>2, <1>3 DEF OutputTyped, Moved
<1>5. change[c].todo = <<>> /\ itemLock # c BY <1>0, <1>2 DEF Shapes, Shape
<1>6. Shapes' BY <1>0, <1>1, <1>2, <1>3, <1>5, NothingToDo, ShapesMove DEF Moved, Shape
<1>7. NumbersOfReads' BY <1>0, <1>1, <1>2, <1>3, NumbersMove DEF Moved
<1>8. LatestQuiet(c)
  BY <1>1, <1>2, <1>3, <1>5, NothingToDo, SameContributing DEF LatestQuiet, Moved, Owing
<1>9. LatestIsRight' BY <1>0, <1>3, <1>8, LatestStays
<1>10. EnterAlone'
  BY <1>0, <1>1, <1>2, <1>3 DEF EnterAlone, Moved, Entering, Writing, OutputTyped
<1>11. ScoresFollow'
  <2>1. /\ \A d \in Changes \ {c} : change'[d] = change[d]
        /\ ~\E b \in Annotations : Rewriting(change[c], b)
        /\ \A b \in Annotations : Rewriting(change'[c], b) => b = a
        /\ change'[c].version = data[a] /\ change'[c].pc = "loaded"
    BY <1>1, <1>2, <1>3, <1>5, NothingToDo DEF Moved, Rewriting, Writing
  <2> QED BY <1>0, <1>2, <2>1 DEF ScoresFollow
<1> QED BY <1>4, <1>6, <1>7, <1>9, <1>10, <1>11 DEF OutputInv

\* The mark has the lock.
LEMMA StartMarkStep ==
  ASSUME OutputInv, NEW c \in Changes, StartMark(c)
  PROVE  OutputInv'
<1> DEFINE row == [change[c] EXCEPT !.pc = "replacing"]
<1>0. OutputTyped /\ Shapes /\ NumbersOfReads /\ LatestIsRight /\ EnterAlone /\ ScoresFollow
  BY DEF OutputInv
<1>1. /\ row \in ChangeRows /\ row.pc = "replacing"
      /\ row.kind = change[c].kind /\ row.of = change[c].of /\ row.todo = change[c].todo
      /\ row.version = change[c].version /\ row.beaten = change[c].beaten
      /\ row.read = change[c].read
  BY <1>0 DEF ChangeRows, OutputTyped
<1>2. /\ change' = [change EXCEPT ![c] = row] /\ change[c].pc = "loaded"
      /\ change[c].kind \in {"mark", "unmark"} /\ itemLock = NoChange /\ itemLock' = c
      /\ UNCHANGED <<single, data, authority, aggregate, scores, reads, stored, missed, crossed>>
  BY DEF StartMark
<1> HIDE DEF row
<1>3. Moved(c, row) /\ Others(c) BY <1>0, <1>1, <1>2, MoveOf, MovedOthers
<1>4. OutputTyped' BY <1>0, <1>2, <1>3 DEF OutputTyped, Moved
<1>5. /\ change[c].todo = <<>> /\ change[c].of \in Annotations /\ ~change[c].beaten
      /\ \A d \in Changes : itemLock # d
  BY <1>0, <1>2, OutputConstants DEF Shapes, Shape
<1>6. Shapes' BY <1>0, <1>1, <1>2, <1>3, <1>5, NothingToDo, ShapesMove DEF Moved, Shape
<1>7. NumbersOfReads' BY <1>0, <1>1, <1>2, <1>3, NumbersMove DEF Moved
<1>8. LatestQuiet(c)
  BY <1>1, <1>2, <1>3, <1>5, NothingToDo, SameContributing DEF LatestQuiet, Moved, Owing
<1>9. LatestIsRight' BY <1>0, <1>3, <1>8, LatestStays
<1>10. ScoresQuiet(c)
  BY <1>1, <1>2, <1>3, <1>5 DEF ScoresQuiet, SameWriter, Writing, Entering, Moved
<1> QED BY <1>0, <1>4, <1>6, <1>7, <1>9, <1>10, ScoresStay DEF OutputInv

\* A request that writes no scores and has nothing to follow up begins or ends.
LEMMA IdleStep ==
  ASSUME OutputInv, NEW c \in Changes, NEW row \in ChangeRows,
         change' = [change EXCEPT ![c] = row],
         change[c].pc \in {"idle", "resyncing", "marking"},
         row.pc \in {"done", "resyncing", "marking"},
         row.pc = "marking" => row.of \in Annotations,
         row.todo = <<>>, row.read \in {0, change[c].read},
         single' \in BOOLEAN,
         UNCHANGED <<data, authority, itemLock, aggregate, scores, reads, stored, missed, crossed>>
  PROVE  OutputInv'
<1>0. OutputTyped /\ Shapes /\ NumbersOfReads /\ LatestIsRight /\ EnterAlone /\ ScoresFollow
  BY DEF OutputInv
<1>3. Moved(c, row) /\ Others(c) BY <1>0, MoveOf, MovedOthers
<1>4. OutputTyped' BY <1>0, <1>3 DEF OutputTyped, Moved
<1>5. change[c].todo = <<>> /\ itemLock # c BY <1>0 DEF Shapes, Shape
<1>6. Shapes' BY <1>0, <1>3, <1>5, NothingToDo, ShapesMove DEF Moved, Shape
<1>7. NumbersOfReads' BY <1>0, <1>3, NumbersMove DEF Moved
<1>8. LatestQuiet(c)
  BY <1>3, <1>5, NothingToDo, SameContributing DEF LatestQuiet, Moved, Owing
<1>9. LatestIsRight' BY <1>0, <1>3, <1>8, LatestStays
<1>10. ScoresQuiet(c)
  BY <1>3, <1>5, NothingToDo DEF ScoresQuiet, SameWriter, Writing, Entering, Moved
<1> QED BY <1>0, <1>4, <1>6, <1>7, <1>9, <1>10, ScoresStay DEF OutputInv

LEMMA SaveRequiredStep ==
  ASSUME OutputInv, NEW c \in Changes, SaveRequired(c) PROVE OutputInv'
<1> DEFINE row == [NewChange EXCEPT !.kind = IF single THEN "raise" ELSE "lower",
                                    !.pc = "resyncing"]
<1>1. /\ row \in ChangeRows /\ row.pc = "resyncing" /\ row.todo = <<>> /\ row.read = 0
  BY NothingToDo DEF NewChange, ChangeRows
<1>2. change' = [change EXCEPT ![c] = row] /\ change[c].pc = "idle" /\ single' \in BOOLEAN
  BY DEF SaveRequired, OutputInv, OutputTyped
<1> HIDE DEF row
<1> QED BY <1>1, <1>2, IdleStep DEF SaveRequired

\* A row with another place.
LEMMA RowAt ==
  ASSUME OutputTyped, NEW c \in Changes, NEW pc \in {"done", "resyncing", "storing", "replacing"}
  PROVE  LET row == [change[c] EXCEPT !.pc = pc]
         IN  /\ row \in ChangeRows /\ row.pc = pc
             /\ row.kind = change[c].kind /\ row.of = change[c].of /\ row.todo = change[c].todo
             /\ row.version = change[c].version /\ row.beaten = change[c].beaten
             /\ row.read = change[c].read
             /\ [change EXCEPT ![c].pc = pc] = [change EXCEPT ![c] = row]
BY DEF OutputTyped, ChangeRows

\* A commit that is followed up by an aggregation only: the raise and the lock of the mark.
LEMMA ResyncRaiseStep ==
  ASSUME OutputInv, NEW c \in Changes, ResyncRaise(c) PROVE OutputInv'
<1>0. OutputTyped /\ Shapes /\ NumbersOfReads /\ LatestIsRight /\ EnterAlone /\ ScoresFollow
  BY DEF OutputInv
<1>1. /\ change[c].kind = "raise" /\ change[c].pc = "resyncing"
      /\ UNCHANGED <<single, data, itemLock, aggregate, scores, reads, stored, missed, crossed>>
  BY DEF ResyncRaise
<1>2. CASE Clears
  <2> DEFINE row == [change[c] EXCEPT !.pc = "next", !.todo = Followed(change[c].kind)]
  <2>1. row \in ChangeRows /\ change' = [change EXCEPT ![c] = row]
    BY <1>0, <1>2, FollowsUp DEF ResyncRaise
  <2>2. /\ row.pc = "next" /\ row.todo = Followed("raise") /\ row.of = change[c].of
        /\ row.read = change[c].read
    BY <1>0, <1>1 DEF OutputTyped, ChangeRows
  <2> HIDE DEF row
  <2>3. Moved(c, row) /\ Others(c) BY <1>0, <2>1, MoveOf, MovedOthers
  <2>4. authority' \in [of : Annotations \union {NoAnnotation}, auto : BOOLEAN]
    BY <1>0 DEF ResyncRaise, OutputTyped, Nobody
  <2>5. OutputTyped' BY <1>0, <1>1, <2>3, <2>4 DEF OutputTyped, Moved
  <2>6. change[c].todo = <<>> /\ itemLock # c BY <1>0, <1>1 DEF Shapes, Shape
  <2>7. row.todo # <<>> /\ Holds(row.todo, "aggregate") /\ ~Holds(row.todo, "scores")
    BY <2>2, FollowedSteps
  <2>8. Shapes' BY <1>0, <1>1, <2>2, <2>3, <2>6, <2>7, ShapesMove DEF Moved, Shape
  <2>9. NumbersOfReads' BY <1>0, <1>1, <2>2, <2>3, NumbersMove DEF Moved
  <2>10. LatestIsRight' BY <2>2, <2>3, <2>7, LatestOwed DEF Moved, Owing
  <2>11. ScoresQuiet(c)
    BY <1>1, <2>2, <2>3, <2>6, <2>7, NothingToDo
       DEF ScoresQuiet, SameWriter, Writing, Entering, Moved
  <2> QED BY <1>0, <2>5, <2>8, <2>9, <2>10, <2>11, ScoresStay DEF OutputInv
<1>3. CASE ~Clears
  <2>1. UNCHANGED authority /\ change' = [change EXCEPT ![c].pc = "done"]
    BY <1>3 DEF ResyncRaise, Clears
  <2>2. change[c].todo = <<>> BY <1>0, <1>1 DEF Shapes, Shape
  <2> DEFINE row == [change[c] EXCEPT !.pc = "done"]
  <2>3. /\ row \in ChangeRows /\ row.pc = "done" /\ row.todo = <<>> /\ row.read = change[c].read
        /\ change' = [change EXCEPT ![c] = row]
    BY <1>0, <2>1, <2>2, RowAt
  <2> HIDE DEF row
  <2> QED BY <1>0, <1>1, <2>1, <2>3, IdleStep DEF OutputTyped
<1> QED BY <1>2, <1>3

LEMMA MarkLoneStep ==
  ASSUME OutputInv, NEW c \in Changes, MarkLone(c) PROVE OutputInv'
<1>0. OutputTyped /\ Shapes BY DEF OutputInv
<1>1. /\ change[c].pc = "resyncing" /\ change[c].todo = <<>>
      /\ UNCHANGED <<single, data, authority, itemLock, aggregate, scores, reads, stored,
                     missed, crossed>>
  BY <1>0 DEF MarkLone, Shapes, Shape
<1>2. CASE \E a \in Submitted : change' = [change EXCEPT ![c].pc = "marking", ![c].of = a]
  <2>1. PICK a \in Submitted : change' = [change EXCEPT ![c].pc = "marking", ![c].of = a]
    BY <1>2
  <2> DEFINE row == [change[c] EXCEPT !.pc = "marking", !.of = a]
  <2>2. a \in Annotations BY DEF Submitted
  <2>3. /\ row \in ChangeRows /\ row.pc = "marking" /\ row.of = a /\ row.todo = <<>>
        /\ row.read = change[c].read
    BY <1>0, <1>1, <2>2 DEF OutputTyped, ChangeRows
  <2>4. change' = [change EXCEPT ![c] = row]
    BY <1>0, <2>1 DEF OutputTyped, ChangeRows
  <2> HIDE DEF row
  <2> QED BY <1>0, <1>1, <2>2, <2>3, <2>4, IdleStep DEF OutputTyped
<1>3. CASE change' = [change EXCEPT ![c].pc = "done"]
  <2> DEFINE row == [change[c] EXCEPT !.pc = "done"]
  <2>1. /\ row \in ChangeRows /\ row.pc = "done" /\ row.todo = <<>> /\ row.read = change[c].read
        /\ change' = [change EXCEPT ![c] = row]
    BY <1>0, <1>1, <1>3, RowAt
  <2> HIDE DEF row
  <2> QED BY <1>0, <1>1, <2>1, IdleStep DEF OutputTyped
<1> QED BY <1>2, <1>3 DEF MarkLone

\* The automatic mark lands: on the only review, or nothing follows it.
LEMMA CommitLoneStep ==
  ASSUME OutputInv, NEW c \in Changes, CommitLone(c) PROVE OutputInv'
<1> DEFINE row == [change[c] EXCEPT !.pc = "done"]
<1>0. OutputTyped /\ Shapes /\ NumbersOfReads /\ LatestIsRight /\ EnterAlone /\ ScoresFollow
  BY DEF OutputInv
<1>1. /\ change[c].pc = "marking" /\ change[c].todo = <<>> /\ change[c].of \in Annotations
      /\ itemLock # c
      /\ authority' = [of |-> change[c].of, auto |-> TRUE]
      /\ missed' = (IF Submitted = {change[c].of} THEN missed ELSE reads)
      /\ UNCHANGED <<single, data, itemLock, aggregate, scores, reads, stored, crossed>>
  BY <1>0 DEF CommitLone, Marking, Shapes, Shape
<1>2. /\ row \in ChangeRows /\ row.pc = "done" /\ row.todo = <<>> /\ row.read = change[c].read
      /\ change' = [change EXCEPT ![c] = row]
  BY <1>0, <1>1, RowAt DEF CommitLone
<1> HIDE DEF row
<1>3. Moved(c, row) /\ Others(c) BY <1>0, <1>2, MoveOf, MovedOthers
<1>4. OutputTyped' BY <1>0, <1>1, <1>3 DEF OutputTyped, Moved
<1>5. Shapes' BY <1>0, <1>1, <1>2, <1>3, NothingToDo, ShapesMove DEF Moved, Shape
<1>6. NumbersOfReads' BY <1>0, <1>1, <1>2, <1>3, NumbersMove DEF Moved
<1>7. LatestIsRight'
  <2>1. CASE Submitted = {change[c].of}
    <3>1. Contributing = {<<a, data[a]>> : a \in {change[c].of}}
      BY <2>1 DEF Contributing
    <3>2. Contributing' = {<<a, data[a]>> : a \in {change[c].of}}
      <4>1. Submitted' = Submitted BY <1>1 DEF Submitted
      <4> QED BY <1>1, <2>1, <4>1 DEF Contributing
    <3>3. LatestQuiet(c)
      BY <1>1, <1>2, <1>3, <2>1, <3>1, <3>2, NothingToDo DEF LatestQuiet, Moved, Owing
    <3> QED BY <1>0, <1>3, <3>3, LatestStays
  <2>2. CASE Submitted # {change[c].of} BY <1>0, <1>1, <2>2, LatestMissed
  <2> QED BY <2>1, <2>2
<1>8. ScoresQuiet(c)
  BY <1>1, <1>2, <1>3, NothingToDo DEF ScoresQuiet, SameWriter, Writing, Entering, Moved
<1> QED BY <1>0, <1>4, <1>5, <1>6, <1>7, <1>8, ScoresStay DEF OutputInv

\* The annotation and what follows it.
LEMMA SubmitStep ==
  ASSUME OutputInv, NEW c \in Changes, Submit(c) PROVE OutputInv'
<1> DEFINE row == [[change[c] EXCEPT !.pc = "next", !.todo = Followed(change[c].kind)]
                     EXCEPT !.version = 1]
<1> DEFINE a == change[c].of
<1>0. OutputTyped /\ Shapes /\ NumbersOfReads /\ LatestIsRight /\ EnterAlone /\ ScoresFollow
  BY DEF OutputInv
<1>1. /\ change[c].kind = "submit" /\ change[c].pc = "loaded" /\ change[c].todo = <<>>
      /\ a \in Annotations /\ ~change[c].beaten /\ itemLock = NoChange /\ itemLock # c
      /\ data' = [data EXCEPT ![a] = 1]
      /\ UNCHANGED <<single, itemLock, aggregate, scores, reads, stored, missed, crossed>>
  BY <1>0, OutputConstants DEF Submit, Shapes, Shape
<1>2. /\ row \in ChangeRows /\ row.pc = "next" /\ row.todo = Followed("submit") /\ row.of = a
      /\ row.kind = "submit" /\ row.version = 1 /\ row.read = change[c].read
  <2>1. [change[c] EXCEPT !.pc = "next", !.todo = Followed(change[c].kind)] \in ChangeRows
    BY <1>0, FollowsUp
  <2>2. \A r \in ChangeRows : [r EXCEPT !.version = 1] \in ChangeRows BY DEF ChangeRows
  <2> QED BY <1>0, <1>1, <2>1, <2>2 DEF OutputTyped, ChangeRows
<1>3. change' = [change EXCEPT ![c] = row]
  <2>1. change' = [Follow(c) EXCEPT ![c].version = 1] BY DEF Submit
  <2>2. change' = [[change EXCEPT ![c] = [change[c] EXCEPT !.pc = "next",
                                                         !.todo = Followed(change[c].kind)]]
                     EXCEPT ![c].version = 1]
    BY <1>0, <2>1, FollowsUp
  <2> QED BY <1>0, <2>2 DEF OutputTyped
<1>4. authority' \in [of : Annotations \union {NoAnnotation}, auto : BOOLEAN]
  BY <1>0, <1>1 DEF Submit, OutputTyped
<1> HIDE DEF row
<1>5. Moved(c, row) /\ Others(c) BY <1>0, <1>2, <1>3, MoveOf, MovedOthers
<1>6. OutputTyped' BY <1>0, <1>1, <1>4, <1>5 DEF OutputTyped, Moved
<1>7. row.todo # <<>> /\ Holds(row.todo, "aggregate") /\ Holds(row.todo, "scores")
  BY <1>2, FollowedSteps
<1>8. Shapes' BY <1>0, <1>1, <1>2, <1>5, <1>7, ShapesMove DEF Moved, Shape
<1>9. NumbersOfReads' BY <1>0, <1>1, <1>2, <1>5, NumbersMove DEF Moved
<1>10. LatestIsRight' BY <1>2, <1>5, <1>7, LatestOwed DEF Moved, Owing
<1>11. data[a] = 0 /\ \A d \in Changes \ {c} : Writing(change[d]) => change[d].of # a
  BY <1>0, <1>1 DEF EnterAlone, Entering
<1>12. EnterAlone'
  <2>1. ~Entering(change'[c]) /\ change'[c].of = a BY <1>2, <1>5 DEF Moved, Entering
  <2>2. \A d \in Changes \ {c} : change'[d] = change[d] BY <1>5 DEF Moved
  <2>3. \A b : b # a => data'[b] = data[b] BY <1>0, <1>1 DEF OutputTyped
  <2>4. \A d \in Changes \ {c} : Entering(change[d]) => change[d].of # a
    BY <1>11 DEF Entering, Writing
  <2> QED BY <1>0, <2>1, <2>2, <2>3, <2>4 DEF EnterAlone
<1>13. ScoresFollow'
  <2>1. /\ \A d \in Changes \ {c} : change'[d] = change[d] /\ ~Rewriting(change[d], a)
        /\ ~\E b \in Annotations : Rewriting(change[c], b)
        /\ \A b \in Annotations : Rewriting(change'[c], b) <=> b = a
        /\ change'[c].version = 1 /\ change'[c].pc = "next"
    BY <1>1, <1>2, <1>5, <1>7, <1>11 DEF Moved, Rewriting, Writing, Entering
  <2>2. data'[a] = 1 /\ \A b \in Annotations \ {a} : data'[b] = data[b]
    BY <1>0, <1>1 DEF OutputTyped
  <2> QED BY <1>0, <1>1, <2>1, <2>2 DEF ScoresFollow
<1> QED BY <1>6, <1>8, <1>9, <1>10, <1>12, <1>13 DEF OutputInv

\* Another version of the data: if somebody is about to write scores, they have crossed.
LEMMA EditStep ==
  ASSUME OutputInv, NEW c \in Changes, NEW a \in Annotations, Edit(c, a) PROVE OutputInv'
<1> DEFINE row == [Begins(c, "edit", a) EXCEPT !.pc = "next", !.todo = Followed("edit"),
                                               !.version = data[a] + 1]
<1>0. OutputTyped /\ Shapes /\ NumbersOfReads /\ LatestIsRight /\ EnterAlone /\ ScoresFollow
  BY DEF OutputInv
<1>1. /\ change[c].pc = "idle" /\ change[c].todo = <<>> /\ itemLock # c /\ data[a] # 0
      /\ data' = [data EXCEPT ![a] = data[a] + 1]
      /\ crossed' = (IF Writers(a) # {} THEN crossed \union {a} ELSE crossed \ {a})
      /\ change' = [change EXCEPT ![c] = row]
      /\ UNCHANGED <<single, authority, itemLock, aggregate, scores, reads, stored, missed>>
  BY <1>0 DEF Edit, Shapes, Shape, OutputTyped
<1>2. /\ row \in ChangeRows /\ row.pc = "next" /\ row.todo = Followed("edit") /\ row.of = a
      /\ row.kind = "edit" /\ row.version = data[a] + 1 /\ row.read = 0
  <2> DEFINE todo == Followed("edit")
  <2>1. todo \in Todos BY FollowedSteps
  <2> HIDE DEF todo
  <2>2. data[a] + 1 \in Nat BY <1>0 DEF OutputTyped
  <2> DEFINE edit == [Begins(c, "edit", a) EXCEPT !.pc = "next", !.todo = todo,
                                                  !.version = data[a] + 1]
  <2>3. /\ edit \in ChangeRows /\ edit.pc = "next" /\ edit.todo = todo /\ edit.of = a
        /\ edit.kind = "edit" /\ edit.version = data[a] + 1 /\ edit.read = 0
    BY <2>1, <2>2, NothingToDo DEF Begins, NewChange, ChangeRows
  <2>4. edit = row BY DEF todo
  <2> HIDE DEF edit, row
  <2> QED BY <2>3, <2>4 DEF todo
<1> HIDE DEF row
<1>3. Moved(c, row) /\ Others(c) BY <1>0, <1>1, <1>2, MoveOf, MovedOthers
<1>4. OutputTyped' BY <1>0, <1>1, <1>3 DEF OutputTyped, Moved
<1>5. row.todo # <<>> /\ Holds(row.todo, "aggregate") /\ Holds(row.todo, "scores")
  BY <1>2, FollowedSteps
<1>6. Shapes' BY <1>0, <1>1, <1>2, <1>3, <1>5, ShapesMove DEF Moved, Shape
<1>7. NumbersOfReads' BY <1>0, <1>1, <1>2, <1>3, NumbersMove DEF Moved
<1>8. LatestIsRight' BY <1>2, <1>3, <1>5, LatestOwed DEF Moved, Owing
<1>9. data'[a] = data[a] + 1 /\ \A b \in Annotations \ {a} : data'[b] = data[b]
  BY <1>0, <1>1 DEF OutputTyped
<1>10. \A d \in Changes : Entering(change[d]) => change[d].of \in Annotations \ {a}
  BY <1>0, <1>1 DEF EnterAlone, Shapes, Shape, Entering
<1>11. EnterAlone'
  <2>1. ~Entering(change'[c]) BY <1>2, <1>3 DEF Moved, Entering
  <2>2. \A d \in Changes \ {c} : change'[d] = change[d] BY <1>3 DEF Moved
  <2>3. change'[c].of = a BY <1>2, <1>3 DEF Moved
  <2> QED BY <1>0, <1>9, <1>10, <2>1, <2>2, <2>3 DEF EnterAlone
<1>12. ScoresFollow'
  <2>1. /\ \A d \in Changes \ {c} : change'[d] = change[d]
        /\ ~\E b \in Annotations : Rewriting(change[c], b)
        /\ \A b \in Annotations : Rewriting(change'[c], b) <=> b = a
        /\ change'[c].version = data'[a] /\ change'[c].pc = "next"
    BY <1>1, <1>2, <1>3, <1>5, <1>9, NothingToDo DEF Moved, Rewriting, Writing, Entering
  <2>2. CASE Writers(a) # {}
    <3>1. crossed' = crossed \union {a} BY <1>1, <2>2
    <3> QED BY <1>0, <1>1, <1>9, <2>1, <3>1 DEF ScoresFollow
  <2>3. CASE Writers(a) = {}
    <3>1. crossed' = crossed \ {a} BY <1>1, <2>3
    <3>2. \A d \in Changes : ~Rewriting(change[d], a)
      BY <2>3 DEF Writers, Rewriting, Writing, Holds
    <3> QED BY <1>0, <1>1, <1>9, <2>1, <3>1, <3>2 DEF ScoresFollow
  <2> QED BY <2>2, <2>3
<1> QED BY <1>4, <1>6, <1>7, <1>8, <1>11, <1>12 DEF OutputInv

\* The annotations are read for the aggregate.
LEMMA ComputeStep ==
  ASSUME OutputInv, NEW c \in Changes, Compute(c) PROVE OutputInv'
<1> DEFINE row == [change[c] EXCEPT !.pc = "storing", !.value = Contributing, !.read = reads + 1]
<1>0. OutputTyped /\ Shapes /\ NumbersOfReads /\ LatestIsRight /\ EnterAlone /\ ScoresFollow
  BY DEF OutputInv
<1>1. /\ change[c].pc = "next" /\ Head(change[c].todo) = "aggregate" /\ change[c].todo # <<>>
      /\ itemLock # c /\ reads' = reads + 1
      /\ change' = [change EXCEPT ![c].pc = "storing", ![c].value = Contributing,
                                  ![c].read = reads + 1]
      /\ UNCHANGED <<single, data, authority, itemLock, aggregate, scores, stored, missed, crossed>>
  BY <1>0 DEF Compute, NextIs, Shapes, Shape
<1>2. Contributing \in SUBSET (Annotations \X Nat) /\ reads + 1 \in Nat
  BY <1>0 DEF Contributing, Submitted, OutputTyped
<1>3. /\ row \in ChangeRows /\ row.pc = "storing" /\ row.value = Contributing
      /\ row.read = reads + 1 /\ row.todo = change[c].todo /\ row.of = change[c].of
      /\ row.kind = change[c].kind
      /\ row.version = change[c].version /\ row.beaten = change[c].beaten
      /\ change' = [change EXCEPT ![c] = row]
  <2> DEFINE value == Contributing
  <2> HIDE DEF value
  <2>1. value \in SUBSET (Annotations \X Nat) BY <1>2 DEF value
  <2>2. \A r \in ChangeRows : [r EXCEPT !.pc = "storing"] \in ChangeRows BY DEF ChangeRows
  <2>3. \A r \in ChangeRows : [r EXCEPT !.value = value] \in ChangeRows BY <2>1 DEF ChangeRows
  <2>4. \A r \in ChangeRows : [r EXCEPT !.read = reads + 1] \in ChangeRows
    BY <1>2 DEF ChangeRows
  <2>5. \A r \in ChangeRows :
          [r EXCEPT !.pc = "storing", !.value = value, !.read = reads + 1] =
            [[[r EXCEPT !.pc = "storing"] EXCEPT !.value = value] EXCEPT !.read = reads + 1]
    BY DEF ChangeRows
  <2>6. row = [change[c] EXCEPT !.pc = "storing", !.value = value, !.read = reads + 1]
    BY DEF value
  <2>7. change' = [change EXCEPT ![c].pc = "storing", ![c].value = value, ![c].read = reads + 1]
    BY <1>1 DEF value
  <2> HIDE DEF row
  <2>8. change[c] \in ChangeRows BY <1>0 DEF OutputTyped
  <2>9. row \in ChangeRows BY <2>2, <2>3, <2>4, <2>5, <2>6, <2>8
  <2>10. /\ row.pc = "storing" /\ row.value = value
         /\ row.read = reads + 1 /\ row.todo = change[c].todo /\ row.of = change[c].of
         /\ row.kind = change[c].kind
         /\ row.version = change[c].version /\ row.beaten = change[c].beaten
    BY <2>6, <2>8 DEF ChangeRows
  <2>11. change' = [change EXCEPT ![c] = row] BY <1>0, <2>6, <2>7 DEF OutputTyped
  <2> QED BY <2>9, <2>10, <2>11 DEF value
<1> HIDE DEF row
<1>4. Moved(c, row) /\ Others(c) BY <1>0, <1>3, MoveOf, MovedOthers
<1>5. OutputTyped' BY <1>0, <1>1, <1>2, <1>4 DEF OutputTyped, Moved
<1>6. Shapes' BY <1>0, <1>1, <1>3, <1>4, ShapesMove DEF Moved, Shapes, Shape
<1>7. NumbersOfReads'
  <2>1. \A d \in Changes \ {c} : change'[d].read \in Nat /\ change'[d].read <= reads
    BY <1>0, <1>4 DEF Moved, NumbersOfReads, OutputTyped, ChangeRows
  <2>2. change'[c].read <= reads' BY <1>0, <1>1, <1>3, <1>4 DEF Moved, OutputTyped
  <2> QED BY <1>0, <1>1, <2>1, <2>2 DEF NumbersOfReads, OutputTyped
<1>8. LatestIsRight'
  <2>1. stored' # reads' BY <1>0, <1>1 DEF NumbersOfReads, OutputTyped
  <2>2. \A d \in Changes \ {c} : change'[d].read # reads'
    BY <1>0, <1>1, <1>4 DEF Moved, NumbersOfReads, OutputTyped, ChangeRows
  <2>3. change'[c].value = Contributing' BY <1>1, <1>3, <1>4, SameContributing DEF Moved
  <2> QED BY <2>1, <2>2, <2>3 DEF LatestIsRight
<1>9. ScoresQuiet(c)
  BY <1>1, <1>3, <1>4 DEF ScoresQuiet, SameWriter, Writing, Entering, Moved
<1> QED BY <1>0, <1>5, <1>6, <1>7, <1>8, <1>9, ScoresStay DEF OutputInv

\* Work proceeds to what is next.
Further(c, row) ==
  /\ row \in ChangeRows /\ row.todo = Tail(change[c].todo)
  /\ row.pc = (IF row.todo = <<>> THEN "done" ELSE "next")
  /\ row.kind = change[c].kind /\ row.of = change[c].of /\ row.version = change[c].version
  /\ row.read = change[c].read

LEMMA FurtherRow ==
  ASSUME OutputTyped, NEW c \in Changes, change[c].todo # <<>>
  PROVE  \E row \in ChangeRows :
           /\ Further(c, row)
           /\ [change EXCEPT ![c].todo = Tail(@),
                             ![c].pc = IF Len(change[c].todo) = 1 THEN "done" ELSE "next"]
                = [change EXCEPT ![c] = row]
<1> DEFINE rest == Tail(change[c].todo)
<1> DEFINE pc == IF Len(change[c].todo) = 1 THEN "done" ELSE "next"
<1>1. change[c] \in ChangeRows /\ change \in [Changes -> ChangeRows] BY DEF OutputTyped
<1>2. rest \in Todos /\ pc = (IF rest = <<>> THEN "done" ELSE "next")
  <2>1. change[c].todo \in Todos BY <1>1 DEF ChangeRows
  <2> QED BY <2>1, TodoSteps
<1>3. [change EXCEPT ![c].todo = Tail(@),
                     ![c].pc = IF Len(change[c].todo) = 1 THEN "done" ELSE "next"]
        = [change EXCEPT ![c] = [change[c] EXCEPT !.todo = rest, !.pc = pc]]
  BY <1>1
<1> DEFINE row == [change[c] EXCEPT !.todo = rest, !.pc = pc]
<1> HIDE DEF rest
<1>4. pc \in {"done", "next"} BY <1>2
<1> HIDE DEF pc
<1>5. \A r \in ChangeRows : [r EXCEPT !.todo = rest] \in ChangeRows BY <1>2 DEF ChangeRows
<1>6. \A r \in ChangeRows : [r EXCEPT !.pc = pc] \in ChangeRows BY <1>4 DEF ChangeRows
<1>7. \A r \in ChangeRows :
        [r EXCEPT !.todo = rest, !.pc = pc] = [[r EXCEPT !.todo = rest] EXCEPT !.pc = pc]
  BY DEF ChangeRows
<1>8. row \in ChangeRows BY <1>1, <1>5, <1>6, <1>7
<1>9. /\ row.todo = rest /\ row.pc = pc
      /\ row.kind = change[c].kind /\ row.of = change[c].of /\ row.version = change[c].version
      /\ row.read = change[c].read
  BY <1>1 DEF ChangeRows
<1> HIDE DEF row
<1>10. Further(c, row) BY <1>2, <1>8, <1>9 DEF Further, rest
<1> QED BY <1>3, <1>8, <1>10 DEF row

\* The aggregate is stored.
LEMMA StoreStep ==
  ASSUME OutputInv, NEW c \in Changes, Store(c) PROVE OutputInv'
<1>0. OutputTyped /\ Shapes /\ NumbersOfReads /\ LatestIsRight /\ EnterAlone /\ ScoresFollow
  BY DEF OutputInv
<1>1. /\ change[c].pc = "storing" /\ change[c].todo # <<>> /\ Head(change[c].todo) = "aggregate"
      /\ itemLock # c /\ aggregate' = change[c].value /\ stored' = change[c].read
      /\ UNCHANGED <<single, data, authority, itemLock, scores, reads, missed, crossed>>
  BY <1>0 DEF Store, Shapes, Shape
<1>2. PICK row \in ChangeRows : Further(c, row) /\ change' = [change EXCEPT ![c] = row]
  BY <1>0, <1>1, FurtherRow DEF Store, Proceeds
<1>3. Moved(c, row) /\ Others(c) BY <1>0, <1>2, MoveOf, MovedOthers
<1>4. change[c] \in ChangeRows /\ change[c].todo \in Todos BY <1>0 DEF OutputTyped, ChangeRows
<1>5. OutputTyped' BY <1>0, <1>1, <1>3, <1>4 DEF OutputTyped, Moved, ChangeRows
<1>6. ~Holds(row.todo, "aggregate") /\ (Holds(row.todo, "scores") <=> Holds(change[c].todo, "scores"))
  BY <1>1, <1>2, <1>4, TodoSteps DEF Further
<1>7. Shapes' BY <1>0, <1>1, <1>2, <1>3, <1>6, ShapesMove, NothingToDo
              DEF Moved, Shapes, Shape, Further
<1>8. NumbersOfReads'
  <2>1. stored' <= reads' BY <1>0, <1>1 DEF NumbersOfReads
  <2> QED BY <1>0, <1>1, <1>2, <1>3, <2>1 DEF NumbersOfReads, Moved, Further
<1>9. LatestIsRight'
  <2>1. \A d \in Changes : Owing(change'[d]) <=> Owing(change[d])
    BY <1>1, <1>2, <1>3, <1>6 DEF Moved, Further, Owing
  <2>2. Contributing' = Contributing BY <1>1, SameContributing
  <2>3. change'[c].pc # "storing" BY <1>2, <1>3 DEF Moved, Further
  <2> QED BY <1>0, <1>1, <1>3, <2>1, <2>2, <2>3 DEF LatestIsRight, Moved
<1>10. ScoresQuiet(c)
  BY <1>1, <1>2, <1>3, <1>6 DEF ScoresQuiet, SameWriter, Writing, Entering, Moved, Further
<1> QED BY <1>0, <1>5, <1>7, <1>8, <1>9, <1>10, ScoresStay DEF OutputInv

\* The scores that are seen are deleted.
LEMMA DeleteScoresStep ==
  ASSUME OutputInv, NEW c \in Changes, DeleteScores(c) PROVE OutputInv'
<1> DEFINE row == [change[c] EXCEPT !.pc = "replacing", !.beaten = FALSE]
<1>0. OutputTyped /\ Shapes /\ NumbersOfReads /\ LatestIsRight /\ EnterAlone /\ ScoresFollow
  BY DEF OutputInv
<1>1. /\ change[c].pc = "next" /\ Head(change[c].todo) = "scores" /\ change[c].todo # <<>>
      /\ itemLock # c /\ change[c].todo \in Todos
      /\ UNCHANGED <<single, data, authority, itemLock, aggregate, scores, reads, stored,
                     missed, crossed>>
  BY <1>0 DEF DeleteScores, NextIs, Shapes, Shape, OutputTyped, ChangeRows
<1>2. /\ row \in ChangeRows /\ row.pc = "replacing" /\ row.kind = change[c].kind
      /\ row.of = change[c].of /\ row.todo = change[c].todo
      /\ row.version = change[c].version /\ ~row.beaten /\ row.read = change[c].read
  <2>1. change[c] \in ChangeRows BY <1>0 DEF OutputTyped
  <2>2. \A r \in ChangeRows : [r EXCEPT !.pc = "replacing"] \in ChangeRows BY DEF ChangeRows
  <2>3. \A r \in ChangeRows : [r EXCEPT !.beaten = FALSE] \in ChangeRows BY DEF ChangeRows
  <2>4. \A r \in ChangeRows :
          [r EXCEPT !.pc = "replacing", !.beaten = FALSE] =
            [[r EXCEPT !.pc = "replacing"] EXCEPT !.beaten = FALSE]
    BY DEF ChangeRows
  <2>5. row \in ChangeRows BY <2>1, <2>2, <2>3, <2>4
  <2> QED BY <2>1, <2>5 DEF ChangeRows
<1>3. change' = [change EXCEPT ![c] = row] BY <1>0 DEF DeleteScores, OutputTyped
<1> HIDE DEF row
<1>4. Moved(c, row) /\ Others(c) BY <1>0, <1>2, <1>3, MoveOf, MovedOthers
<1>5. OutputTyped' BY <1>0, <1>1, <1>4 DEF OutputTyped, Moved
<1>6. Holds(change[c].todo, "scores") BY <1>1, TodoSteps
<1>7. change[c].of \in Annotations BY <1>0, <1>6 DEF Shapes, Shape
<1>8. Shapes' BY <1>0, <1>1, <1>2, <1>4, <1>7, ShapesMove DEF Moved, Shape
<1>9. NumbersOfReads' BY <1>0, <1>1, <1>2, <1>4, NumbersMove DEF Moved
<1>10. LatestQuiet(c)
  BY <1>1, <1>2, <1>4, SameContributing DEF LatestQuiet, Moved, Owing
<1>11. LatestIsRight' BY <1>0, <1>4, <1>10, LatestStays
<1>12. ScoresQuiet(c)
  BY <1>1, <1>2, <1>4, <1>6 DEF ScoresQuiet, SameWriter, Writing, Entering, Moved
<1> QED BY <1>0, <1>5, <1>8, <1>9, <1>11, <1>12, ScoresStay DEF OutputInv

-----------------------------------------------------------------------------
\* What a request that has just written its scores leaves to others.
LEMMA BeatsOthers ==
  ASSUME OutputTyped, NEW c \in Changes, NEW row \in ChangeRows,
         change' = Beats(c, [change EXCEPT ![c] = row])
  PROVE  /\ change' \in [Changes -> ChangeRows] /\ change'[c] = row /\ Others(c)
         /\ \A d \in Changes \ {c} :
              change'[d].beaten # change[d].beaten => change[d].of = change[c].of
<1>0. change \in [Changes -> ChangeRows] BY DEF OutputTyped
<1> DEFINE moved == [change EXCEPT ![c] = row]
<1>1. moved \in [Changes -> ChangeRows] /\ moved[c] = row
      /\ \A d \in Changes \ {c} : moved[d] = change[d]
  BY <1>0
<1>2. change' = Beats(c, moved) OBVIOUS
<1> HIDE DEF moved
<1>3. \A r \in ChangeRows, b \in BOOLEAN : [r EXCEPT !.beaten = b] \in ChangeRows
  BY DEF ChangeRows
<1>4. change'[c] = row BY <1>1, <1>2 DEF Beats
<1>5. \A d \in Changes \ {c} :
        \/ change'[d] = change[d]
        \/ /\ change'[d] = [change[d] EXCEPT !.beaten = change[d].beaten \/ ~change[c].beaten]
           /\ change[d].pc = "replacing" /\ change[d].of = change[c].of
  BY <1>1, <1>2 DEF Beats
<1>6. \A d \in Changes : change'[d] \in ChangeRows
  <2>1. \A d \in Changes : (change[d].beaten \/ ~change[c].beaten) \in BOOLEAN OBVIOUS
  <2>2. \A d \in Changes :
          [change[d] EXCEPT !.beaten = change[d].beaten \/ ~change[c].beaten] \in ChangeRows
    BY <1>0, <1>3, <2>1
  <2> QED BY <1>0, <1>4, <1>5, <2>2
<1>7. change' = [d \in Changes |-> change'[d]] BY <1>2 DEF Beats
<1>8. change' \in [Changes -> ChangeRows] BY <1>6, <1>7
<1>9. ASSUME NEW d \in Changes \ {c}
      PROVE  /\ change'[d].pc = change[d].pc /\ change'[d].kind = change[d].kind
             /\ change'[d].of = change[d].of /\ change'[d].todo = change[d].todo
             /\ change'[d].version = change[d].version
             /\ change'[d].value = change[d].value /\ change'[d].read = change[d].read
             /\ change'[d].beaten # change[d].beaten =>
                  change[d].pc = "replacing" /\ change[d].of = change[c].of
  <2>1. change[d] \in ChangeRows BY <1>0
  <2> QED BY <1>5, <2>1 DEF ChangeRows
<1> QED BY <1>4, <1>8, <1>9 DEF Others

\* Scores are written: those of the data, unless somebody has crossed.
Wrote(c) ==
  /\ Others(c)
  /\ \A d \in Changes \ {c} :
       change'[d].beaten # change[d].beaten => change[d].of = change[c].of
  /\ change[c].pc = "replacing" /\ change'[c].pc \in {"next", "done"}
  /\ ~Writing(change'[c])
  /\ ReplacedScores(c) /\ UNCHANGED <<data, crossed>>

LEMMA ScoresWritten ==
  ASSUME OutputTyped, EnterAlone, ScoresFollow, NEW c \in Changes, Wrote(c)
  PROVE  EnterAlone' /\ ScoresFollow'
<1>1. \A d \in Changes \ {c} : /\ Writing(change'[d]) <=> Writing(change[d])
                               /\ Entering(change'[d]) <=> Entering(change[d])
                               /\ change'[d].of = change[d].of
  BY DEF Wrote, Others, Writing, Entering
<1>2. ~Entering(change'[c]) /\ ~Writing(change'[c]) BY DEF Wrote, Entering
<1>3. EnterAlone' BY <1>1, <1>2 DEF EnterAlone, Wrote
<1>4. \A a \in Annotations : Rewriting(change[c], a) <=> change[c].of = a
  BY DEF Wrote, Rewriting, Writing, Entering
<1>5. \A d \in Changes, a \in Annotations :
        Rewriting(change'[d], a) <=> Rewriting(change[d], a) /\ d # c
  BY <1>1, <1>2 DEF Rewriting
<1>6. ASSUME NEW a \in Annotations \ crossed
      PROVE  /\ \A d \in Changes : Rewriting(change'[d], a) =>
                  /\ change'[d].version = data[a]
                  /\ change'[d].pc = "replacing" /\ change'[d].beaten => scores'[a] = data[a]
             /\ scores'[a] = data[a] \/ \E d \in Changes : Rewriting(change'[d], a)
  <2>1. \A d \in Changes : Rewriting(change[d], a) =>
          /\ change[d].version = data[a]
          /\ change[d].pc = "replacing" /\ change[d].beaten => scores[a] = data[a]
    BY DEF ScoresFollow
  <2>2. \A d \in Changes : Rewriting(change'[d], a) => change'[d].version = data[a]
    BY <1>5, <2>1 DEF Wrote, Others
  <2>3. CASE change[c].of = a
    <3>1. scores'[a] = data[a]
      <4>1. change[c].version = data[a] BY <1>4, <2>1, <2>3
      <4>2. CASE change[c].beaten BY <1>4, <2>1, <2>3, <4>2 DEF Wrote, ReplacedScores
      <4>3. CASE ~change[c].beaten
        BY <2>3, <4>1, <4>3 DEF Wrote, ReplacedScores, OutputTyped
      <4> QED BY <4>2, <4>3
    <3> QED BY <2>2, <3>1
  <2>4. CASE change[c].of # a
    <3>1. scores'[a] = scores[a] BY <2>4 DEF Wrote, ReplacedScores, OutputTyped
    <3>2. \A d \in Changes : Rewriting(change'[d], a) =>
            change'[d].beaten = change[d].beaten /\ change'[d].pc = change[d].pc
      BY <1>5, <2>4 DEF Wrote, Others, Rewriting
    <3>3. \A d \in Changes : Rewriting(change[d], a) => Rewriting(change'[d], a)
      BY <1>4, <1>5, <2>4
    <3>4. scores[a] = data[a] \/ \E d \in Changes : Rewriting(change[d], a)
      BY DEF ScoresFollow
    <3> QED BY <1>5, <2>1, <2>2, <3>1, <3>2, <3>3, <3>4
  <2> QED BY <2>3, <2>4
<1>7. ScoresFollow' BY <1>6 DEF ScoresFollow, Wrote
<1> QED BY <1>3, <1>7

LEMMA ScoresTyped ==
  ASSUME OutputTyped, NEW c \in Changes, ReplacedScores(c)
  PROVE  scores' \in [Annotations -> Nat]
BY DEF OutputTyped, ReplacedScores, ChangeRows

LEMMA CreateScoresStep ==
  ASSUME OutputInv, NEW c \in Changes, CreateScores(c) PROVE OutputInv'
<1>0. OutputTyped /\ Shapes /\ NumbersOfReads /\ LatestIsRight /\ EnterAlone /\ ScoresFollow
  BY DEF OutputInv
<1>1. /\ change[c].pc = "replacing" /\ change[c].todo # <<>> /\ Head(change[c].todo) = "scores"
      /\ itemLock # c /\ change[c].todo \in Todos /\ ReplacedScores(c)
      /\ UNCHANGED <<single, data, authority, itemLock, aggregate, reads, stored, missed, crossed>>
  BY <1>0 DEF CreateScores, Shapes, Shape, OutputTyped, ChangeRows
<1>2. PICK row \in ChangeRows :
        /\ Further(c, row)
        /\ change' = Beats(c, [change EXCEPT ![c] = row])
  BY <1>0, <1>1, FurtherRow DEF CreateScores
<1>3. /\ change' \in [Changes -> ChangeRows] /\ change'[c] = row /\ Others(c)
      /\ \A d \in Changes \ {c} :
           change'[d].beaten # change[d].beaten => change[d].of = change[c].of
  BY <1>0, <1>2, BeatsOthers
<1>4. OutputTyped' BY <1>0, <1>1, <1>3, ScoresTyped DEF OutputTyped
<1>5. ~Holds(row.todo, "scores") /\ (Holds(row.todo, "aggregate") <=> Holds(change[c].todo, "aggregate"))
  BY <1>1, <1>2, TodoSteps DEF Further
<1>6. Shapes' BY <1>0, <1>1, <1>2, <1>3, <1>5, ShapesMove, NothingToDo DEF Shape, Further
<1>7. NumbersOfReads' BY <1>0, <1>1, <1>2, <1>3, NumbersMove DEF Further
<1>8. LatestQuiet(c)
  BY <1>1, <1>2, <1>3, <1>5, SameContributing DEF LatestQuiet, Owing, Further
<1>9. LatestIsRight' BY <1>0, <1>3, <1>8, LatestStays
<1>10. Wrote(c) BY <1>1, <1>2, <1>3, <1>5 DEF Wrote, Writing, Further
<1> QED BY <1>0, <1>4, <1>6, <1>7, <1>9, <1>10, ScoresWritten DEF OutputInv

LEMMA CommitMarkStep ==
  ASSUME OutputInv, NEW c \in Changes, CommitMark(c) PROVE OutputInv'
<1> DEFINE row == [change[c] EXCEPT !.pc = "next", !.todo = Followed(change[c].kind)]
<1>0. OutputTyped /\ Shapes /\ NumbersOfReads /\ LatestIsRight /\ EnterAlone /\ ScoresFollow
  BY DEF OutputInv
<1>1. /\ change[c].pc = "replacing" /\ change[c].todo = <<>> /\ change[c].of \in Annotations
      /\ change[c].kind \in {"mark", "unmark"} /\ itemLock = c /\ itemLock' = NoChange
      /\ ReplacedScores(c)
      /\ UNCHANGED <<single, data, aggregate, reads, stored, missed, crossed>>
  BY <1>0 DEF CommitMark, Shapes, Shape
<1>2. row \in ChangeRows /\ change' = Beats(c, [change EXCEPT ![c] = row])
  BY <1>0, FollowsUp DEF CommitMark
<1>3. /\ row.pc = "next" /\ row.todo = Followed(change[c].kind) /\ row.of = change[c].of
      /\ row.read = change[c].read
  BY <1>0 DEF OutputTyped, ChangeRows
<1> HIDE DEF row
<1>4. /\ change' \in [Changes -> ChangeRows] /\ change'[c] = row /\ Others(c)
      /\ \A d \in Changes \ {c} :
           change'[d].beaten # change[d].beaten => change[d].of = change[c].of
  BY <1>0, <1>2, BeatsOthers
<1>5. authority' \in [of : Annotations \union {NoAnnotation}, auto : BOOLEAN]
  BY <1>0, <1>1 DEF CommitMark, OutputTyped, Nobody
<1>6. OutputTyped' BY <1>0, <1>1, <1>4, <1>5, ScoresTyped DEF OutputTyped
<1>7. row.todo # <<>> /\ Holds(row.todo, "aggregate") /\ ~Holds(row.todo, "scores")
  BY <1>1, <1>3, FollowedSteps
<1>8. Shapes' BY <1>0, <1>1, <1>3, <1>4, <1>7, ShapesMove, OutputConstants DEF Shape
<1>9. NumbersOfReads' BY <1>0, <1>1, <1>3, <1>4, NumbersMove
<1>10. LatestIsRight' BY <1>3, <1>4, <1>7, LatestOwed DEF Owing
<1>11. Wrote(c) BY <1>1, <1>3, <1>4, <1>7 DEF Wrote, Writing
<1> QED BY <1>0, <1>6, <1>8, <1>9, <1>10, <1>11, ScoresWritten DEF OutputInv

\* What was to follow is missed, and its annotation has crossed.
LEMMA LapseStep ==
  ASSUME OutputInv, NEW c \in Changes, Lapse(c) PROVE OutputInv'
<1>0. OutputTyped /\ Shapes /\ NumbersOfReads /\ LatestIsRight /\ EnterAlone /\ ScoresFollow
  BY DEF OutputInv
<1>1. /\ change[c].pc \in {"next", "storing", "replacing"} /\ change[c].todo # <<>>
      /\ itemLock # c /\ change[c].todo \in Todos /\ missed' = reads
      /\ crossed' = crossed \union ({change[c].of} \intersect Annotations)
      /\ UNCHANGED <<single, data, authority, itemLock, aggregate, scores, reads, stored>>
  BY <1>0 DEF Lapse, Shapes, Shape, OutputTyped, ChangeRows
<1>2. \E row \in ChangeRows :
        /\ change' = [change EXCEPT ![c] = row]
        /\ row.pc = (IF row.todo = <<>> THEN "done" ELSE "next")
        /\ row.of = change[c].of /\ row.read = change[c].read
        /\ Holds(row.todo, "scores") => Holds(change[c].todo, "scores")
  <2>1. CASE Proceeds(c)
    <3>1. PICK row \in ChangeRows : Further(c, row) /\ change' = [change EXCEPT ![c] = row]
      BY <1>0, <1>1, <2>1, FurtherRow DEF Proceeds
    <3>2. Holds(row.todo, "scores") => Holds(change[c].todo, "scores")
      BY <1>1, <3>1, TodoSteps DEF Further
    <3> QED BY <3>1, <3>2 DEF Further
  <2>2. CASE change' = [change EXCEPT ![c].todo = <<>>, ![c].pc = "done"]
    <3> DEFINE row == [change[c] EXCEPT !.todo = <<>>, !.pc = "done"]
    <3>1. change[c] \in ChangeRows /\ change \in [Changes -> ChangeRows] BY <1>0 DEF OutputTyped
    <3>2. \A r \in ChangeRows : [r EXCEPT !.todo = <<>>] \in ChangeRows
      BY NothingToDo DEF ChangeRows
    <3>3. \A r \in ChangeRows : [r EXCEPT !.pc = "done"] \in ChangeRows BY DEF ChangeRows
    <3>4. \A r \in ChangeRows :
            [r EXCEPT !.todo = <<>>, !.pc = "done"] =
              [[r EXCEPT !.todo = <<>>] EXCEPT !.pc = "done"]
      BY DEF ChangeRows
    <3>5. row \in ChangeRows BY <3>1, <3>2, <3>3, <3>4
    <3>6. /\ row.todo = <<>> /\ row.pc = "done"
          /\ row.of = change[c].of /\ row.read = change[c].read
      BY <3>1 DEF ChangeRows
    <3>7. change' = [change EXCEPT ![c] = row] BY <2>2, <3>1
    <3> HIDE DEF row
    <3> QED BY <3>5, <3>6, <3>7, NothingToDo
  <2> QED BY <2>1, <2>2 DEF Lapse
<1>3. PICK row \in ChangeRows :
        /\ change' = [change EXCEPT ![c] = row]
        /\ row.pc = (IF row.todo = <<>> THEN "done" ELSE "next")
        /\ row.of = change[c].of /\ row.read = change[c].read
        /\ Holds(row.todo, "scores") => Holds(change[c].todo, "scores")
  BY <1>2
<1>4. Moved(c, row) /\ Others(c) BY <1>0, <1>3, MoveOf, MovedOthers
<1>5. OutputTyped' BY <1>0, <1>1, <1>4 DEF OutputTyped, Moved
<1>6. Shapes' BY <1>0, <1>1, <1>3, <1>4, ShapesMove DEF Moved, Shapes, Shape
<1>7. NumbersOfReads' BY <1>0, <1>1, <1>3, <1>4, NumbersMove DEF Moved
<1>8. LatestIsRight' BY <1>0, <1>1, LatestMissed
<1>9. ~Entering(change'[c]) /\ (Writing(change'[c]) => Writing(change[c])) /\ change'[c].of = change[c].of
      /\ \A d \in Changes \ {c} : change'[d] = change[d]
  BY <1>3, <1>4 DEF Moved, Entering, Writing
<1>10. EnterAlone' BY <1>0, <1>1, <1>9 DEF EnterAlone
<1>11. ScoresFollow'
  <2>1. \A a \in Annotations \ crossed' :
          a \notin crossed /\ ~Rewriting(change[c], a) /\ ~Rewriting(change'[c], a)
    BY <1>1, <1>9 DEF Rewriting
  <2>2. /\ UNCHANGED <<data, scores>> /\ \A d \in Changes \ {c} : change'[d] = change[d]
    BY <1>1, <1>9
  <2> SUFFICES ASSUME NEW a \in Annotations \ crossed'
               PROVE  /\ \A d \in Changes : Rewriting(change'[d], a) =>
                           /\ change'[d].version = data[a]
                           /\ change'[d].pc = "replacing" /\ change'[d].beaten
                                => scores[a] = data[a]
                      /\ scores[a] = data[a] \/ \E d \in Changes : Rewriting(change'[d], a)
    BY <2>2 DEF ScoresFollow
  <2> QED BY <1>0, <2>1, <2>2 DEF ScoresFollow
<1> QED BY <1>5, <1>6, <1>7, <1>8, <1>10, <1>11 DEF OutputInv

LEMMA OutputStep == OutputInv /\ [OutputNext]_outputVars => OutputInv'
<1> SUFFICES ASSUME OutputInv, [OutputNext]_outputVars PROVE OutputInv' OBVIOUS
<1>1. ASSUME NEW c \in Changes, NEW a \in Annotations, LoadItem(c, a) PROVE OutputInv'
  BY <1>1, LoadItemStep
<1>2. ASSUME NEW c \in Changes, NEW a \in Annotations, Edit(c, a) PROVE OutputInv'
  BY <1>2, EditStep
<1>3. ASSUME NEW c \in Changes, NEW a \in Annotations, NEW kind \in {"mark", "unmark"},
             LoadMark(c, a, kind)
      PROVE  OutputInv'
  BY <1>3, LoadMarkStep
<1>4. ASSUME NEW c \in Changes, Submit(c) PROVE OutputInv' BY <1>4, SubmitStep
<1>5. ASSUME NEW c \in Changes, StartMark(c) PROVE OutputInv' BY <1>5, StartMarkStep
<1>6. ASSUME NEW c \in Changes, CommitMark(c) PROVE OutputInv' BY <1>6, CommitMarkStep
<1>7. ASSUME NEW c \in Changes, SaveRequired(c) PROVE OutputInv' BY <1>7, SaveRequiredStep
<1>8. ASSUME NEW c \in Changes, ResyncRaise(c) PROVE OutputInv' BY <1>8, ResyncRaiseStep
<1>9. ASSUME NEW c \in Changes, MarkLone(c) PROVE OutputInv' BY <1>9, MarkLoneStep
<1>10. ASSUME NEW c \in Changes, CommitLone(c) PROVE OutputInv' BY <1>10, CommitLoneStep
<1>11. ASSUME NEW c \in Changes, Compute(c) PROVE OutputInv' BY <1>11, ComputeStep
<1>12. ASSUME NEW c \in Changes, Store(c) PROVE OutputInv' BY <1>12, StoreStep
<1>13. ASSUME NEW c \in Changes, DeleteScores(c) PROVE OutputInv' BY <1>13, DeleteScoresStep
<1>14. ASSUME NEW c \in Changes, CreateScores(c) PROVE OutputInv' BY <1>14, CreateScoresStep
<1>15. ASSUME NEW c \in Changes, Lapse(c) PROVE OutputInv' BY <1>15, LapseStep
<1>16. CASE UNCHANGED outputVars
  <2>1. Contributing' = Contributing BY <1>16, SameContributing DEF outputVars
  <2> QED
    BY <1>16, <2>1 DEF outputVars, OutputInv, OutputTyped, Shapes, NumbersOfReads, LatestIsRight,
       EnterAlone, ScoresFollow
<1> QED
  BY <1>1, <1>2, <1>3, <1>4, <1>5, <1>6, <1>7, <1>8, <1>9, <1>10, <1>11, <1>12, <1>13, <1>14,
     <1>15, <1>16 DEF OutputNext

\* The aggregate and the scores of an item follow its annotations (human_annotations/aggregation.py
\* and assessments/score_writers.py), whatever requests submit, edit, mark and recompute meanwhile.
THEOREM OutputsFollow == OutputSpec => []OutputsAreCurrent
<1>1. OutputSpec => []OutputInv BY OutputInitInv, OutputStep, PTL DEF OutputSpec
<1> QED BY <1>1, OutputInvImplies, PTL
=============================================================================
