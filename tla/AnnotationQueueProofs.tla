------------------------ MODULE AnnotationQueueProofs ------------------------
(***************************************************************************)
(* Proofs about AnnotationQueue, for every set of items, reviewers,        *)
(* requests and admins.                                                    *)
(***************************************************************************)
EXTENDS AnnotationQueue, FiniteSetTheorems, TLAPS

LEMMA ItemsAreNonzero == Items \subseteq Nat /\ 0 \notin Items
  BY ItemsAreIds

LEMMA StatusIsStatus ==
  ASSUME NEW c, NEW n, NEW b PROVE ItemStatus(c, n, b) \in Statuses
  BY DEF ItemStatus, Statuses

LEMMA CountIsNat ==
  ASSUME NEW S, S \subseteq Reviewers PROVE Cardinality(S) \in Nat
  BY FiniteReviewers, FS_Subset, FS_CardinalityType

LEMMA NextStatusIsStatus ==
  ASSUME NEW i, NEW c, NEW b PROVE NextStatus(i, c, b) \in Statuses
  BY StatusIsStatus DEF NextStatus, Statuses

\* Every assignment of an action keeps a request in its type.
LEMMA RequestEdits ==
  ASSUME NEW t \in Request
  PROVE  /\ IdleRequest \in Request
         /\ \A i \in Items, r \in Reviewers :
              [IdleRequest EXCEPT !.pc = "submitting", !.item = i, !.reviewer = r] \in Request
         /\ \A i \in Items, r \in Reviewers, v \in {"plain", "picked"} :
              [IdleRequest EXCEPT !.pc = "picking", !.item = i, !.reviewer = r, !.value = v] \in Request
         /\ \A i \in Items, s \in Statuses :
              [IdleRequest EXCEPT !.pc = "unflagging", !.item = i, !.status = s] \in Request
         /\ \A v \in {"plain", "auto"} : [t EXCEPT !.pc = "inserting", !.value = v] \in Request
         /\ \A c \in Nat, s \in Statuses :
              [t EXCEPT !.pc = "committing", !.count = c, !.status = s] \in Request
         /\ [t EXCEPT !.pc = "choosing"] \in Request
<1>1. IdleRequest \in Request
  BY DEF IdleRequest, Request, Statuses
<1>2. QED BY <1>1 DEF Request

\* Likewise for a form.
LEMMA FormEdits ==
  ASSUME NEW f \in Form
  PROVE  /\ IdleForm \in Form
         /\ \A base, needed \in 1..MaxRequired :
              [IdleForm EXCEPT !.pc = "saving", !.base = base, !.needed = needed] \in Form
         /\ [f EXCEPT !.pc = "marking"] \in Form
         /\ \A touched \in SUBSET Pairs : [f EXCEPT !.pc = "listing", !.touched = touched] \in Form
         /\ \A todo, seen \in SUBSET Items :
              [f EXCEPT !.pc = "locking", !.todo = todo, !.seen = seen] \in Form
         /\ \A todo, locked \in SUBSET Items :
              [f EXCEPT !.todo = todo, !.locked = locked] \in Form
<1>1. IdleForm \in Form
  BY RequiredRange DEF IdleForm, Form
<1>2. QED BY <1>1 DEF Form

\* The three ways a request or a form moves, and what trouble notes.
LEMMA TroubleType ==
  ASSUME TypeOK, NEW b PROVE Worsened(b) \in {"none", "overlap", "crash"}
  BY DEF TypeOK, Worsened

LEMMA TypeInit == Init => TypeOK
<1> SUFFICES ASSUME Init PROVE TypeOK
  OBVIOUS
<1>1. /\ request \in [Requests -> Request]
      /\ form \in [Admins -> Form]
  BY RequiredRange DEF Init, IdleRequest, Request, IdleForm, Form, Statuses
<1>2. QED BY <1>1 DEF Init, TypeOK

LEMMA TypeStep == ASSUME TypeOK, [Next]_vars PROVE TypeOK'
<1> USE DEF TypeOK, rows, NotesForms, NotesOthers, Finish
<1>1. ASSUME NEW i \in Items, AddItem(i) \/ RemoveItem(i) \/ FlagItem(i) PROVE TypeOK'
  <2>1. CASE AddItem(i)
    BY <2>1, TroubleType DEF AddItem, Statuses
  <2>2. CASE RemoveItem(i)
    BY <2>2, TroubleType DEF RemoveItem
  <2>3. CASE FlagItem(i)
    BY <2>3, TroubleType DEF FlagItem, Statuses
  <2>4. QED BY <1>1, <2>1, <2>2, <2>3
<1>2. ASSUME NEW q \in Requests, NEW i \in Items, UnflagLocks(q, i) PROVE TypeOK'
  BY <1>2, TroubleType, RequestEdits, StatusIsStatus DEF UnflagLocks
<1>3. ASSUME NEW q \in Requests, NEW i \in Items, NEW r \in Reviewers, SubmitStarts(q, i, r)
      PROVE TypeOK'
  BY <1>3, TroubleType, RequestEdits DEF SubmitStarts
<1>4. ASSUME NEW q \in Requests, NEW i \in Items, NEW r \in Reviewers,
             NEW value \in Choices, PickStarts(q, i, r, value)
      PROVE TypeOK'
  BY <1>4, TroubleType, RequestEdits, ChoicesAssumption DEF PickStarts
<1>5. ASSUME NEW a \in Admins, NEW needed \in 1..MaxRequired, FormLoads(a, needed)
      PROVE TypeOK'
  BY <1>5, TroubleType, FormEdits DEF FormLoads
<1>6. ASSUME NEW q \in Requests, Commits(q) PROVE /\ required' \in 1..MaxRequired
                                                 /\ status' \in [Items -> Statuses \cup {"absent"}]
                                                 /\ review_count' \in [Items -> Nat]
                                                 /\ mark' \in [Pairs -> {"none", "plain", "auto", "picked"}]
                                                 /\ request' \in [Requests -> Request]
                                                 /\ refused' \in BOOLEAN
                                                 /\ trouble' \in {"none", "overlap", "crash"}
  <2>1. request[q] \in Request
    OBVIOUS
  <2>2. request[q].count \in Nat /\ request[q].status \in Statuses
        /\ request[q].value \in {"plain", "auto", "picked"}
    BY <2>1 DEF Request
  <2>3. QED BY <1>6, <2>2, TroubleType, RequestEdits DEF Commits
<1>7. ASSUME NEW q \in Requests, RequestStep(q) \/ RequestDies(q) PROVE TypeOK'
  <2>0. request[q] \in Request
    OBVIOUS
  <2>1. CASE SubmitLocks(q)
    <3>1. AutoMark(request[q].item) \in {"plain", "auto"}
      BY DEF AutoMark
    <3>2. QED BY <2>0, <2>1, <3>1, TroubleType, RequestEdits DEF SubmitLocks
  <2>2. CASE SubmitInserts(q)
    <3> DEFINE i == request[q].item
               count == Cardinality(ReviewersOf(i) \cup {request[q].reviewer})
               auth == request[q].value = "auto" \/ HasAuthoritative(mark, i)
    <3>1. count \in Nat
      <4>1. IsFiniteSet(ReviewersOf(i))
        BY FiniteReviewers, FS_Subset DEF ReviewersOf
      <4>2. IsFiniteSet(ReviewersOf(i) \cup {request[q].reviewer})
        BY <4>1, FS_AddElement
      <4>3. QED BY <4>2, FS_CardinalityType
    <3>2. NextStatus(i, count, auth) \in Statuses
      BY NextStatusIsStatus
    <3>3. request' = [request EXCEPT ![q] =
             [@ EXCEPT !.pc = "committing", !.count = count, !.status = NextStatus(i, count, auth)]]
      BY <2>2 DEF SubmitInserts
    <3> HIDE DEF i, count, auth
    <3>4. request' \in [Requests -> Request]
      BY <2>0, <3>1, <3>2, <3>3, RequestEdits
    <3>5. QED BY <2>2, <3>4, TroubleType DEF SubmitInserts
  <2>3. CASE SubmitRefused(q)
    BY <2>0, <2>3, TroubleType, RequestEdits DEF SubmitRefused
  <2>4. CASE SubmitCommits(q)
    BY <2>4, <1>6 DEF SubmitCommits
  <2>5. CASE PickLocks(q)
    BY <2>0, <2>5, TroubleType, RequestEdits DEF PickLocks
  <2>6. CASE PickCommits(q)
    <3> DEFINE i == request[q].item
               marks == [p \in Pairs |-> IF p = Chosen(q) THEN request[q].value
                                         ELSE IF p \in Siblings(q) THEN "plain" ELSE mark[p]]
               s == NextStatus(i, review_count[i], HasAuthoritative(marks, i))
    <3>1. marks \in [Pairs -> {"none", "plain", "auto", "picked"}]
      BY <2>0 DEF Request
    <3>2. s \in Statuses
      BY NextStatusIsStatus
    <3>3. mark' = marks /\ status' = [status EXCEPT ![i] = s]
      BY <2>6 DEF PickCommits
    <3> HIDE DEF marks, s, i
    <3>4. QED BY <2>0, <2>6, <3>1, <3>2, <3>3, TroubleType, RequestEdits DEF PickCommits
  <2>7. CASE UnflagCommits(q)
    <3>1. request[q].status \in Statuses
      BY <2>0 DEF Request
    <3>2. QED BY <2>0, <2>7, <3>1, TroubleType, RequestEdits DEF UnflagCommits
  <2>8. CASE RequestMisses(q)
    BY <2>0, <2>8, TroubleType, RequestEdits DEF RequestMisses
  <2>9. CASE RequestDies(q)
    BY <2>0, <2>9, TroubleType, RequestEdits DEF RequestDies
  <2>10. QED BY <1>7, <2>1, <2>2, <2>3, <2>4, <2>5, <2>6, <2>7, <2>8, <2>9 DEF RequestStep
<1>8. ASSUME NEW a \in Admins, FormStep(a) \/ FormDies(a) PROVE TypeOK'
  <2>0. form[a] \in Form
    OBVIOUS
  <2>1. CASE FormSaves(a)
    <3>2. required' \in 1..MaxRequired
      BY <2>0, <2>1 DEF FormSaves, Form
    <3>3. form' \in [Admins -> Form]
      BY <2>0, <2>1, FormEdits DEF FormSaves
    <3>4. QED BY <2>1, <3>2, <3>3, TroubleType DEF FormSaves
  <2>2. CASE ResyncMarks(a)
    <3>1. ToTouch(a) \in SUBSET Pairs
      BY DEF ToTouch, AutoMarks, LoneReviews
    <3>2. QED BY <2>0, <2>2, <3>1, TroubleType, FormEdits DEF ResyncMarks
  <2>3. CASE ResyncLists(a)
    <3> DEFINE todo == {i \in Items : status[i] \notin {"flagged", "absent"}}
               seen == {i \in Items : HasAuthoritative(MarksSeenBy(a), i)}
    <3>1. form' = [form EXCEPT ![a] = [@ EXCEPT !.pc = "locking", !.todo = todo, !.seen = seen]]
      BY <2>3 DEF ResyncLists
    <3>2. todo \in SUBSET Items /\ seen \in SUBSET Items
      OBVIOUS
    <3> HIDE DEF todo, seen
    <3>3. form' \in [Admins -> Form]
      BY <2>0, <3>1, <3>2, FormEdits
    <3>4. QED BY <2>3, <3>3, TroubleType DEF ResyncLists
  <2>4. ASSUME NEW i \in Items, ResyncLocks(a, i) PROVE TypeOK'
    <3> DEFINE todo == form[a].todo \ {i}
               locked == IF StillListed(i) THEN form[a].locked \cup {i} ELSE form[a].locked
    <3>1. form' = [form EXCEPT ![a] = [@ EXCEPT !.todo = todo, !.locked = locked]]
      BY <2>4 DEF ResyncLocks
    <3>2. todo \in SUBSET Items /\ locked \in SUBSET Items
      BY <2>0 DEF Form
    <3> HIDE DEF todo, locked
    <3>3. form' \in [Admins -> Form]
      BY <2>0, <3>1, <3>2, FormEdits
    <3>4. QED BY <2>4, <3>3, TroubleType DEF ResyncLocks
  <2>5. CASE ResyncCommits(a)
    <3>1. mark' \in [Pairs -> {"none", "plain", "auto", "picked"}]
      BY <2>5 DEF ResyncCommits, MarksSeenBy, Rewritten
    <3>2. status' \in [Items -> Statuses \cup {"absent"}]
      BY <2>5, StatusIsStatus DEF ResyncCommits, ResyncedStatus
    <3>3. QED BY <2>0, <2>5, <3>1, <3>2, TroubleType, FormEdits DEF ResyncCommits
  <2>6. ASSUME NEW q \in Requests, ResyncRefused(a, q) PROVE TypeOK'
    BY <2>0, <2>6, <1>6, FormEdits DEF ResyncRefused
  <2>7. CASE FormDies(a)
    BY <2>0, <2>7, FormEdits DEF FormDies
  <2>8. QED BY <1>8, <2>1, <2>2, <2>3, <2>4, <2>5, <2>6, <2>7 DEF FormStep
<1>9. ASSUME NEW a \in Admins, NEW q \in Requests, DeadlockBroken(a, q) PROVE TypeOK'
  <2>1. form[a] \in Form /\ request[q] \in Request
    OBVIOUS
  <2>2. QED BY <1>9, <2>1, TroubleType, FormEdits, RequestEdits DEF DeadlockBroken
<1>10. CASE UNCHANGED vars
  BY <1>10 DEF vars
<1>11. QED BY <1>1, <1>2, <1>3, <1>4, <1>5, <1>7, <1>8, <1>9, <1>10 DEF Next, Users

LEMMA TypeCorrect == Spec => []TypeOK
  BY TypeInit, TypeStep, PTL DEF Spec

-----------------------------------------------------------------------------
(* Frames: what a step that moves one request, or one form, has to show.   *)

\* What the invariant asks of one request.
RequestOK(t) ==
  /\ t.pc # "idle" => t.item \in Items
  /\ t.pc \notin {"idle", "unflagging"} => t.reviewer \in Reviewers
  /\ t.pc \in {"inserting", "committing"} => t.value \in {"plain", "auto"}
  /\ t.pc \in {"picking", "choosing"} => t.value \in {"plain", "picked"}
  /\ t.pc = "committing" =>
       /\ mark[<<t.item, t.reviewer>>] = "none"
       /\ t.count = Cardinality(ReviewersOf(t.item) \cup {t.reviewer})
       /\ status[t.item] = "flagged" => t.status = "flagged"
       /\ t.value = "auto" => ~HasAuthoritative(mark, t.item) /\ TouchedOn(t.item) = {}

\* What it asks of one form.
FormOK(f) ==
  /\ f.pc \in {"idle", "saving", "marking"} => f.touched = {}
  /\ f.pc # "locking" => f.todo = {} /\ f.locked = {}

LEMMA InvariantOfRequests ==
  ASSUME IInv, NEW q \in Requests PROVE RequestOK(request[q])
  BY DEF IInv, RequestsInOrder, SubmissionIsSafe, MarksAreSafe, RequestOK

LEMMA RequestFrame ==
  ASSUME IInv, TypeOK', NEW q \in Requests, NEW new \in Request,
         request' = [request EXCEPT ![q] = new],
         UNCHANGED <<status, review_count, mark, form>>,
         RequestOK(new),
         new.pc \in LockPoints =>
           status[new.item] # "absent" /\ (Holds(q, new.item) \/ ~Locked(new.item))
  PROVE  IInv'
<1>0. request \in [Requests -> Request] /\ form \in [Admins -> Form]
  BY DEF IInv, TypeOK
<1>1. request'[q] = new /\ \A p \in Requests \ {q} : request'[p] = request[p]
  BY <1>0
<1>2. \A p \in Requests : RequestOK(request'[p])
  BY <1>1, InvariantOfRequests
<1>3. /\ \A i : TouchedOn(i)' = TouchedOn(i)
      /\ \A i : ReviewersOf(i)' = ReviewersOf(i)
  BY DEF TouchedOn, ReviewersOf
<1>4. \A p \in Requests : RequestOK(request[p])'
  BY <1>2, <1>3 DEF RequestOK
<1>5. \A p \in Requests, i \in Items :
        Holds(p, i)' => Holds(p, i) \/ (p = q /\ i = new.item /\ ~Locked(i) /\ status[i] # "absent")
  BY <1>1 DEF Holds
<1>6. OneHolder'
  <2>1. \A p, r \in Requests, i \in Items : Holds(p, i)' /\ Holds(r, i)' => p = r
    BY <1>5 DEF IInv, OneHolder, Locked
  <2>2. ASSUME NEW a \in Admins, NEW i \in form[a].locked
        PROVE  /\ \A p \in Requests : ~Holds(p, i)'
               /\ status[i] \notin {"flagged", "absent"}
               /\ \A b \in Admins : i \in form[b].locked => a = b
    <3>1. i \in Items
      BY <1>0 DEF Form
    <3>2. QED BY <1>5, <3>1 DEF IInv, OneHolder, Locked
  <2>3. \A p \in Requests, i \in Items : Holds(p, i)' => status[i] # "absent"
    BY <1>5 DEF IInv, OneHolder
  <2>4. QED BY <2>1, <2>2, <2>3 DEF OneHolder
<1>7. FormsInOrder' /\ TouchedStable' /\ NoOrphans'
  BY DEF IInv, FormsInOrder, TouchedStable, NoOrphans
<1>8. RequestsInOrder' /\ SubmissionIsSafe'
  BY <1>4 DEF RequestsInOrder, SubmissionIsSafe, RequestOK
<1>9. MarksAreSafe'
  <2>1. OneAuthoritative'
    BY DEF IInv, MarksAreSafe, OneAuthoritative
  <2>2. \A a \in Admins : \A p \in form[a].touched : form[a].needed = 1 =>
          ~HasAuthoritative(mark, p[1]) /\ TouchedOn(p[1])' = {p}
    BY <1>3 DEF IInv, MarksAreSafe
  <2>3. QED BY <1>4, <2>1, <2>2 DEF MarksAreSafe, RequestOK
<1>10. ReviewCountExact'
  BY <1>3 DEF IInv, ReviewCountExact
<1>11. QED BY <1>6, <1>7, <1>8, <1>9, <1>10 DEF IInv

LEMMA FormFrame ==
  ASSUME IInv, TypeOK', NEW a \in Admins, NEW new \in Form,
         form' = [form EXCEPT ![a] = new],
         UNCHANGED <<status, review_count, mark, request>>,
         FormOK(new),
         new.touched = {} \/ (new.touched = form[a].touched /\ new.needed = form[a].needed),
         \A i \in new.locked :
           i \in form[a].locked \/ (~Locked(i) /\ status[i] \notin {"flagged", "absent"})
  PROVE  IInv'
<1>0. request \in [Requests -> Request] /\ form \in [Admins -> Form]
  BY DEF IInv, TypeOK
<1>1. form'[a] = new /\ \A b \in Admins \ {a} : form'[b] = form[b]
  BY <1>0
<1>2. \A b \in Admins : \A p \in form'[b].touched :
        p \in form[b].touched /\ form'[b].needed = form[b].needed
  BY <1>1
<1>3. \A i : TouchedOn(i)' \subseteq TouchedOn(i)
  BY <1>2 DEF TouchedOn
<1>4. \A i : ReviewersOf(i)' = ReviewersOf(i)
  BY DEF ReviewersOf
<1>5. \A b \in Admins : \A i \in form'[b].locked :
        i \in form[b].locked \/ (b = a /\ ~Locked(i) /\ status[i] \notin {"flagged", "absent"})
  BY <1>1
<1>6. OneHolder'
  <2>1. \A p, i : Holds(p, i)' <=> Holds(p, i)
    BY DEF Holds
  <2>2. ASSUME NEW b \in Admins, NEW i \in form'[b].locked
        PROVE  /\ \A p \in Requests : ~Holds(p, i)
               /\ status[i] \notin {"flagged", "absent"}
               /\ \A c \in Admins : i \in form'[c].locked => b = c
    BY <1>5 DEF IInv, OneHolder, Locked
  <2>3. QED BY <2>1, <2>2 DEF IInv, OneHolder
<1>7. FormsInOrder'
  BY <1>1 DEF IInv, FormsInOrder, FormOK
<1>8. TouchedStable'
  BY <1>2 DEF IInv, TouchedStable
<1>9. RequestsInOrder' /\ SubmissionIsSafe' /\ NoOrphans' /\ ReviewCountExact'
  BY <1>4 DEF IInv, RequestsInOrder, SubmissionIsSafe, NoOrphans, ReviewCountExact
<1>10. MarksAreSafe'
  <2>1. OneAuthoritative'
    BY DEF IInv, MarksAreSafe, OneAuthoritative
  <2>2. ASSUME NEW b \in Admins, NEW p \in form'[b].touched, form'[b].needed = 1
        PROVE  ~HasAuthoritative(mark, p[1]) /\ TouchedOn(p[1])' = {p}
    <3>1. ~HasAuthoritative(mark, p[1]) /\ TouchedOn(p[1]) = {p}
      BY <1>2, <2>2 DEF IInv, MarksAreSafe
    <3>2. p \in TouchedOn(p[1])'
      BY <2>2, <3>1 DEF TouchedOn
    <3>3. QED BY <1>3, <3>1, <3>2
  <2>3. \A q \in Requests : request[q].pc = "committing" /\ request[q].value = "auto" =>
          ~HasAuthoritative(mark, request[q].item) /\ TouchedOn(request[q].item)' = {}
    BY <1>3 DEF IInv, MarksAreSafe
  <2>4. QED BY <2>1, <2>2, <2>3 DEF MarksAreSafe
<1>11. QED BY <1>6, <1>7, <1>8, <1>9, <1>10 DEF IInv

-----------------------------------------------------------------------------
(* The steps of a request that write nothing yet.                          *)

LEMMA RequestMoves ==
  ASSUME IInv, TypeOK', NEW q \in Requests,
         \/ \E i \in Items : UnflagLocks(q, i)
         \/ \E i \in Items, r \in Reviewers : SubmitStarts(q, i, r)
         \/ \E i \in Items, r \in Reviewers, v \in Choices : PickStarts(q, i, r, v)
         \/ SubmitLocks(q)
         \/ SubmitInserts(q)
         \/ PickLocks(q)
  PROVE  IInv'
<1> USE DEF rows
<1>0. request[q] \in Request /\ RequestOK(request[q])
  BY InvariantOfRequests DEF IInv, TypeOK
<1>1. ASSUME NEW i \in Items, UnflagLocks(q, i) PROVE IInv'
  <2> DEFINE s == ItemStatus(review_count[i], required, HasAuthoritative(mark, i))
             new == [IdleRequest EXCEPT !.pc = "unflagging", !.item = i, !.status = s]
  <2>1. s \in Statuses
    BY StatusIsStatus
  <2> HIDE DEF s
  <2>2. new \in Request
    BY <1>0, <2>1, RequestEdits
  <2>3. new.pc = "unflagging" /\ new.item = i
    BY DEF IdleRequest
  <2>4. /\ request' = [request EXCEPT ![q] = new]
        /\ UNCHANGED <<status, review_count, mark, form>>
        /\ status[i] # "absent" /\ ~Locked(i)
    BY <1>1 DEF UnflagLocks, s
  <2> HIDE DEF new
  <2>5. RequestOK(new)
    BY <2>3 DEF RequestOK
  <2>6. QED BY <2>2, <2>3, <2>4, <2>5, RequestFrame
<1>2. ASSUME NEW i \in Items, NEW r \in Reviewers, SubmitStarts(q, i, r) PROVE IInv'
  <2> DEFINE new == [IdleRequest EXCEPT !.pc = "submitting", !.item = i, !.reviewer = r]
  <2>1. new \in Request
    BY <1>0, RequestEdits
  <2>2. new.pc = "submitting" /\ new.item = i /\ new.reviewer = r
    BY DEF IdleRequest
  <2>3. /\ request' = [request EXCEPT ![q] = new]
        /\ UNCHANGED <<status, review_count, mark, form>>
    BY <1>2 DEF SubmitStarts
  <2> HIDE DEF new
  <2>4. RequestOK(new) /\ new.pc \notin LockPoints
    BY <2>2 DEF RequestOK, LockPoints
  <2>5. QED BY <2>1, <2>3, <2>4, RequestFrame
<1>3. ASSUME NEW i \in Items, NEW r \in Reviewers, NEW v \in Choices, PickStarts(q, i, r, v)
      PROVE  IInv'
  <2> DEFINE new == [IdleRequest EXCEPT !.pc = "picking", !.item = i, !.reviewer = r, !.value = v]
  <2>1. new \in Request
    BY <1>0, RequestEdits, ChoicesAssumption
  <2>2. new.pc = "picking" /\ new.item = i /\ new.reviewer = r /\ new.value \in {"plain", "picked"}
    BY ChoicesAssumption DEF IdleRequest
  <2>3. /\ request' = [request EXCEPT ![q] = new]
        /\ UNCHANGED <<status, review_count, mark, form>>
    BY <1>3 DEF PickStarts
  <2> HIDE DEF new
  <2>4. RequestOK(new) /\ new.pc \notin LockPoints
    BY <2>2 DEF RequestOK, LockPoints
  <2>5. QED BY <2>1, <2>3, <2>4, RequestFrame
<1>4. CASE SubmitLocks(q)
  <2> DEFINE v == AutoMark(request[q].item)
             new == [request[q] EXCEPT !.pc = "inserting", !.value = v]
  <2>1. v \in {"plain", "auto"}
    BY DEF AutoMark
  <2>2. /\ request' = [request EXCEPT ![q] = new]
        /\ UNCHANGED <<status, review_count, mark, form>>
        /\ request[q].pc = "submitting"
        /\ status[request[q].item] # "absent" /\ ~Locked(request[q].item)
    BY <1>4 DEF SubmitLocks
  <2> HIDE DEF v
  <2>3. new \in Request
    BY <1>0, <2>1, RequestEdits
  <2>4. new.pc = "inserting" /\ new.item = request[q].item /\ new.reviewer = request[q].reviewer
        /\ new.value = v
    BY <1>0 DEF Request
  <2> HIDE DEF new
  <2>5. RequestOK(new)
    BY <1>0, <2>1, <2>2, <2>4 DEF RequestOK
  <2>6. QED BY <2>2, <2>3, <2>4, <2>5, RequestFrame
<1>5. CASE SubmitInserts(q)
  <2> DEFINE i == request[q].item
             count == Cardinality(ReviewersOf(i) \cup {request[q].reviewer})
             s == NextStatus(i, count, request[q].value = "auto" \/ HasAuthoritative(mark, i))
             new == [request[q] EXCEPT !.pc = "committing", !.count = count, !.status = s]
  <2>1. count \in Nat
    <3>1. IsFiniteSet(ReviewersOf(i))
      BY FiniteReviewers, FS_Subset DEF ReviewersOf
    <3>2. IsFiniteSet(ReviewersOf(i) \cup {request[q].reviewer})
      BY <3>1, FS_AddElement
    <3>3. QED BY <3>2, FS_CardinalityType
  <2>2. s \in Statuses /\ (status[i] = "flagged" => s = "flagged")
    BY NextStatusIsStatus DEF NextStatus
  <2>3. /\ request' = [request EXCEPT ![q] = new]
        /\ UNCHANGED <<status, review_count, mark, form>>
        /\ request[q].pc = "inserting"
        /\ ~InsertWaits(q) /\ ~Duplicate(q) /\ ~SecondMark(q)
    BY <1>5 DEF SubmitInserts
  <2>4. Holds(q, i) /\ i \in Items
    BY <1>0, <2>3 DEF Holds, LockPoints, RequestOK
  <2>5. status[i] # "absent"
    BY <2>4 DEF IInv, OneHolder
  <2> HIDE DEF count, s
  <2>6. new \in Request
    BY <1>0, <2>1, <2>2, RequestEdits
  <2>7. /\ new.pc = "committing" /\ new.item = i /\ new.reviewer = request[q].reviewer
        /\ new.value = request[q].value /\ new.count = count /\ new.status = s
    BY <1>0 DEF Request
  <2> HIDE DEF new
  <2>8. RequestOK(new)
    BY <1>0, <2>2, <2>3, <2>7 DEF RequestOK, count, InsertWaits, Duplicate, SecondMark
  <2>9. QED BY <2>3, <2>4, <2>5, <2>6, <2>7, <2>8, RequestFrame
<1>6. CASE PickLocks(q)
  <2> DEFINE new == [request[q] EXCEPT !.pc = "choosing"]
  <2>1. /\ request' = [request EXCEPT ![q] = new]
        /\ UNCHANGED <<status, review_count, mark, form>>
        /\ request[q].pc = "picking"
        /\ status[request[q].item] # "absent" /\ ~Locked(request[q].item)
    BY <1>6 DEF PickLocks
  <2>2. new \in Request
    BY <1>0, RequestEdits
  <2>3. /\ new.pc = "choosing" /\ new.item = request[q].item /\ new.reviewer = request[q].reviewer
        /\ new.value = request[q].value
    BY <1>0 DEF Request
  <2> HIDE DEF new
  <2>4. RequestOK(new)
    BY <1>0, <2>1, <2>3 DEF RequestOK
  <2>5. QED BY <2>1, <2>2, <2>3, <2>4, RequestFrame
<1>7. QED BY <1>1, <1>2, <1>3, <1>4, <1>5, <1>6

LEMMA RequestEnds ==
  ASSUME IInv, TypeOK', NEW q \in Requests, Finish(q),
         UNCHANGED <<status, review_count, mark, form>>
  PROVE  IInv'
<1>1. IdleRequest \in Request
  BY RequestEdits DEF IInv, TypeOK
<1>2. RequestOK(IdleRequest) /\ IdleRequest.pc \notin LockPoints
  BY DEF RequestOK, IdleRequest, LockPoints
<1>3. QED BY <1>1, <1>2, RequestFrame DEF Finish

-----------------------------------------------------------------------------
(* The steps of a form that write nothing yet.                             *)

LEMMA FormEnds ==
  ASSUME IInv, TypeOK', NEW a \in Admins, form' = [form EXCEPT ![a] = IdleForm],
         UNCHANGED <<status, review_count, mark, request>>
  PROVE  IInv'
<1>1. IdleForm \in Form
  BY FormEdits DEF IInv, TypeOK
<1>2. FormOK(IdleForm) /\ IdleForm.touched = {} /\ IdleForm.locked = {}
  BY DEF FormOK, IdleForm
<1>3. QED BY <1>1, <1>2, FormFrame

LEMMA FormMoves ==
  ASSUME IInv, TypeOK', NEW a \in Admins,
         \/ \E needed \in 1..MaxRequired : FormLoads(a, needed)
         \/ FormSaves(a)
         \/ ResyncLists(a)
         \/ \E i \in Items : ResyncLocks(a, i)
  PROVE  IInv'
<1> USE DEF rows
<1>0. form[a] \in Form /\ required \in 1..MaxRequired /\ FormOK(form[a])
  BY DEF IInv, TypeOK, FormsInOrder, FormOK
<1>1. ASSUME NEW needed \in 1..MaxRequired, FormLoads(a, needed) PROVE IInv'
  <2> DEFINE new == [IdleForm EXCEPT !.pc = "saving", !.base = required, !.needed = needed]
  <2>1. new \in Form
    BY <1>0, FormEdits
  <2>2. form' = [form EXCEPT ![a] = new] /\ UNCHANGED <<status, review_count, mark, request>>
    BY <1>1 DEF FormLoads
  <2>3. FormOK(new) /\ new.touched = {} /\ new.locked = {}
    BY DEF FormOK, IdleForm
  <2> HIDE DEF new
  <2>4. QED BY <2>1, <2>2, <2>3, FormFrame
<1>2. CASE FormSaves(a)
  <2> DEFINE new == [form[a] EXCEPT !.pc = "marking"]
  <2>1. new \in Form
    BY <1>0, FormEdits
  <2>2. /\ form' = [form EXCEPT ![a] = new] \/ form' = [form EXCEPT ![a] = IdleForm]
        /\ UNCHANGED <<status, review_count, mark, request>>
        /\ form[a].pc = "saving"
    BY <1>2 DEF FormSaves
  <2>3. FormOK(new) /\ new.touched = {} /\ new.locked = {}
    BY <1>0, <2>2 DEF FormOK, Form
  <2> HIDE DEF new
  <2>4. QED BY <2>1, <2>2, <2>3, FormFrame, FormEnds
<1>3. CASE ResyncLists(a)
  <2> DEFINE todo == {i \in Items : status[i] \notin {"flagged", "absent"}}
             seen == {i \in Items : HasAuthoritative(MarksSeenBy(a), i)}
             new == [form[a] EXCEPT !.pc = "locking", !.todo = todo, !.seen = seen]
  <2>1. todo \in SUBSET Items /\ seen \in SUBSET Items
    OBVIOUS
  <2>2. /\ form' = [form EXCEPT ![a] = new]
        /\ UNCHANGED <<status, review_count, mark, request>>
        /\ form[a].pc = "listing"
    BY <1>3 DEF ResyncLists
  <2> HIDE DEF todo, seen
  <2>3. new \in Form
    BY <1>0, <2>1, FormEdits
  <2>4. /\ FormOK(new) /\ new.touched = form[a].touched /\ new.needed = form[a].needed
        /\ new.locked = form[a].locked
    BY <1>0, <2>2 DEF FormOK, Form
  <2> HIDE DEF new
  <2>5. QED BY <2>2, <2>3, <2>4, FormFrame
<1>4. ASSUME NEW i \in Items, ResyncLocks(a, i) PROVE IInv'
  <2> DEFINE todo == form[a].todo \ {i}
             locked == IF StillListed(i) THEN form[a].locked \cup {i} ELSE form[a].locked
             new == [form[a] EXCEPT !.todo = todo, !.locked = locked]
  <2>1. todo \in SUBSET Items /\ locked \in SUBSET Items
    BY <1>0 DEF Form
  <2>2. /\ form' = [form EXCEPT ![a] = new]
        /\ UNCHANGED <<status, review_count, mark, request>>
        /\ form[a].pc = "locking" /\ ~Locked(i)
    BY <1>4 DEF ResyncLocks
  <2>3. \A j \in locked : j \in form[a].locked \/ (~Locked(j) /\ status[j] \notin {"flagged", "absent"})
    BY <2>2 DEF StillListed
  <2> HIDE DEF todo, locked
  <2>4. new \in Form
    BY <1>0, <2>1, FormEdits
  <2>5. /\ FormOK(new) /\ new.touched = form[a].touched /\ new.needed = form[a].needed
        /\ new.locked = locked
    BY <1>0, <2>2 DEF FormOK, Form
  <2> HIDE DEF new
  <2>6. QED BY <2>2, <2>3, <2>4, <2>5, FormFrame
<1>5. QED BY <1>1, <1>2, <1>3, <1>4

-----------------------------------------------------------------------------
(* The steps that write one item.                                          *)

LEMMA ItemFrame ==
  ASSUME IInv, TypeOK', NEW i \in Items,
         \A j \in Items \ {i} : status'[j] = status[j] /\ review_count'[j] = review_count[j],
         \A p \in Pairs : p[1] # i => mark'[p] = mark[p],
         \A q \in Requests : request'[q] = request[q] \/ request'[q] = IdleRequest,
         \A b \in Admins : form'[b] = form[b] \/ (form[b].pc = "marking" /\ form'[b] = IdleForm),
         \A q \in Requests : ~Holds(q, i)',
         \A b \in Admins : i \notin form[b].locked,
         \A p \in TouchedOn(i) : mark'[p] = mark[p],
         \A r \in Reviewers : mark'[<<i, r>>] # "none" => status'[i] # "absent",
         status'[i] # "absent" => review_count'[i] = Cardinality(ReviewersOf(i)'),
         \A r, s \in Reviewers :
           mark'[<<i, r>>] \in Authoritative /\ mark'[<<i, s>>] \in Authoritative => r = s,
         \A a \in Admins : \A p \in form[a].touched :
           p[1] = i /\ form[a].needed = 1 => ~HasAuthoritative(mark', i)
  PROVE  IInv'
<1>0. request \in [Requests -> Request] /\ form \in [Admins -> Form]
  BY DEF IInv, TypeOK
<1>1. /\ \A b \in Admins : form'[b].touched = form[b].touched /\ form'[b].locked = form[b].locked
      /\ \A b \in Admins : form'[b].touched # {} => form'[b].needed = form[b].needed
  <2> SUFFICES ASSUME NEW b \in Admins
               PROVE  /\ form'[b].touched = form[b].touched /\ form'[b].locked = form[b].locked
                      /\ form'[b].touched # {} => form'[b].needed = form[b].needed
    OBVIOUS
  <2>1. CASE form'[b] = form[b]
    BY <2>1
  <2>2. CASE form[b].pc = "marking" /\ form'[b] = IdleForm
    <3>1. form[b].touched = {} /\ form[b].locked = {}
      BY <2>2 DEF IInv, FormsInOrder
    <3>2. IdleForm.touched = {} /\ IdleForm.locked = {}
      BY DEF IdleForm
    <3>3. QED BY <2>2, <3>1, <3>2
  <2>3. QED BY <2>1, <2>2
<1>2. \A j : TouchedOn(j)' = TouchedOn(j)
  BY <1>1 DEF TouchedOn
<1>3. \A j \in Items \ {i} : ReviewersOf(j)' = ReviewersOf(j)
                           /\ HasAuthoritative(mark', j) = HasAuthoritative(mark, j)
  BY DEF ReviewersOf, HasAuthoritative, Pairs
<1>4. \A q \in Requests, j \in Items : Holds(q, j)' => Holds(q, j) /\ j # i
  BY DEF Holds, IdleRequest, LockPoints
<1>5. OneHolder'
  <2>1. ASSUME NEW b \in Admins, NEW j \in form[b].locked
        PROVE  /\ \A q \in Requests : ~Holds(q, j)'
               /\ status'[j] \notin {"flagged", "absent"}
               /\ \A c \in Admins : j \in form[c].locked => b = c
    <3>1. j \in Items \ {i}
      BY <1>0 DEF Form
    <3>2. QED BY <1>4, <3>1 DEF IInv, OneHolder
  <2>2. \A q \in Requests, j \in Items : Holds(q, j)' => status'[j] # "absent"
    BY <1>4 DEF IInv, OneHolder
  <2>3. \A p, q \in Requests, j \in Items : Holds(p, j)' /\ Holds(q, j)' => p = q
    BY <1>4 DEF IInv, OneHolder
  <2>4. QED BY <1>1, <2>1, <2>2, <2>3 DEF OneHolder
<1>6. FormsInOrder'
  BY DEF IInv, FormsInOrder, IdleForm
<1>7. ASSUME NEW b \in Admins, NEW p \in form[b].touched
      PROVE  p \in Pairs /\ mark'[p] = mark[p] /\ p[1] \in Items /\ p \in TouchedOn(p[1])
  <2>1. p \in Pairs
    BY <1>0 DEF Form
  <2>2. p[1] \in Items /\ p \in TouchedOn(p[1])
    BY <2>1 DEF Pairs, TouchedOn
  <2>3. QED BY <2>1, <2>2
<1>8. TouchedStable'
  <2> SUFFICES ASSUME NEW b \in Admins, NEW p \in form'[b].touched
               PROVE  /\ mark'[p] = IF form'[b].needed > 1 THEN "auto" ELSE "plain"
                      /\ \A c \in Admins : p \in form'[c].touched => b = c
    BY DEF TouchedStable
  <2>1. p \in form[b].touched /\ form'[b].needed = form[b].needed
    BY <1>1
  <2>2. QED BY <1>1, <1>7, <2>1 DEF IInv, TouchedStable
<1>9. ASSUME NEW q \in Requests PROVE RequestOK(request[q])'
  <2>1. CASE request'[q] = IdleRequest
    BY <2>1 DEF RequestOK, IdleRequest
  <2>2. CASE request'[q] = request[q]
    <3>1. RequestOK(request[q])
      BY InvariantOfRequests
    <3>2. CASE request[q].pc = "committing"
      <4>1. PICK j \in Items : j = request[q].item
        BY <3>1, <3>2 DEF RequestOK
      <4>2. PICK r \in Reviewers : r = request[q].reviewer
        BY <3>1, <3>2 DEF RequestOK
      <4>3. j # i
        BY <2>2, <3>2, <4>1 DEF Holds, LockPoints
      <4>4. /\ ReviewersOf(j)' = ReviewersOf(j) /\ status'[j] = status[j]
            /\ HasAuthoritative(mark', j) = HasAuthoritative(mark, j)
            /\ TouchedOn(j)' = TouchedOn(j)
        BY <1>2, <1>3, <4>3
      <4>5. mark'[<<j, r>>] = mark[<<j, r>>]
        BY <4>3 DEF Pairs
      <4>6. QED BY <2>2, <3>1, <3>2, <4>1, <4>2, <4>4, <4>5 DEF RequestOK
    <3>3. CASE request[q].pc # "committing"
      BY <2>2, <3>1, <3>3 DEF RequestOK
    <3>4. QED BY <3>2, <3>3
  <2>3. QED BY <2>1, <2>2
<1>10. RequestsInOrder' /\ SubmissionIsSafe'
  BY <1>9 DEF RequestsInOrder, SubmissionIsSafe, RequestOK
<1>11. NoOrphans'
  <2> SUFFICES ASSUME NEW p \in Pairs, mark'[p] # "none" PROVE status'[p[1]] # "absent"
    BY DEF NoOrphans
  <2>1. PICK j \in Items, r \in Reviewers : p = <<j, r>>
    BY DEF Pairs
  <2>2. QED BY <2>1 DEF IInv, NoOrphans
<1>12. OneAuthoritative'
  <2> SUFFICES ASSUME NEW j \in Items, NEW r \in Reviewers, NEW s \in Reviewers,
                      mark'[<<j, r>>] \in Authoritative, mark'[<<j, s>>] \in Authoritative
               PROVE  r = s
    BY DEF OneAuthoritative
  <2>1. CASE j = i
    BY <2>1
  <2>2. CASE j # i
    BY <2>2 DEF IInv, MarksAreSafe, OneAuthoritative, Pairs
  <2>3. QED BY <2>1, <2>2
<1>13. MarksAreSafe'
  <2>1. ASSUME NEW b \in Admins, NEW p \in form'[b].touched, form'[b].needed = 1
        PROVE  ~HasAuthoritative(mark', p[1]) /\ TouchedOn(p[1])' = {p}
    <3>1. p \in form[b].touched /\ form[b].needed = 1
      BY <1>1, <2>1
    <3>2. ~HasAuthoritative(mark, p[1]) /\ TouchedOn(p[1]) = {p}
      BY <3>1 DEF IInv, MarksAreSafe
    <3>3. p[1] \in Items
      BY <1>7, <3>1
    <3>4. CASE p[1] = i
      BY <1>2, <3>1, <3>2, <3>4
    <3>5. CASE p[1] # i
      BY <1>2, <1>3, <3>2, <3>3, <3>5
    <3>6. QED BY <3>4, <3>5
  <2>2. QED BY <1>9, <1>12, <2>1 DEF MarksAreSafe, RequestOK
<1>14. ReviewCountExact'
  BY <1>3 DEF IInv, ReviewCountExact
<1>15. QED BY <1>5, <1>6, <1>8, <1>10, <1>11, <1>13, <1>14 DEF IInv

LEMMA ItemSteps ==
  ASSUME IInv, TypeOK', NEW i \in Items, AddItem(i) \/ RemoveItem(i) \/ FlagItem(i)
  PROVE  IInv'
<1>0. /\ status \in [Items -> Statuses \cup {"absent"}] /\ review_count \in [Items -> Nat]
      /\ mark \in [Pairs -> {"none", "plain", "auto", "picked"}]
  BY DEF IInv, TypeOK
<1>1. UNCHANGED <<request, form>>
  BY DEF AddItem, RemoveItem, FlagItem
<1>2. \A q \in Requests : ~Holds(q, i)'
  <2>1. \A q \in Requests : ~Holds(q, i)
    BY DEF IInv, OneHolder, AddItem, RemoveItem, FlagItem, Locked
  <2>2. QED BY <1>1, <2>1 DEF Holds
<1>3. \A b \in Admins : i \notin form[b].locked
  BY DEF IInv, OneHolder, AddItem, RemoveItem, FlagItem, Locked
<1>4. /\ \A j \in Items \ {i} : status'[j] = status[j] /\ review_count'[j] = review_count[j]
      /\ \A p \in Pairs : p[1] # i => mark'[p] = mark[p]
      /\ \A p \in TouchedOn(i) : mark'[p] = mark[p]
  BY <1>0 DEF AddItem, RemoveItem, FlagItem, TouchedOn
<1>5. \A r \in Reviewers : <<i, r>> \in Pairs
  BY DEF Pairs
<1>6. CASE AddItem(i) \/ FlagItem(i)
  <2>1. mark' = mark
    BY <1>6 DEF AddItem, FlagItem
  <2>2. status'[i] # "absent"
    BY <1>0, <1>6 DEF AddItem, FlagItem
  <2>3. ReviewersOf(i)' = ReviewersOf(i)
    BY <2>1 DEF ReviewersOf
  <2>4. review_count'[i] = Cardinality(ReviewersOf(i))
    <3>1. CASE FlagItem(i)
      BY <3>1 DEF FlagItem, IInv, ReviewCountExact
    <3>2. CASE AddItem(i)
      <4>1. \A r \in Reviewers : mark[<<i, r>>] = "none"
        BY <3>2, <1>5 DEF AddItem, IInv, NoOrphans
      <4>2. ReviewersOf(i) = {}
        BY <4>1 DEF ReviewersOf
      <4>3. review_count'[i] = 0
        BY <1>0, <3>2 DEF AddItem
      <4>4. QED BY <4>2, <4>3, FS_EmptySet
    <3>3. QED BY <1>6, <3>1, <3>2
  <2>5. \A r, s \in Reviewers :
          mark'[<<i, r>>] \in Authoritative /\ mark'[<<i, s>>] \in Authoritative => r = s
    BY <2>1 DEF IInv, MarksAreSafe, OneAuthoritative
  <2>6. \A a \in Admins : \A p \in form[a].touched :
          p[1] = i /\ form[a].needed = 1 => ~HasAuthoritative(mark', i)
    BY <2>1 DEF IInv, MarksAreSafe
  <2>7. QED BY <1>1, <1>2, <1>3, <1>4, <2>2, <2>3, <2>4, <2>5, <2>6, ItemFrame
<1>7. CASE RemoveItem(i)
  <2>1. \A r \in Reviewers : mark'[<<i, r>>] = "none"
    BY <1>5, <1>7 DEF RemoveItem
  <2>2. status'[i] = "absent"
    BY <1>0, <1>7 DEF RemoveItem
  <2>3. ~HasAuthoritative(mark', i)
    BY <2>1 DEF HasAuthoritative, Authoritative
  <2>4. QED BY <1>1, <1>2, <1>3, <1>4, <2>1, <2>2, <2>3, ItemFrame DEF HasAuthoritative
<1>8. QED BY <1>6, <1>7

\* A request that holds an item and ends leaves the item without a holder.
LEMMA Release ==
  ASSUME IInv, NEW q \in Requests, NEW i \in Items, Holds(q, i), Finish(q)
  PROVE  /\ \A p \in Requests : request'[p] = request[p] \/ request'[p] = IdleRequest
         /\ \A p \in Requests : ~Holds(p, i)'
         /\ \A b \in Admins : i \notin form[b].locked
<1>1. request \in [Requests -> Request]
  BY DEF IInv, TypeOK
<1>2. request'[q] = IdleRequest /\ \A p \in Requests \ {q} : request'[p] = request[p]
  BY <1>1 DEF Finish
<1>3. \A p \in Requests \ {q} : ~Holds(p, i)
  BY DEF IInv, OneHolder
<1>4. QED BY <1>2, <1>3 DEF Holds, IInv, OneHolder, LockPoints, IdleRequest

LEMMA CommitSteps ==
  ASSUME IInv, TypeOK', NEW q \in Requests, Commits(q),
         \A b \in Admins : form'[b] = form[b] \/ (form[b].pc = "marking" /\ form'[b] = IdleForm)
  PROVE  IInv'
<1>0. /\ status \in [Items -> Statuses \cup {"absent"}] /\ review_count \in [Items -> Nat]
      /\ mark \in [Pairs -> {"none", "plain", "auto", "picked"}]
  BY DEF IInv, TypeOK
<1>1. RequestOK(request[q]) /\ request[q].pc = "committing" /\ Finish(q)
  BY InvariantOfRequests DEF Commits
<1>2. PICK i \in Items, r \in Reviewers : i = request[q].item /\ r = request[q].reviewer
  BY <1>1 DEF RequestOK
<1>3. Holds(q, i)
  BY <1>1, <1>2 DEF Holds, LockPoints
<1>4. /\ mark' = [mark EXCEPT ![<<i, r>>] = request[q].value]
      /\ review_count' = [review_count EXCEPT ![i] = request[q].count]
      /\ status' = [status EXCEPT ![i] = request[q].status]
  BY <1>2 DEF Commits
<1>5. /\ mark[<<i, r>>] = "none"
      /\ request[q].value \in {"plain", "auto"}
      /\ request[q].count = Cardinality(ReviewersOf(i) \cup {r})
      /\ request[q].value = "auto" => ~HasAuthoritative(mark, i) /\ TouchedOn(i) = {}
  BY <1>1, <1>2 DEF RequestOK
<1>6. \A s \in Reviewers : <<i, s>> \in Pairs
  BY DEF Pairs
<1>7. \A s \in Reviewers : mark'[<<i, s>>] = IF s = r THEN request[q].value ELSE mark[<<i, s>>]
  BY <1>0, <1>4, <1>6
<1>8. ReviewersOf(i)' = ReviewersOf(i) \cup {r}
  BY <1>5, <1>7 DEF ReviewersOf
<1>9. review_count'[i] = Cardinality(ReviewersOf(i)')
  BY <1>0, <1>4, <1>5, <1>8
<1>10. status'[i] # "absent"
  <2>1. request[q] \in Request
    BY DEF IInv, TypeOK
  <2>2. request[q].status \in Statuses
    BY <2>1 DEF Request
  <2>3. QED BY <1>0, <1>4, <2>2 DEF Statuses
<1>11. \A s, t \in Reviewers :
         mark'[<<i, s>>] \in Authoritative /\ mark'[<<i, t>>] \in Authoritative => s = t
  BY <1>5, <1>7 DEF IInv, MarksAreSafe, OneAuthoritative, HasAuthoritative, Authoritative
<1>12. \A a \in Admins : \A p \in form[a].touched :
         p[1] = i /\ form[a].needed = 1 => ~HasAuthoritative(mark', i)
  <2> SUFFICES ASSUME NEW a \in Admins, NEW p \in form[a].touched, p[1] = i, form[a].needed = 1
               PROVE  ~HasAuthoritative(mark', i)
    OBVIOUS
  <2>1. ~HasAuthoritative(mark, i) /\ TouchedOn(i) = {p}
    BY DEF IInv, MarksAreSafe
  <2>2. request[q].value = "plain"
    BY <1>5, <2>1
  <2>3. QED BY <1>7, <2>1, <2>2 DEF HasAuthoritative, Authoritative
<1>13. \A p \in TouchedOn(i) : mark'[p] = mark[p]
  <2> SUFFICES ASSUME NEW p \in TouchedOn(i) PROVE mark'[p] = mark[p]
    OBVIOUS
  <2>1. p \in Pairs /\ mark[p] # "none"
    BY DEF TouchedOn, IInv, TouchedStable
  <2>2. QED BY <1>0, <1>4, <1>5, <2>1
<1>14. /\ \A j \in Items \ {i} : status'[j] = status[j] /\ review_count'[j] = review_count[j]
       /\ \A p \in Pairs : p[1] # i => mark'[p] = mark[p]
  BY <1>0, <1>4
<1>15. QED
  BY <1>1, <1>3, <1>9, <1>10, <1>11, <1>12, <1>13, <1>14, Release, ItemFrame

LEMMA PickStep ==
  ASSUME IInv, TypeOK', NEW q \in Requests, PickCommits(q)
  PROVE  IInv'
<1>0. /\ status \in [Items -> Statuses \cup {"absent"}] /\ review_count \in [Items -> Nat]
      /\ mark \in [Pairs -> {"none", "plain", "auto", "picked"}]
  BY DEF IInv, TypeOK
<1>1. /\ RequestOK(request[q]) /\ request[q].pc = "choosing" /\ Finish(q)
      /\ UNCHANGED <<review_count, form>>
  BY InvariantOfRequests DEF PickCommits
<1>2. PICK i \in Items, r \in Reviewers : i = request[q].item /\ r = request[q].reviewer
  BY <1>1 DEF RequestOK
<1>3. Holds(q, i)
  BY <1>1, <1>2 DEF Holds, LockPoints
<1>4. status[i] # "absent"
  BY <1>3 DEF IInv, OneHolder
<1>5. Chosen(q) = <<i, r>> /\ <<i, r>> \in Pairs
  BY <1>2 DEF Chosen, Pairs
<1>6. request[q].value \in {"plain", "auto", "picked"}
  BY DEF IInv, TypeOK, Request
<1>7. \A p \in Pairs : mark'[p] = IF p = <<i, r>> THEN request[q].value
                                ELSE IF p \in Siblings(q) THEN "plain" ELSE mark[p]
  BY <1>5 DEF PickCommits
<1>8. mark[<<i, r>>] # "none" /\ ~PickWaits(q)
  BY <1>5 DEF PickCommits
<1>9. \A s \in Reviewers : <<i, s>> \in Pairs
  BY DEF Pairs
<1>10. \A p \in Siblings(q) : p[1] = i /\ mark[p] \in Authoritative /\ request[q].value = "picked"
  BY <1>2 DEF Siblings
<1>11. \A s \in Reviewers : mark'[<<i, s>>] # "none" <=> mark[<<i, s>>] # "none"
  BY <1>6, <1>7, <1>8, <1>9, <1>10 DEF Authoritative
<1>12. ReviewersOf(i)' = ReviewersOf(i)
  BY <1>11 DEF ReviewersOf
<1>13. status'[i] # "absent" /\ \A j \in Items \ {i} : status'[j] = status[j]
  <2> DEFINE marks == [p \in Pairs |-> IF p = Chosen(q) THEN request[q].value
                                        ELSE IF p \in Siblings(q) THEN "plain" ELSE mark[p]]
             s == NextStatus(i, review_count[i], HasAuthoritative(marks, i))
  <2>1. s \in Statuses
    BY NextStatusIsStatus
  <2>2. status' = [status EXCEPT ![i] = s]
    BY <1>2 DEF PickCommits
  <2> HIDE DEF s
  <2>3. QED BY <1>0, <2>1, <2>2 DEF Statuses
<1>14. review_count'[i] = Cardinality(ReviewersOf(i)')
  BY <1>1, <1>4, <1>12 DEF IInv, ReviewCountExact
<1>15. \A p \in Pairs : p[1] # i => mark'[p] = mark[p]
  BY <1>7, <1>10
<1>16. CASE request[q].value = "picked"
  <2>1. TouchedOn(i) = {}
    BY <1>2, <1>8, <1>16 DEF PickWaits
  <2>2. \A a \in Admins : \A p \in form[a].touched : p[1] # i
    BY <2>1 DEF TouchedOn, IInv, TypeOK, Form
  <2>3. \A s \in Reviewers : s # r => mark'[<<i, s>>] \notin Authoritative
    <3> SUFFICES ASSUME NEW s \in Reviewers, s # r PROVE mark'[<<i, s>>] \notin Authoritative
      OBVIOUS
    <3>1. mark[<<i, s>>] \in Authoritative => <<i, s>> \in Siblings(q)
      BY <1>2, <1>5, <1>9, <1>16 DEF Siblings
    <3>2. QED BY <1>7, <1>9, <3>1 DEF Authoritative
  <2>4. QED
    BY <1>1, <1>3, <1>13, <1>14, <1>15, <2>1, <2>2, <2>3, Release, ItemFrame
<1>17. CASE request[q].value # "picked"
  <2>1. <<i, r>> \notin TouchedOn(i) /\ Siblings(q) = {}
    BY <1>2, <1>5, <1>8, <1>17 DEF PickWaits, Siblings
  <2>2. \A p \in TouchedOn(i) : mark'[p] = mark[p]
    BY <1>7, <2>1 DEF TouchedOn
  <2>3. \A s \in Reviewers : s # r => mark'[<<i, s>>] = mark[<<i, s>>]
    BY <1>7, <1>9, <2>1
  <2>4. request[q].value = "plain"
    BY <1>1, <1>17 DEF RequestOK
  <2>5. mark'[<<i, r>>] = "plain"
    BY <1>5, <1>7, <2>4
  <2>6. \A s \in Reviewers : mark'[<<i, s>>] \in Authoritative => mark[<<i, s>>] \in Authoritative
    BY <2>3, <2>5 DEF Authoritative
  <2>7. \A s, t \in Reviewers :
          mark'[<<i, s>>] \in Authoritative /\ mark'[<<i, t>>] \in Authoritative => s = t
    BY <2>6 DEF IInv, MarksAreSafe, OneAuthoritative
  <2>8. \A a \in Admins : \A p \in form[a].touched :
          p[1] = i /\ form[a].needed = 1 => ~HasAuthoritative(mark', i)
    BY <2>6 DEF IInv, MarksAreSafe, HasAuthoritative
  <2>9. QED
    BY <1>1, <1>3, <1>13, <1>14, <1>15, <2>2, <2>7, <2>8, Release, ItemFrame
<1>18. QED BY <1>16, <1>17

LEMMA UnflagStep ==
  ASSUME IInv, TypeOK', NEW q \in Requests, UnflagCommits(q)
  PROVE  IInv'
<1>0. status \in [Items -> Statuses \cup {"absent"}]
  BY DEF IInv, TypeOK
<1>1. /\ RequestOK(request[q]) /\ request[q].pc = "unflagging" /\ Finish(q)
      /\ UNCHANGED <<review_count, mark, form>>
  BY InvariantOfRequests DEF UnflagCommits
<1>2. PICK i \in Items : i = request[q].item
  BY <1>1 DEF RequestOK
<1>3. Holds(q, i)
  BY <1>1, <1>2 DEF Holds, LockPoints
<1>4. status[i] # "absent"
  BY <1>3 DEF IInv, OneHolder
<1>5. status'[i] # "absent" /\ \A j \in Items \ {i} : status'[j] = status[j]
  <2>1. request[q].status \in Statuses
    BY DEF IInv, TypeOK, Request
  <2>2. QED BY <1>0, <1>2, <2>1 DEF UnflagCommits, Statuses
<1>6. ReviewersOf(i)' = ReviewersOf(i)
  BY <1>1 DEF ReviewersOf
<1>7. review_count'[i] = Cardinality(ReviewersOf(i)')
  BY <1>1, <1>4, <1>6 DEF IInv, ReviewCountExact
<1>8. /\ \A r, s \in Reviewers :
            mark'[<<i, r>>] \in Authoritative /\ mark'[<<i, s>>] \in Authoritative => r = s
      /\ \A a \in Admins : \A p \in form[a].touched :
            p[1] = i /\ form[a].needed = 1 => ~HasAuthoritative(mark', i)
  BY <1>1 DEF IInv, MarksAreSafe, OneAuthoritative
<1>9. QED BY <1>1, <1>3, <1>5, <1>7, <1>8, Release, ItemFrame

-----------------------------------------------------------------------------
(* The steps of a resync that write annotations.                           *)

LEMMA LoneIsAlone ==
  ASSUME IInv, NEW p \in LoneReviews, NEW r \in Reviewers, mark[<<p[1], r>>] # "none"
  PROVE  <<p[1], r>> = p
<1>1. p \in Pairs /\ mark[p] = "plain" /\ review_count[p[1]] = 1
  BY DEF LoneReviews
<1>2. PICK i \in Items, s \in Reviewers : p = <<i, s>>
  BY <1>1 DEF Pairs
<1>3. status[i] # "absent"
  BY <1>1, <1>2 DEF IInv, NoOrphans
<1>4. Cardinality(ReviewersOf(i)) = 1
  BY <1>1, <1>2, <1>3 DEF IInv, ReviewCountExact
<1>5. IsFiniteSet(ReviewersOf(i))
  BY FiniteReviewers, FS_Subset DEF ReviewersOf
<1>6. PICK x : ReviewersOf(i) = {x}
  BY <1>4, <1>5, FS_Singleton
<1>7. s \in ReviewersOf(i) /\ r \in ReviewersOf(i)
  BY <1>1, <1>2 DEF ReviewersOf
<1>8. QED BY <1>2, <1>6, <1>7

LEMMA ResyncMarksStep ==
  ASSUME IInv, TypeOK', NEW a \in Admins, ResyncMarks(a)
  PROVE  IInv'
<1>0. /\ request \in [Requests -> Request] /\ form \in [Admins -> Form] /\ form[a] \in Form
      /\ mark \in [Pairs -> {"none", "plain", "auto", "picked"}]
  BY DEF IInv, TypeOK
<1> DEFINE new == [form[a] EXCEPT !.pc = "listing", !.touched = ToTouch(a)]
<1>1. /\ form[a].pc = "marking" /\ form' = [form EXCEPT ![a] = new]
      /\ \A p \in ToTouch(a) : p \notin TouchedOn(p[1])
      /\ \A q \in Requests : ~MarkConflicts(a, q)
      /\ UNCHANGED <<status, review_count, mark, request>>
  BY DEF ResyncMarks, rows
<1>2. /\ new.pc = "listing" /\ new.touched = ToTouch(a) /\ new.needed = form[a].needed
      /\ new.todo = form[a].todo /\ new.locked = form[a].locked
  BY <1>0 DEF Form
<1> HIDE DEF new
<1>3. form'[a] = new /\ \A b \in Admins \ {a} : form'[b] = form[b]
  BY <1>0, <1>1
<1>4. form[a].touched = {} /\ form[a].todo = {} /\ form[a].locked = {}
  BY <1>1 DEF IInv, FormsInOrder
<1>5. ToTouch(a) \subseteq Pairs
  BY DEF ToTouch, AutoMarks, LoneReviews
<1>6. \A p \in ToTouch(a) : \A b \in Admins : p \notin form[b].touched
  BY <1>1, <1>5 DEF TouchedOn
<1>7. \A p \in ToTouch(a) : mark[p] = IF form[a].needed > 1 THEN "auto" ELSE "plain"
  BY DEF ToTouch, AutoMarks, LoneReviews
<1>8. OneHolder' /\ FormsInOrder'
  <2>1. \A b \in Admins : form'[b].locked = form[b].locked
    BY <1>2, <1>3
  <2>2. OneHolder'
    BY <1>1, <2>1 DEF IInv, OneHolder, Holds
  <2>3. FormsInOrder'
    BY <1>2, <1>3, <1>4 DEF IInv, FormsInOrder
  <2>4. QED BY <2>2, <2>3
<1>9. TouchedStable'
  <2> SUFFICES ASSUME NEW b \in Admins, NEW p \in form'[b].touched
               PROVE  /\ mark[p] = IF form'[b].needed > 1 THEN "auto" ELSE "plain"
                      /\ \A c \in Admins : p \in form'[c].touched => b = c
    BY <1>1 DEF TouchedStable
  <2>1. CASE b = a
    BY <1>2, <1>3, <1>6, <1>7, <2>1
  <2>2. CASE b # a
    BY <1>2, <1>3, <1>6, <2>2 DEF IInv, TouchedStable
  <2>3. QED BY <2>1, <2>2
<1>10. \A i : ReviewersOf(i)' = ReviewersOf(i)
  BY <1>1 DEF ReviewersOf
<1>11. \A i : TouchedOn(i)' = TouchedOn(i) \cup {p \in ToTouch(a) : p[1] = i}
  BY <1>2, <1>3, <1>4, <1>5 DEF TouchedOn
<1>12. RequestsInOrder' /\ SubmissionIsSafe' /\ NoOrphans' /\ ReviewCountExact'
  BY <1>1, <1>10 DEF IInv, RequestsInOrder, SubmissionIsSafe, NoOrphans, ReviewCountExact
<1>13. \A p \in Pairs : p[1] \in Items /\ p[2] \in Reviewers /\ p = <<p[1], p[2]>>
  BY DEF Pairs
<1>14. MarksAreSafe'
  <2>1. OneAuthoritative'
    BY <1>1 DEF IInv, MarksAreSafe, OneAuthoritative
  <2>2. ASSUME NEW q \in Requests, request[q].pc = "committing", request[q].value = "auto"
        PROVE  ~HasAuthoritative(mark, request[q].item) /\ TouchedOn(request[q].item)' = {}
    <3>1. ~HasAuthoritative(mark, request[q].item) /\ TouchedOn(request[q].item) = {}
      BY <2>2 DEF IInv, MarksAreSafe
    <3>2. \A p \in ToTouch(a) : p[1] # request[q].item
      <4> SUFFICES ASSUME NEW p \in ToTouch(a), p[1] = request[q].item PROVE FALSE
        OBVIOUS
      <4>1. CASE form[a].needed > 1
        BY <1>5, <1>7, <1>13, <3>1, <4>1 DEF HasAuthoritative, Authoritative
      <4>2. CASE ~(form[a].needed > 1)
        <5>1. form[a].needed = 1
          BY <1>0, <4>2, RequiredRange DEF Form
        <5>2. p \in LoneReviews
          BY <4>2 DEF ToTouch
        <5>3. QED BY <1>1, <2>2, <5>1, <5>2 DEF MarkConflicts
      <4>3. QED BY <4>1, <4>2
    <3>3. PICK i : i = request[q].item
      OBVIOUS
    <3>4. i = request'[q].item /\ TouchedOn(i)' = {}
      BY <1>1, <1>11, <3>1, <3>2, <3>3
    <3>5. TouchedOn(request[q].item)' = {}
      BY <3>4
    <3>6. QED BY <1>1, <3>1, <3>5
  <2>3. ASSUME NEW b \in Admins, NEW p \in form'[b].touched, form'[b].needed = 1
        PROVE  ~HasAuthoritative(mark, p[1]) /\ TouchedOn(p[1])' = {p}
    <3>1. CASE b = a
      <4>1. p \in ToTouch(a) /\ p \in LoneReviews
        BY <1>2, <1>3, <2>3, <3>1 DEF ToTouch
      <4>2. p \in Pairs /\ mark[p] = "plain"
        BY <4>1 DEF LoneReviews
      <4>3. \A t \in Pairs : t[1] = p[1] /\ mark[t] # "none" => t = p
        BY <1>13, <4>1, LoneIsAlone
      <4>4. ~HasAuthoritative(mark, p[1])
        <5> SUFFICES ASSUME NEW r \in Reviewers, mark[<<p[1], r>>] \in Authoritative PROVE FALSE
          BY DEF HasAuthoritative
        <5>1. <<p[1], r>> = p
          BY <4>1, LoneIsAlone DEF Authoritative
        <5>2. QED BY <4>2, <5>1 DEF Authoritative
      <4>5. \A t \in TouchedOn(p[1])' : t \in Pairs /\ t[1] = p[1] /\ mark[t] # "none"
        BY <1>5, <1>7, <1>11 DEF TouchedOn, IInv, TouchedStable
      <4>6. p \in TouchedOn(p[1])'
        BY <1>11, <4>1
      <4>7. QED BY <4>3, <4>4, <4>5, <4>6
    <3>2. CASE b # a
      <4>1. p \in form[b].touched /\ form[b].needed = 1
        BY <1>3, <2>3, <3>2
      <4>2. ~HasAuthoritative(mark, p[1]) /\ TouchedOn(p[1]) = {p} /\ mark[p] = "plain"
        BY <4>1 DEF IInv, MarksAreSafe, TouchedStable
      <4>3. \A t \in ToTouch(a) : t[1] # p[1]
        <5> SUFFICES ASSUME NEW t \in ToTouch(a), t[1] = p[1] PROVE FALSE
          OBVIOUS
        <5>0. p \in Pairs
          BY <1>0, <4>1 DEF Form
        <5>1. CASE form[a].needed > 1
          BY <1>5, <1>7, <1>13, <4>2, <5>1 DEF HasAuthoritative, Authoritative
        <5>2. CASE ~(form[a].needed > 1)
          <6>1. t \in LoneReviews
            BY <5>2 DEF ToTouch
          <6>2. p = t
            BY <1>13, <4>2, <5>0, <6>1, LoneIsAlone
          <6>3. QED BY <1>6, <4>1, <6>2
        <5>3. QED BY <5>1, <5>2
      <4>4. TouchedOn(p[1])' = {p}
        BY <1>11, <4>2, <4>3
      <4>5. QED BY <4>2, <4>4
    <3>3. QED BY <3>1, <3>2
  <2>4. QED BY <1>1, <2>1, <2>2, <2>3 DEF MarksAreSafe
<1>15. QED BY <1>8, <1>9, <1>12, <1>14 DEF IInv

LEMMA ResyncCommitsStep ==
  ASSUME IInv, TypeOK', NEW a \in Admins, ResyncCommits(a)
  PROVE  IInv'
<1>0. /\ request \in [Requests -> Request] /\ form \in [Admins -> Form] /\ form[a] \in Form
      /\ mark \in [Pairs -> {"none", "plain", "auto", "picked"}]
      /\ status \in [Items -> Statuses \cup {"absent"}]
  BY DEF IInv, TypeOK
<1>1. /\ form' = [form EXCEPT ![a] = IdleForm] /\ mark' = MarksSeenBy(a)
      /\ UNCHANGED <<review_count, request>>
      /\ \A i \in Items : status'[i] = IF i \in form[a].locked THEN ResyncedStatus(a, i) ELSE status[i]
  BY DEF ResyncCommits
<1>2. form'[a] = IdleForm /\ \A b \in Admins \ {a} : form'[b] = form[b]
  BY <1>0, <1>1
<1>3. IdleForm.touched = {} /\ IdleForm.locked = {} /\ IdleForm.todo = {} /\ IdleForm.pc = "idle"
  BY DEF IdleForm
<1>4. \A p \in Pairs : mark'[p] = IF p \in form[a].touched THEN Rewritten(a) ELSE mark[p]
  BY <1>1 DEF MarksSeenBy
<1>5. \A p \in form[a].touched : p \in Pairs /\ mark[p] # "none"
  BY <1>0 DEF IInv, TouchedStable, Form
<1>6. \A p \in Pairs : mark'[p] # "none" <=> mark[p] # "none"
  BY <1>4, <1>5 DEF Rewritten
<1>7. \A i \in Items : ReviewersOf(i)' = ReviewersOf(i)
  BY <1>6 DEF ReviewersOf, Pairs
<1>8. \A i \in Items : /\ (status'[i] = "absent") <=> (status[i] = "absent")
                       /\ (status'[i] = "flagged") <=> (status[i] = "flagged")
  <2>1. \A i \in form[a].locked : ResyncedStatus(a, i) \notin {"absent", "flagged"}
    BY DEF ResyncedStatus, ItemStatus
  <2>2. \A i \in form[a].locked : status[i] \notin {"absent", "flagged"}
    BY DEF IInv, OneHolder
  <2>3. QED BY <1>1, <2>1, <2>2
<1>9. /\ \A b \in Admins : form'[b].touched \subseteq form[b].touched /\ form'[b].locked \subseteq form[b].locked
      /\ \A b \in Admins : form'[b].touched # {} => b # a /\ form'[b] = form[b]
      /\ \A b \in Admins : form'[b].locked # {} => b # a /\ form'[b] = form[b]
  BY <1>2, <1>3
<1>10. OneHolder'
  <2>1. \A p, i : Holds(p, i)' <=> Holds(p, i)
    BY <1>1 DEF Holds
  <2>2. ASSUME NEW b \in Admins, NEW i \in form'[b].locked
        PROVE  /\ \A p \in Requests : ~Holds(p, i)
               /\ status'[i] \notin {"flagged", "absent"}
               /\ \A c \in Admins : i \in form'[c].locked => b = c
    <3>1. i \in form[b].locked /\ i \in Items
      BY <1>0, <1>9 DEF Form
    <3>2. /\ \A p \in Requests : ~Holds(p, i)
          /\ status[i] \notin {"flagged", "absent"}
          /\ \A c \in Admins : i \in form[c].locked => b = c
      BY <3>1 DEF IInv, OneHolder
    <3>3. status'[i] \notin {"flagged", "absent"}
      BY <1>8, <3>1, <3>2
    <3>4. \A c \in Admins : i \in form'[c].locked => b = c
      BY <1>9, <3>2
    <3>5. QED BY <3>2, <3>3, <3>4
  <2>3. \A p, q \in Requests, i \in Items : Holds(p, i)' /\ Holds(q, i)' => p = q
    BY <2>1 DEF IInv, OneHolder
  <2>4. \A q \in Requests, i \in Items : Holds(q, i)' => status'[i] # "absent"
    BY <1>8, <2>1 DEF IInv, OneHolder
  <2>5. \A b \in Admins : \A i \in form'[b].locked : \A p \in Requests : ~Holds(p, i)'
    BY <2>1, <2>2
  <2>6. QED BY <2>2, <2>3, <2>4, <2>5 DEF OneHolder
<1>11. FormsInOrder'
  BY <1>2, <1>3 DEF IInv, FormsInOrder
<1>12. \A b \in Admins : \A p \in form'[b].touched :
         /\ b # a /\ p \in form[b].touched /\ form'[b].needed = form[b].needed
         /\ p \in Pairs /\ p \notin form[a].touched /\ mark'[p] = mark[p]
  <2> SUFFICES ASSUME NEW b \in Admins, NEW p \in form'[b].touched
               PROVE  /\ b # a /\ p \in form[b].touched /\ form'[b].needed = form[b].needed
                      /\ p \in Pairs /\ p \notin form[a].touched /\ mark'[p] = mark[p]
    OBVIOUS
  <2>1. b # a /\ p \in form[b].touched /\ form'[b].needed = form[b].needed
    BY <1>9
  <2>2. p \in Pairs
    BY <1>0, <2>1 DEF Form
  <2>3. p \notin form[a].touched
    BY <2>1 DEF IInv, TouchedStable
  <2>4. QED BY <1>4, <2>1, <2>2, <2>3
<1>13. TouchedStable'
  <2> SUFFICES ASSUME NEW b \in Admins, NEW p \in form'[b].touched
               PROVE  /\ mark'[p] = IF form'[b].needed > 1 THEN "auto" ELSE "plain"
                      /\ \A c \in Admins : p \in form'[c].touched => b = c
    BY DEF TouchedStable
  <2>1. QED BY <1>9, <1>12 DEF IInv, TouchedStable
<1>14. RequestsInOrder'
  BY <1>1 DEF IInv, RequestsInOrder
<1>15. ASSUME NEW q \in Requests, request[q].pc = "committing"
       PROVE  request[q].item \in Items /\ request[q].reviewer \in Reviewers
  BY <1>15 DEF IInv, RequestsInOrder
<1>16. SubmissionIsSafe'
  <2> SUFFICES ASSUME NEW q \in Requests, request[q].pc = "committing"
               PROVE  /\ mark'[<<request[q].item, request[q].reviewer>>] = "none"
                      /\ request[q].count = Cardinality(ReviewersOf(request[q].item)' \cup {request[q].reviewer})
                      /\ status'[request[q].item] = "flagged" => request[q].status = "flagged"
    BY <1>1 DEF SubmissionIsSafe
  <2>1. PICK i \in Items, r \in Reviewers : i = request[q].item /\ r = request[q].reviewer
    BY <1>15
  <2>2. mark[<<i, r>>] = "none" /\ request[q].count = Cardinality(ReviewersOf(i) \cup {r})
        /\ (status[i] = "flagged" => request[q].status = "flagged")
    BY <2>1 DEF IInv, SubmissionIsSafe
  <2>3. mark'[<<i, r>>] = "none"
    BY <1>6, <2>2 DEF Pairs
  <2>4. ReviewersOf(i)' = ReviewersOf(i)
    BY <1>7
  <2>4a. status'[i] = "flagged" <=> status[i] = "flagged"
    BY <1>8
  <2>4b. i = request'[q].item
    BY <1>1, <2>1
  <2>5. ReviewersOf(request[q].item)' = ReviewersOf(i)
    BY <2>4, <2>4b
  <2>6. QED BY <1>1, <2>1, <2>2, <2>3, <2>4, <2>4a, <2>5
<1>17. NoOrphans' /\ ReviewCountExact'
  <2>1. \A p \in Pairs : p[1] \in Items
    BY DEF Pairs
  <2>2. ASSUME NEW p \in Pairs, mark'[p] # "none" PROVE status'[p[1]] # "absent"
    <3>1. p[1] \in Items /\ mark[p] # "none"
      BY <1>6, <2>1, <2>2
    <3>2. status[p[1]] # "absent"
      BY <3>1 DEF IInv, NoOrphans
    <3>3. QED BY <1>8, <3>1, <3>2
  <2>3. ASSUME NEW i \in Items, status'[i] # "absent"
        PROVE  review_count'[i] = Cardinality(ReviewersOf(i)')
    <3>1. review_count[i] = Cardinality(ReviewersOf(i))
      BY <1>8, <2>3 DEF IInv, ReviewCountExact
    <3>2. ReviewersOf(i)' = ReviewersOf(i)
      BY <1>7
    <3>3. QED BY <1>1, <3>1, <3>2
  <2>4. QED BY <2>2, <2>3 DEF NoOrphans, ReviewCountExact
<1>18. \A i \in Items : (\A p \in form[a].touched : p[1] # i) =>
         HasAuthoritative(mark', i) = HasAuthoritative(mark, i)
  BY <1>4 DEF HasAuthoritative, Pairs
<1>19. \A i : TouchedOn(i)' \subseteq TouchedOn(i)
  BY <1>9 DEF TouchedOn
<1>20. \A i : \A p \in form[a].touched : p[1] = i => p \in TouchedOn(i)
  BY <1>5 DEF TouchedOn
<1>21. OneAuthoritative'
  <2> SUFFICES ASSUME NEW i \in Items, NEW r \in Reviewers, NEW s \in Reviewers,
                      mark'[<<i, r>>] \in Authoritative, mark'[<<i, s>>] \in Authoritative
               PROVE  r = s
    BY DEF OneAuthoritative
  <2>0. <<i, r>> \in Pairs /\ <<i, s>> \in Pairs
    BY DEF Pairs
  <2>1. CASE form[a].needed > 1
    <3>1. mark[<<i, r>>] \in Authoritative /\ mark[<<i, s>>] \in Authoritative
      BY <1>4, <2>0, <2>1 DEF Rewritten, Authoritative
    <3>2. QED BY <3>1 DEF IInv, MarksAreSafe, OneAuthoritative
  <2>2. CASE ~(form[a].needed > 1)
    <3>1. form[a].needed = 1
      BY <1>0, <2>2, RequiredRange DEF Form
    <3>2. \A p \in form[a].touched : ~HasAuthoritative(mark, p[1]) /\ TouchedOn(p[1]) = {p}
      BY <3>1 DEF IInv, MarksAreSafe
    <3>3. CASE <<i, r>> \in form[a].touched \/ <<i, s>> \in form[a].touched
      <4>1. ~HasAuthoritative(mark, i)
        BY <3>2, <3>3
      <4>2. <<i, r>> \in form[a].touched /\ <<i, s>> \in form[a].touched
        BY <1>4, <2>0, <4>1 DEF HasAuthoritative
      <4>3. <<i, r>> \in TouchedOn(i) /\ <<i, s>> \in TouchedOn(i)
        BY <1>20, <4>2
      <4>4. QED BY <3>2, <4>2, <4>3
    <3>4. CASE <<i, r>> \notin form[a].touched /\ <<i, s>> \notin form[a].touched
      BY <1>4, <2>0, <3>4 DEF IInv, MarksAreSafe, OneAuthoritative
    <3>5. QED BY <3>3, <3>4
  <2>3. QED BY <2>1, <2>2
<1>22. MarksAreSafe'
  <2>1. ASSUME NEW q \in Requests, request[q].pc = "committing", request[q].value = "auto"
        PROVE  ~HasAuthoritative(mark', request[q].item) /\ TouchedOn(request[q].item)' = {}
    <3>1. ~HasAuthoritative(mark, request[q].item) /\ TouchedOn(request[q].item) = {}
      BY <2>1 DEF IInv, MarksAreSafe
    <3>2. PICK i \in Items : i = request[q].item
      BY <1>15, <2>1
    <3>3. i = request'[q].item
      BY <1>1, <3>2
    <3>4. \A p \in form[a].touched : p[1] # i
      BY <1>20, <3>1, <3>2
    <3>5. ~HasAuthoritative(mark', i)
      BY <1>18, <3>1, <3>2, <3>4
    <3>6. TouchedOn(i)' = {}
      BY <1>19, <3>1, <3>2
    <3>7. TouchedOn(request[q].item)' = {}
      BY <3>3, <3>6
    <3>8. QED BY <3>2, <3>5, <3>7
  <2>2. ASSUME NEW b \in Admins, NEW p \in form'[b].touched, form'[b].needed = 1
        PROVE  ~HasAuthoritative(mark', p[1]) /\ TouchedOn(p[1])' = {p}
    <3>1. p \in form[b].touched /\ form[b].needed = 1 /\ p \in Pairs /\ p \notin form[a].touched
      BY <1>12, <2>2
    <3>2. ~HasAuthoritative(mark, p[1]) /\ TouchedOn(p[1]) = {p}
      BY <3>1 DEF IInv, MarksAreSafe
    <3>3. \A t \in form[a].touched : t[1] # p[1]
      BY <1>20, <3>1, <3>2
    <3>4. p[1] \in Items
      BY <3>1 DEF Pairs
    <3>5. p \in TouchedOn(p[1])'
      BY <2>2, <3>1 DEF TouchedOn
    <3>6. HasAuthoritative(mark', p[1]) = HasAuthoritative(mark, p[1])
      BY <1>18, <3>3, <3>4
    <3>7. TouchedOn(p[1])' \subseteq {p}
      BY <1>19, <3>2
    <3>8. QED BY <3>2, <3>5, <3>6, <3>7
  <2>3. QED BY <1>1, <1>21, <2>1, <2>2 DEF MarksAreSafe
<1>23. QED BY <1>10, <1>11, <1>13, <1>14, <1>16, <1>17, <1>22 DEF IInv

-----------------------------------------------------------------------------
(* The invariant.                                                          *)

LEMMA InvariantStep == ASSUME IInv, [Next]_vars PROVE IInv'
<1>0. TypeOK'
  BY TypeStep DEF IInv
<1>1. ASSUME NEW q \in Requests, RequestStep(q) \/ RequestDies(q) PROVE IInv'
  <2>1. CASE SubmitLocks(q) \/ SubmitInserts(q) \/ PickLocks(q)
    BY <1>0, <2>1, RequestMoves
  <2>2. CASE SubmitRefused(q) \/ RequestMisses(q) \/ RequestDies(q)
    BY <1>0, <2>2, RequestEnds DEF SubmitRefused, RequestMisses, RequestDies, rows
  <2>3. CASE SubmitCommits(q)
    BY <1>0, <2>3, CommitSteps DEF SubmitCommits
  <2>4. CASE PickCommits(q)
    BY <1>0, <2>4, PickStep
  <2>5. CASE UnflagCommits(q)
    BY <1>0, <2>5, UnflagStep
  <2>6. QED BY <1>1, <2>1, <2>2, <2>3, <2>4, <2>5 DEF RequestStep
<1>2. ASSUME NEW a \in Admins, FormStep(a) \/ FormDies(a) PROVE IInv'
  <2>1. CASE FormSaves(a) \/ ResyncLists(a) \/ (\E i \in Items : ResyncLocks(a, i))
    BY <1>0, <2>1, FormMoves
  <2>2. CASE ResyncMarks(a)
    BY <1>0, <2>2, ResyncMarksStep
  <2>3. CASE ResyncCommits(a)
    BY <1>0, <2>3, ResyncCommitsStep
  <2>4. ASSUME NEW q \in Requests, ResyncRefused(a, q) PROVE IInv'
    <3>1. \A b \in Admins : form'[b] = form[b] \/ (form[b].pc = "marking" /\ form'[b] = IdleForm)
      BY <2>4 DEF ResyncRefused, IInv, TypeOK
    <3>2. QED BY <1>0, <2>4, <3>1, CommitSteps DEF ResyncRefused
  <2>5. CASE FormDies(a)
    BY <1>0, <2>5, FormEnds DEF FormDies, rows
  <2>6. QED BY <1>2, <2>1, <2>2, <2>3, <2>4, <2>5 DEF FormStep
<1>3. ASSUME NEW a \in Admins, NEW q \in Requests, DeadlockBroken(a, q) PROVE IInv'
  BY <1>0, <1>3, FormEnds, RequestEnds DEF DeadlockBroken, rows
<1>4. CASE Users
  <2>1. ASSUME NEW i \in Items, AddItem(i) \/ RemoveItem(i) \/ FlagItem(i) PROVE IInv'
    BY <1>0, <2>1, ItemSteps
  <2>2. ASSUME NEW q \in Requests,
               \/ \E i \in Items : UnflagLocks(q, i)
               \/ \E i \in Items, r \in Reviewers : SubmitStarts(q, i, r)
               \/ \E i \in Items, r \in Reviewers, v \in Choices : PickStarts(q, i, r, v)
        PROVE  IInv'
    BY <1>0, <2>2, RequestMoves
  <2>3. ASSUME NEW a \in Admins, NEW needed \in 1..MaxRequired, FormLoads(a, needed) PROVE IInv'
    BY <1>0, <2>3, FormMoves
  <2>4. QED BY <1>4, <2>1, <2>2, <2>3 DEF Users
<1>5. CASE UNCHANGED vars
  <2>1. UNCHANGED <<required, status, review_count, mark, request, form>>
    BY <1>5 DEF vars, rows
  <2>2. QED
    BY <1>0, <2>1 DEF IInv, OneHolder, Holds, FormsInOrder, TouchedStable, RequestsInOrder,
       SubmissionIsSafe, ReviewersOf, MarksAreSafe, OneAuthoritative, TouchedOn, NoOrphans,
       ReviewCountExact
<1>6. QED BY <1>1, <1>2, <1>3, <1>4, <1>5 DEF Next

LEMMA InvariantInit == Init => IInv
<1> SUFFICES ASSUME Init PROVE IInv
  OBVIOUS
<1>1. TypeOK
  BY TypeInit
<1>2. /\ \A q \in Requests : request[q].pc = "idle"
      /\ \A a \in Admins : /\ form[a].touched = {} /\ form[a].locked = {}
                            /\ form[a].todo = {} /\ form[a].pc = "idle"
      /\ \A p \in Pairs : mark[p] = "none"
      /\ \A i \in Items : status[i] = "absent"
  BY DEF Init, IdleRequest, IdleForm
<1>3. \A i \in Items, r \in Reviewers : mark[<<i, r>>] = "none"
  BY <1>2 DEF Pairs
<1>4. OneHolder /\ FormsInOrder /\ TouchedStable /\ RequestsInOrder /\ SubmissionIsSafe
  BY <1>2 DEF OneHolder, Holds, LockPoints, FormsInOrder, TouchedStable, RequestsInOrder,
     SubmissionIsSafe
<1>5. MarksAreSafe /\ NoOrphans /\ ReviewCountExact
  BY <1>2, <1>3 DEF MarksAreSafe, OneAuthoritative, Authoritative, NoOrphans, ReviewCountExact
<1>6. QED BY <1>1, <1>4, <1>5 DEF IInv

\* What the locks of the requests and of the resyncs protect, in every state.
THEOREM QueueSafety == Spec => []IInv
  BY InvariantInit, InvariantStep, PTL DEF Spec

\* The recounted review_count of every item is the number of its annotations,
\* however submissions, resyncs and removals interleave (models.py:350).
THEOREM CountsAreExact == Spec => []ReviewCountExact
<1>1. IInv => ReviewCountExact
  BY DEF IInv
<1>2. QED BY <1>1, QueueSafety, PTL

\* No item ever has two authoritative annotations: picks clear the others, and
\* the waits of the database keep submissions and resyncs from adding one.
THEOREM MarksAreUnique == Spec => []OneAuthoritative
<1>1. IInv => OneAuthoritative
  BY DEF IInv, MarksAreSafe
<1>2. QED BY <1>1, QueueSafety, PTL
-----------------------------------------------------------------------------
(* What no step may take back.                                             *)

\* The steps that write annotations or statuses, and what the others keep.
LEMMA RowsMoveBy ==
  ASSUME [Next]_vars
  PROVE  \/ UNCHANGED <<mark, status>>
         \/ \E i \in Items : AddItem(i) \/ RemoveItem(i) \/ FlagItem(i)
         \/ \E q \in Requests : Commits(q) \/ PickCommits(q) \/ UnflagCommits(q)
         \/ \E a \in Admins : ResyncCommits(a)
<1>1. ASSUME NEW q \in Requests, RequestStep(q)
      PROVE  UNCHANGED <<mark, status>> \/ Commits(q) \/ PickCommits(q) \/ UnflagCommits(q)
  BY <1>1 DEF RequestStep, SubmitLocks, SubmitInserts, SubmitRefused, SubmitCommits, PickLocks,
     RequestMisses, rows
<1>2. ASSUME NEW a \in Admins, FormStep(a)
      PROVE  UNCHANGED <<mark, status>> \/ ResyncCommits(a) \/ \E q \in Requests : Commits(q)
  BY <1>2 DEF FormStep, FormSaves, ResyncMarks, ResyncLists, ResyncLocks, ResyncRefused, rows
<1>3. ASSUME NEW q \in Requests, RequestDies(q) PROVE UNCHANGED <<mark, status>>
  BY <1>3 DEF RequestDies, rows
<1>4. ASSUME NEW a \in Admins, FormDies(a) PROVE UNCHANGED <<mark, status>>
  BY <1>4 DEF FormDies, rows
<1>5. ASSUME NEW a \in Admins, NEW q \in Requests, DeadlockBroken(a, q)
      PROVE  UNCHANGED <<mark, status>>
  BY <1>5 DEF DeadlockBroken, rows
<1>6. CASE Users
  BY <1>6 DEF Users, UnflagLocks, SubmitStarts, PickStarts, FormLoads, rows
<1>7. CASE UNCHANGED vars
  BY <1>7 DEF vars, rows
<1>8. QED BY <1>1, <1>2, <1>3, <1>4, <1>5, <1>6, <1>7 DEF Next

LEMMA PickedStays ==
  ASSUME IInv, [Next]_vars, NEW p \in Pairs, mark[p] = "picked", mark'[p] # "picked"
  PROVE  \/ status'[p[1]] = "absent"
         \/ \E q \in Requests : request[q].pc = "choosing" /\ request[q].item = p[1]
<1>1. p[1] \in Items /\ status \in [Items -> Statuses \cup {"absent"}]
  BY DEF Pairs, IInv, TypeOK
<1>2. ASSUME NEW i \in Items, AddItem(i) \/ RemoveItem(i) \/ FlagItem(i)
      PROVE  status'[p[1]] = "absent"
  BY <1>1, <1>2 DEF AddItem, RemoveItem, FlagItem
<1>3. ASSUME NEW q \in Requests, Commits(q) PROVE FALSE
  <2>1. mark[<<request[q].item, request[q].reviewer>>] = "none"
    BY <1>3 DEF Commits, IInv, SubmissionIsSafe
  <2>2. QED BY <1>3, <2>1 DEF Commits, IInv, TypeOK
<1>4. ASSUME NEW q \in Requests, PickCommits(q)
      PROVE  request[q].pc = "choosing" /\ request[q].item = p[1]
  <2>1. request[q].pc = "choosing"
    BY <1>4 DEF PickCommits
  <2>2. p = Chosen(q) \/ p \in Siblings(q)
    BY <1>4 DEF PickCommits
  <2>3. QED BY <2>1, <2>2 DEF Chosen, Siblings
<1>5. ASSUME NEW q \in Requests, UnflagCommits(q) PROVE FALSE
  BY <1>5 DEF UnflagCommits
<1>6. ASSUME NEW a \in Admins, ResyncCommits(a) PROVE FALSE
  <2>1. p \notin form[a].touched
    BY DEF IInv, TouchedStable
  <2>2. QED BY <1>6, <2>1 DEF ResyncCommits, MarksSeenBy
<1>7. QED BY <1>2, <1>3, <1>4, <1>5, <1>6, RowsMoveBy

LEMMA FlaggedStays ==
  ASSUME IInv, [Next]_vars, NEW i \in Items, status[i] = "flagged", status'[i] # "flagged"
  PROVE  \/ status'[i] = "absent"
         \/ \E q \in Requests : request[q].pc = "unflagging" /\ request[q].item = i
<1>1. status \in [Items -> Statuses \cup {"absent"}]
  BY DEF IInv, TypeOK
<1>2. ASSUME NEW j \in Items, AddItem(j) \/ RemoveItem(j) \/ FlagItem(j)
      PROVE  status'[i] = "absent"
  BY <1>1, <1>2 DEF AddItem, RemoveItem, FlagItem
<1>3. ASSUME NEW q \in Requests, Commits(q) PROVE FALSE
  <2>1. status[request[q].item] = "flagged" => request[q].status = "flagged"
    BY <1>3 DEF Commits, IInv, SubmissionIsSafe
  <2>2. QED BY <1>1, <1>3, <2>1 DEF Commits
<1>4. ASSUME NEW q \in Requests, PickCommits(q) PROVE FALSE
  BY <1>1, <1>4 DEF PickCommits, NextStatus
<1>5. ASSUME NEW q \in Requests, UnflagCommits(q)
      PROVE  request[q].pc = "unflagging" /\ request[q].item = i
  BY <1>1, <1>5 DEF UnflagCommits
<1>6. ASSUME NEW a \in Admins, ResyncCommits(a) PROVE FALSE
  <2>1. i \notin form[a].locked
    BY DEF IInv, OneHolder
  <2>2. QED BY <1>6, <2>1 DEF ResyncCommits
<1>7. QED BY <1>2, <1>3, <1>4, <1>5, <1>6, RowsMoveBy

\* Only an admin's own request, or the removal of the item, takes back what an
\* admin has picked, whatever submissions and resyncs have read before.
THEOREM PicksAreKept == Spec => PicksKept
<1>1. IInv /\ [Next]_vars =>
        \A p \in Pairs :
          mark[p] = "picked" /\ mark'[p] # "picked" =>
            \/ status'[p[1]] = "absent"
            \/ \E q \in Requests : request[q].pc = "choosing" /\ request[q].item = p[1]
  BY PickedStays
<1>2. QED BY <1>1, QueueSafety, PTL DEF Spec, PicksKept

\* Only an unflag request, or the removal of the item, ends a flag.
THEOREM FlagsAreSticky == Spec => FlagSticky
<1>1. IInv /\ [Next]_vars =>
        \A i \in Items :
          status[i] = "flagged" /\ status'[i] # "flagged" =>
            \/ status'[i] = "absent"
            \/ \E q \in Requests : request[q].pc = "unflagging" /\ request[q].item = i
  BY FlaggedStays
<1>2. QED BY <1>1, QueueSafety, PTL DEF Spec, FlagSticky

\* Together: what admins decided stays until an admin decides otherwise.
THEOREM DecisionsStay == Spec => AdminsDecide
BY PicksAreKept, FlagsAreSticky DEF AdminsDecide

-----------------------------------------------------------------------------
\* The statuses, as long as no form overlaps with a request: statuses are in sync
\* whenever no form is being saved, what a request will commit keeps them so, and
\* a form that is alone finds everything as it was when it was loaded.

\* What request q is about to write suits what it has locked.
RequestSynced(q) ==
  LET i == request[q].item
  IN  /\ request[q].pc = "inserting" /\ request[q].value = "auto" => ~HasAuthoritative(mark, i)
      /\ request[q].pc = "committing" =>
           request[q].status \in
             {"flagged", ItemStatus(request[q].count, required,
                                    request[q].value = "auto" \/ HasAuthoritative(mark, i))}
      /\ request[q].pc = "unflagging" =>
           request[q].status = ItemStatus(review_count[i], required, HasAuthoritative(mark, i))

AllInSync == \A i \in Items : InSync(i)

Alone(a) == RequestsQuiet /\ \A b \in Admins \ {a} : form[b].pc = "idle"

\* How far the form of a has come.
FormSynced(a) ==
  /\ form[a].pc = "saving" => form[a].base = required /\ AllInSync
  /\ form[a].pc \in {"marking", "listing", "locking"} => required = form[a].needed
  /\ form[a].pc = "locking" =>
       /\ form[a].todo \union form[a].locked = {i \in Items : StillListed(i)}
       /\ form[a].seen = {i \in Items : HasAuthoritative(MarksSeenBy(a), i)}

SyncInv ==
  trouble = "none" =>
    /\ ~refused
    /\ \A a \in Admins : form[a].pc # "idle" => Alone(a) /\ FormSynced(a)
    /\ FormsQuiet => AllInSync /\ \A q \in Requests : RequestSynced(q)

\* Trouble is never forgotten, and a step beside a form that is being saved is trouble.
LEMMA TroubleStays == ASSUME TypeOK, [Next]_vars, trouble' = "none" PROVE trouble = "none"
<1>1. \A b : Worsened(b) = "none" => trouble = "none" BY DEF Worsened
<1>2. NotesForms \/ (\E a \in Admins : NotesOthers(a)) => trouble = "none"
  BY <1>1 DEF NotesForms, NotesOthers
<1> HIDE DEF NotesForms, NotesOthers
<1>3. ASSUME NEW q \in Requests, RequestStep(q) \/ RequestDies(q) PROVE NotesForms
  BY <1>3 DEF RequestStep, SubmitLocks, SubmitInserts, SubmitRefused, SubmitCommits, Commits,
     PickLocks, PickCommits, UnflagCommits, RequestMisses, RequestDies
<1>4. ASSUME NEW a \in Admins, FormStep(a) PROVE NotesForms \/ NotesOthers(a)
  BY <1>4 DEF FormStep, FormSaves, ResyncMarks, ResyncLists, ResyncLocks, ResyncCommits,
     ResyncRefused, Commits
<1>5. ASSUME NEW a \in Admins, FormDies(a) PROVE FALSE BY <1>5 DEF FormDies
<1>6. ASSUME NEW a \in Admins, NEW q \in Requests, DeadlockBroken(a, q) PROVE NotesForms
  BY <1>6 DEF DeadlockBroken
<1>7. Users => NotesForms \/ \E a \in Admins : NotesOthers(a)
  BY DEF Users, AddItem, RemoveItem, FlagItem, UnflagLocks, SubmitStarts, PickStarts, FormLoads
<1>8. UNCHANGED vars => trouble = "none" BY DEF vars
<1> QED BY <1>2, <1>3, <1>4, <1>5, <1>6, <1>7, <1>8 DEF Next

LEMMA NotedForms == ASSUME NotesForms, trouble' = "none" PROVE FormsQuiet
BY DEF NotesForms, Worsened

LEMMA NotedOthers == ASSUME NEW a, NotesOthers(a), trouble' = "none" PROVE Alone(a)
BY DEF NotesOthers, Worsened, Alone

\* Item i and its annotations stay as they are.
RowKept(i) ==
  /\ status'[i] = status[i] /\ review_count'[i] = review_count[i]
  /\ \A r \in Reviewers : mark'[<<i, r>>] = mark[<<i, r>>]

LEMMA KeptMarks ==
  ASSUME NEW i, RowKept(i) PROVE HasAuthoritative(mark', i) <=> HasAuthoritative(mark, i)
BY DEF RowKept, HasAuthoritative

LEMMA KeptInSync ==
  ASSUME NEW i, RowKept(i), required' = required, InSync(i) PROVE InSync(i)'
<1>1. HasAuthoritative(mark', i) <=> HasAuthoritative(mark, i) BY KeptMarks
<1> QED BY <1>1 DEF RowKept, InSync, ItemStatus

LEMMA KeptRequest ==
  ASSUME NEW q \in Requests, RequestSynced(q), request'[q] = request[q], required' = required,
         request[q].pc \in LockPoints => RowKept(request[q].item)
  PROVE  RequestSynced(q)'
<1>1. CASE request[q].pc \in LockPoints
  <2>1. /\ HasAuthoritative(mark', request[q].item) <=> HasAuthoritative(mark, request[q].item)
        /\ review_count'[request[q].item] = review_count[request[q].item]
    BY <1>1, KeptMarks DEF RowKept
  <2> QED BY <2>1 DEF RequestSynced, ItemStatus
<1>2. CASE request[q].pc \notin LockPoints
  BY <1>2 DEF RequestSynced, LockPoints
<1> QED BY <1>1, <1>2

LEMMA SuitsInSync ==
  ASSUME NEW i,
         \/ status'[i] = "flagged"
         \/ status'[i] = ItemStatus(review_count'[i], required', HasAuthoritative(mark', i))
  PROVE  InSync(i)'
<1> DEFINE s == ItemStatus(review_count'[i], required', HasAuthoritative(mark', i))
<1>1. InSync(i)' <=> status'[i] \in {"absent", "flagged", s} BY Zenon DEF InSync
<1>2. status'[i] = "flagged" \/ status'[i] = s OBVIOUS
<1> HIDE DEF s
<1> QED BY <1>1, <1>2

\* Without a form: what a step writes of an item suits it, and who holds that item
\* is done.
LEMMA RequestsKeepSync ==
  ASSUME IInv, SyncInv, trouble = "none", FormsQuiet, ~refused', UNCHANGED <<required, form>>,
         \A i \in Items : \/ RowKept(i)
                          \/ /\ InSync(i)'
                             /\ \A q \in Requests : Holds(q, i) => request'[q] = IdleRequest,
         \A q \in Requests : \/ request'[q] \in {request[q], IdleRequest}
                             \/ RequestSynced(q)'
  PROVE  SyncInv'
<1>1. AllInSync /\ \A q \in Requests : RequestSynced(q) BY DEF SyncInv
<1>2. AllInSync' BY <1>1, KeptInSync DEF AllInSync
<1>3. ASSUME NEW q \in Requests PROVE RequestSynced(q)'
  <2>1. CASE request'[q] = IdleRequest BY <2>1 DEF IdleRequest, RequestSynced
  <2>2. CASE request'[q] = request[q] /\ request'[q] # IdleRequest
    <3>1. request[q].pc \in LockPoints => request[q].item \in Items
      BY DEF IInv, RequestsInOrder, LockPoints
    <3>2. request[q].pc \in LockPoints => Holds(q, request[q].item) BY DEF Holds
    <3>3. request[q].pc \in LockPoints => RowKept(request[q].item) BY <2>2, <3>1, <3>2
    <3> QED BY <1>1, <2>2, <3>3, KeptRequest
  <2> QED BY <2>1, <2>2
<1>4. FormsQuiet' BY DEF FormsQuiet
<1> QED BY <1>2, <1>3, <1>4 DEF SyncInv, FormsQuiet

LEMMA IdleIsSynced == ASSUME RequestsQuiet, NEW q \in Requests PROVE RequestSynced(q)
BY DEF RequestsQuiet, RequestSynced

\* A form that is alone: only it moves.
LEMMA FormsKeepSync ==
  ASSUME IInv, SyncInv, trouble = "none", NEW a \in Admins, Alone(a), NEW f,
         form' = [form EXCEPT ![a] = f], UNCHANGED <<request, refused>>,
         f.pc # "idle" => FormSynced(a)',
         f.pc = "idle" => AllInSync'
  PROVE  SyncInv'
<1>1. form'[a] = f /\ \A b \in Admins \ {a} : form'[b].pc = "idle"
  BY DEF IInv, TypeOK, Alone
<1>2. RequestsQuiet' BY DEF Alone, RequestsQuiet
<1>3. \A q \in Requests : RequestSynced(q)' BY <1>2 DEF RequestsQuiet, RequestSynced
<1>4. Alone(a)' BY <1>1, <1>2 DEF Alone
<1>5. FormsQuiet' => f.pc = "idle" BY <1>1 DEF FormsQuiet
<1> QED BY <1>1, <1>3, <1>4, <1>5 DEF SyncInv

LEMMA RowsKept ==
  ASSUME UNCHANGED rows PROVE \A i \in Items : RowKept(i)
BY DEF rows, RowKept

\* Users and requests, one action at a time.
LEMMA UserSteps ==
  ASSUME IInv, SyncInv, trouble' = "none", trouble = "none", NEW i \in Items,
         AddItem(i) \/ RemoveItem(i) \/ FlagItem(i)
  PROVE  SyncInv'
<1>1. FormsQuiet BY NotedForms DEF AddItem, RemoveItem, FlagItem
<1>2. UNCHANGED <<required, form, request, refused>> /\ ~refused
  BY DEF AddItem, RemoveItem, FlagItem, SyncInv
<1>3. \A q \in Requests : ~Holds(q, i)
  BY DEF AddItem, RemoveItem, FlagItem, Locked, IInv, OneHolder
<1>4. \A j \in Items \ {i} : RowKept(j)
  BY DEF AddItem, RemoveItem, FlagItem, RowKept, IInv, TypeOK, Pairs
<1>5. InSync(i)'
  <2>1. CASE AddItem(i)
    <3>1. status'[i] = "pending" /\ review_count'[i] = 0 BY <2>1 DEF AddItem, IInv, TypeOK
    <3>2. \A n, b : ItemStatus(0, n, b) = "pending" BY DEF ItemStatus
    <3> QED BY <3>1, <3>2 DEF InSync
  <2>2. CASE RemoveItem(i) BY <2>2 DEF RemoveItem, InSync, IInv, TypeOK
  <2>3. CASE FlagItem(i) BY <2>3 DEF FlagItem, InSync, IInv, TypeOK
  <2> QED BY <2>1, <2>2, <2>3
<1> QED BY <1>1, <1>2, <1>3, <1>4, <1>5, RequestsKeepSync

\* Steps of a request that write nothing: what it remembers suits what it locked.
LEMMA ReadSteps ==
  ASSUME IInv, SyncInv, trouble' = "none", trouble = "none", NEW q \in Requests, FormsQuiet,
         UNCHANGED <<rows, form>>, ~refused', NEW r, request' = [request EXCEPT ![q] = r],
         r # IdleRequest => RequestSynced(q)'
  PROVE  SyncInv'
<1>1. UNCHANGED required /\ \A i \in Items : RowKept(i) BY RowsKept DEF rows
<1>2. request'[q] = r /\ \A p \in Requests \ {q} : request'[p] = request[p]
  BY DEF IInv, TypeOK
<1> QED BY <1>1, <1>2, RequestsKeepSync

LEMMA RequestReads ==
  ASSUME IInv, SyncInv, trouble' = "none", trouble = "none", NEW q \in Requests,
         SubmitLocks(q) \/ SubmitInserts(q) \/ SubmitRefused(q) \/ PickLocks(q)
           \/ RequestMisses(q) \/ RequestDies(q)
  PROVE  SyncInv'
<1> DEFINE i == request[q].item
<1>0. request[q] \in Request /\ IdleRequest.pc = "idle" BY DEF IInv, TypeOK, IdleRequest
<1>1. FormsQuiet /\ UNCHANGED <<rows, form>>
  BY NotedForms DEF SubmitLocks, SubmitInserts, SubmitRefused, PickLocks, RequestMisses,
                    RequestDies
<1>2. RequestSynced(q) /\ ~refused BY <1>1 DEF SyncInv
<1>3. mark' = mark /\ required' = required /\ review_count' = review_count /\ status' = status
  BY <1>1 DEF rows
<1>4. CASE SubmitLocks(q)
  <2>1. request' = [request EXCEPT ![q] =
                      [request[q] EXCEPT !.pc = "inserting", !.value = AutoMark(i)]]
    BY <1>4 DEF SubmitLocks
  <2>2. request'[q] = [request[q] EXCEPT !.pc = "inserting", !.value = AutoMark(i)]
    BY <2>1 DEF IInv, TypeOK
  <2>3. /\ request'[q].pc = "inserting" /\ request'[q].value = AutoMark(i)
        /\ request'[q].item = i
    BY <1>0, <2>2 DEF Request
  <2>4. AutoMark(i) = "auto" => ~HasAuthoritative(mark, i) BY DEF AutoMark
  <2>5. RequestSynced(q)' BY <1>3, <2>3, <2>4 DEF RequestSynced
  <2> QED BY <1>1, <1>2, <1>4, <2>1, <2>5, ReadSteps DEF SubmitLocks
<1>5. CASE SubmitInserts(q)
  <2> DEFINE count == Cardinality(ReviewersOf(i) \cup {request[q].reviewer})
             auth == request[q].value = "auto" \/ HasAuthoritative(mark, i)
             s == NextStatus(i, count, auth)
  <2>1. request' = [request EXCEPT ![q] =
                      [request[q] EXCEPT !.pc = "committing", !.count = count, !.status = s]]
    BY <1>5 DEF SubmitInserts
  <2>2. request'[q] = [request[q] EXCEPT !.pc = "committing", !.count = count, !.status = s]
    BY <2>1 DEF IInv, TypeOK
  <2>3. s \in {"flagged", ItemStatus(count, required, auth)} BY DEF NextStatus
  <2> HIDE DEF count, s
  <2>4. /\ request'[q].pc = "committing" /\ request'[q].count = count
        /\ request'[q].status = s /\ request'[q].item = i /\ request'[q].value = request[q].value
    BY <1>0, <2>2 DEF Request
  <2>5. RequestSynced(q)' BY <1>3, <2>3, <2>4 DEF RequestSynced
  <2> QED BY <1>1, <1>2, <1>5, <2>1, <2>5, ReadSteps DEF SubmitInserts
<1>6. CASE SubmitRefused(q)
  <2>1. Duplicate(q) BY <1>2, <1>6 DEF SubmitRefused, SecondMark, RequestSynced
  <2>2. ~refused' BY <1>2, <1>6, <2>1 DEF SubmitRefused
  <2> QED BY <1>1, <1>6, <2>2, ReadSteps DEF SubmitRefused, Finish
<1>7. CASE PickLocks(q)
  <2>1. request' = [request EXCEPT ![q] = [request[q] EXCEPT !.pc = "choosing"]]
    BY <1>7 DEF PickLocks
  <2>2. request'[q].pc = "choosing" BY <1>0, <2>1 DEF IInv, TypeOK, Request
  <2>3. RequestSynced(q)' BY <2>2 DEF RequestSynced
  <2> QED BY <1>1, <1>2, <1>7, <2>1, <2>3, ReadSteps DEF PickLocks
<1>8. CASE RequestMisses(q) BY <1>1, <1>2, <1>8, ReadSteps DEF RequestMisses, Finish
<1>9. CASE RequestDies(q) BY <1>1, <1>2, <1>9, ReadSteps DEF RequestDies, Finish
<1> QED BY <1>4, <1>5, <1>6, <1>7, <1>8, <1>9

\* Requests of users begin.
LEMMA UnflagStarts ==
  ASSUME IInv, SyncInv, trouble' = "none", trouble = "none", NEW q \in Requests,
         NEW i \in Items, UnflagLocks(q, i)
  PROVE  SyncInv'
<1>1. FormsQuiet /\ UNCHANGED <<rows, form>> /\ ~refused'
  BY NotedForms DEF UnflagLocks, SyncInv
<1>2. mark' = mark /\ required' = required /\ review_count' = review_count
  BY <1>1 DEF rows
<1> DEFINE s == ItemStatus(review_count[i], required, HasAuthoritative(mark, i))
           new == [IdleRequest EXCEPT !.pc = "unflagging", !.item = i, !.status = s]
<1>3. request' = [request EXCEPT ![q] = new] BY DEF UnflagLocks
<1>4. new.pc = "unflagging" /\ new.item = i /\ new.status = s BY DEF IdleRequest
<1> HIDE DEF s, new
<1>5. request'[q] = new BY <1>3 DEF IInv, TypeOK
<1>6. RequestSynced(q)'
  BY <1>2, <1>4, <1>5 DEF RequestSynced, s, ItemStatus
<1> QED BY <1>1, <1>3, <1>6, ReadSteps

LEMMA SubmitBegins ==
  ASSUME IInv, SyncInv, trouble' = "none", trouble = "none", NEW q \in Requests,
         NEW i \in Items, NEW r \in Reviewers, SubmitStarts(q, i, r)
  PROVE  SyncInv'
<1>1. FormsQuiet /\ UNCHANGED <<rows, form>> /\ ~refused'
  BY NotedForms DEF SubmitStarts, SyncInv
<1> DEFINE new == [IdleRequest EXCEPT !.pc = "submitting", !.item = i, !.reviewer = r]
<1>2. request' = [request EXCEPT ![q] = new] BY DEF SubmitStarts
<1>3. new.pc = "submitting" BY DEF IdleRequest
<1> HIDE DEF new
<1>4. request'[q] = new BY <1>2 DEF IInv, TypeOK
<1>5. RequestSynced(q)' BY <1>3, <1>4 DEF RequestSynced
<1> QED BY <1>1, <1>2, <1>5, ReadSteps

LEMMA PickBegins ==
  ASSUME IInv, SyncInv, trouble' = "none", trouble = "none", NEW q \in Requests,
         NEW i \in Items, NEW r \in Reviewers, NEW value \in Choices,
         PickStarts(q, i, r, value)
  PROVE  SyncInv'
<1>1. FormsQuiet /\ UNCHANGED <<rows, form>> /\ ~refused'
  BY NotedForms DEF PickStarts, SyncInv
<1> DEFINE new == [IdleRequest EXCEPT !.pc = "picking", !.item = i, !.reviewer = r,
                                      !.value = value]
<1>2. request' = [request EXCEPT ![q] = new] BY DEF PickStarts
<1>3. new.pc = "picking" BY DEF IdleRequest
<1> HIDE DEF new
<1>4. request'[q] = new BY <1>2 DEF IInv, TypeOK
<1>5. RequestSynced(q)' BY <1>3, <1>4 DEF RequestSynced
<1> QED BY <1>1, <1>2, <1>5, ReadSteps

\* The steps of a request that write: they write what suits, and end it.
LEMMA WriteSteps ==
  ASSUME IInv, SyncInv, trouble' = "none", trouble = "none", NEW q \in Requests, FormsQuiet,
         NEW i \in Items, i = request[q].item,
         UNCHANGED <<required, form, refused>>, Finish(q), Holds(q, i),
         \A j \in Items \ {i} : RowKept(j),
         InSync(i)'
  PROVE  SyncInv'
<1>1. ~refused' BY DEF SyncInv
<1>2. request'[q] = IdleRequest /\ \A p \in Requests \ {q} : request'[p] = request[p]
  BY DEF Finish, IInv, TypeOK
<1>3. \A p \in Requests : Holds(p, i) => p = q BY DEF IInv, OneHolder
<1> QED BY <1>1, <1>2, <1>3, RequestsKeepSync

LEMMA CommitsInSync ==
  ASSUME IInv, SyncInv, trouble' = "none", trouble = "none", NEW q \in Requests,
         SubmitCommits(q)
  PROVE  SyncInv'
<1>i. PICK i \in Items : i = request[q].item
  BY DEF SubmitCommits, Commits, IInv, RequestsInOrder
<1> DEFINE c == request[q].count
           auth == request[q].value = "auto" \/ HasAuthoritative(mark, i)
<1>1. FormsQuiet BY NotedForms DEF SubmitCommits, Commits
<1>2. RequestSynced(q) BY <1>1 DEF SyncInv
<1>3. /\ request[q].reviewer \in Reviewers
      /\ request[q].value \in {"plain", "auto"} /\ mark[<<i, request[q].reviewer>>] = "none"
  BY <1>i DEF SubmitCommits, Commits, IInv, RequestsInOrder, SubmissionIsSafe
<1>4. /\ status'[i] = request[q].status /\ review_count'[i] = c /\ required' = required
      /\ \A j \in Items \ {i} : status'[j] = status[j] /\ review_count'[j] = review_count[j]
  BY <1>i, <1>3 DEF SubmitCommits, Commits, IInv, TypeOK
<1>5. \A j \in Items, r \in Reviewers :
        mark'[<<j, r>>] = IF j = i /\ r = request[q].reviewer THEN request[q].value
                                                              ELSE mark[<<j, r>>]
  BY <1>i, <1>3 DEF SubmitCommits, Commits, IInv, TypeOK, Pairs
<1>6. \A j \in Items \ {i} : RowKept(j) BY <1>4, <1>5 DEF RowKept
<1>7. HasAuthoritative(mark', i) <=> auth
  BY <1>3, <1>5 DEF HasAuthoritative, Authoritative
<1>8. InSync(i)'
  <2>1. request[q].status \in {"flagged", ItemStatus(c, required, auth)}
    BY <1>i, <1>2 DEF RequestSynced, SubmitCommits, Commits
  <2>2. ItemStatus(c, required, auth) = ItemStatus(c, required, HasAuthoritative(mark', i))
    BY <1>7 DEF ItemStatus
  <2>3. \/ status'[i] = "flagged"
        \/ status'[i] = ItemStatus(review_count'[i], required', HasAuthoritative(mark', i))
    BY <1>4, <2>1, <2>2, Zenon
  <2> QED BY <2>3, SuitsInSync, Zenon
<1>9. Holds(q, i) BY <1>i DEF Holds, LockPoints, SubmitCommits, Commits
<1> QED BY <1>i, <1>1, <1>6, <1>8, <1>9, WriteSteps DEF SubmitCommits, Commits

LEMMA PicksInSync ==
  ASSUME IInv, SyncInv, trouble' = "none", trouble = "none", NEW q \in Requests,
         PickCommits(q)
  PROVE  SyncInv'
<1>i. PICK i \in Items : i = request[q].item
  BY DEF PickCommits, IInv, RequestsInOrder
<1>1. FormsQuiet BY NotedForms DEF PickCommits
<1>2. request[q].reviewer \in Reviewers BY DEF PickCommits, IInv, RequestsInOrder
<1>3. /\ status' = [status EXCEPT ![i] =
             NextStatus(i, review_count[i], HasAuthoritative(mark', i))]
      /\ mark' = [p \in Pairs |-> IF p = Chosen(q) THEN request[q].value
                                  ELSE IF p \in Siblings(q) THEN "plain" ELSE mark[p]]
      /\ UNCHANGED <<required, review_count>>
  BY <1>i DEF PickCommits
<1>4. \A j \in Items \ {i} : RowKept(j)
  <2> SUFFICES ASSUME NEW j \in Items \ {i} PROVE RowKept(j) OBVIOUS
  <2>1. \A r \in Reviewers : <<j, r>> # Chosen(q) /\ <<j, r>> \notin Siblings(q)
    BY <1>i DEF Chosen, Siblings
  <2>2. \A r \in Reviewers : mark'[<<j, r>>] = mark[<<j, r>>] BY <1>3, <2>1 DEF Pairs
  <2> QED BY <1>3, <2>2 DEF RowKept, IInv, TypeOK
<1>5. InSync(i)'
  <2>1. status'[i] \in {"flagged", ItemStatus(review_count[i], required, HasAuthoritative(mark', i))}
    BY <1>2, <1>3 DEF IInv, TypeOK, NextStatus
  <2>2. \/ status'[i] = "flagged"
        \/ status'[i] = ItemStatus(review_count'[i], required', HasAuthoritative(mark', i))
    BY <1>3, <2>1, Zenon
  <2> QED BY <2>2, SuitsInSync, Zenon
<1>6. Holds(q, i) BY <1>i DEF Holds, LockPoints, PickCommits
<1> QED BY <1>i, <1>1, <1>4, <1>5, <1>6, WriteSteps DEF PickCommits

LEMMA UnflagsInSync ==
  ASSUME IInv, SyncInv, trouble' = "none", trouble = "none", NEW q \in Requests,
         UnflagCommits(q)
  PROVE  SyncInv'
<1>i. PICK i \in Items : i = request[q].item
  BY DEF UnflagCommits, IInv, RequestsInOrder
<1>1. FormsQuiet BY NotedForms DEF UnflagCommits
<1>2. RequestSynced(q) BY <1>1 DEF SyncInv
<1>4. /\ status'[i] = request[q].status /\ UNCHANGED <<required, review_count, mark>>
      /\ \A j \in Items \ {i} : RowKept(j)
  BY <1>i DEF UnflagCommits, RowKept, IInv, TypeOK
<1>5. InSync(i)'
  <2>1. status'[i] = ItemStatus(review_count'[i], required', HasAuthoritative(mark', i))
    BY <1>i, <1>2, <1>4 DEF UnflagCommits, RequestSynced, ItemStatus
  <2> QED BY <2>1, SuitsInSync, Zenon
<1>6. Holds(q, i) BY <1>i DEF Holds, LockPoints, UnflagCommits
<1> QED BY <1>i, <1>1, <1>4, <1>5, <1>6, WriteSteps DEF UnflagCommits

LEMMA RowsInSync == ASSUME UNCHANGED rows, AllInSync PROVE AllInSync'
BY RowsKept, KeptInSync DEF AllInSync, rows

\* The steps of a form that is alone.
LEMMA LoadsInSync ==
  ASSUME IInv, SyncInv, trouble' = "none", trouble = "none", NEW a \in Admins,
         NEW needed \in 1..MaxRequired, FormLoads(a, needed)
  PROVE  SyncInv'
<1>0. form[a] \in Form /\ IdleForm.pc = "idle" /\ \A f : [form EXCEPT ![a] = f][a] = f
  BY DEF IInv, TypeOK, IdleForm
<1>1. Alone(a) /\ UNCHANGED <<request, refused>>
  BY NotedOthers DEF FormLoads
<1>2. form[a].pc = "idle" => AllInSync BY <1>1 DEF Alone, FormsQuiet, SyncInv
<1>3. form[a].pc # "idle" => FormSynced(a) BY DEF SyncInv
<1> DEFINE new == [IdleForm EXCEPT !.pc = "saving", !.base = required, !.needed = needed]
<1>5. form' = [form EXCEPT ![a] = new] /\ UNCHANGED rows BY DEF FormLoads
<1>6. new.pc = "saving" /\ new.base = required BY DEF IdleForm
<1> HIDE DEF new
<1>7. form'[a] = new BY <1>0, <1>5
<1>8. FormSynced(a)' BY <1>2, RowsInSync, <1>5, <1>6, <1>7 DEF FormSynced, FormLoads, rows
<1> QED BY <1>1, <1>5, <1>6, <1>8, FormsKeepSync

LEMMA SavesInSync ==
  ASSUME IInv, SyncInv, trouble' = "none", trouble = "none", NEW a \in Admins,
         FormSaves(a)
  PROVE  SyncInv'
<1>0. form[a] \in Form /\ IdleForm.pc = "idle" /\ \A f : [form EXCEPT ![a] = f][a] = f
  BY DEF IInv, TypeOK, IdleForm
<1>1. Alone(a) /\ UNCHANGED <<request, refused>>
  BY NotedOthers DEF FormSaves
<1>2. form[a].pc = "idle" => AllInSync BY <1>1 DEF Alone, FormsQuiet, SyncInv
<1>3. form[a].pc # "idle" => FormSynced(a) BY DEF SyncInv
<1>5. form[a].base = required /\ AllInSync BY <1>3 DEF FormSaves, FormSynced
<1>6. CASE form[a].needed # form[a].base
  <2> DEFINE new == [form[a] EXCEPT !.pc = "marking"]
  <2>1. form' = [form EXCEPT ![a] = new] BY <1>6 DEF FormSaves
  <2>2. new.pc = "marking" /\ new.needed = form[a].needed BY <1>0 DEF Form
  <2> HIDE DEF new
  <2>3. form'[a] = new BY <1>0, <2>1
  <2>4. FormSynced(a)' BY <2>2, <2>3 DEF FormSynced, FormSaves
  <2> QED BY <1>1, <2>1, <2>2, <2>4, FormsKeepSync
<1>7. CASE form[a].needed = form[a].base
  <2>1. form' = [form EXCEPT ![a] = IdleForm] /\ UNCHANGED rows
    BY <1>5, <1>7 DEF FormSaves, rows
  <2> QED BY <1>0, <1>1, RowsInSync, <1>5, <2>1, FormsKeepSync
<1> QED BY <1>6, <1>7

LEMMA ResyncMarksInSync ==
  ASSUME IInv, SyncInv, trouble' = "none", trouble = "none", NEW a \in Admins,
         ResyncMarks(a)
  PROVE  SyncInv'
<1>0. form[a] \in Form /\ IdleForm.pc = "idle" /\ \A f : [form EXCEPT ![a] = f][a] = f
  BY DEF IInv, TypeOK, IdleForm
<1>1. Alone(a) /\ UNCHANGED <<request, refused>>
  BY NotedOthers DEF ResyncMarks
<1>2. form[a].pc = "idle" => AllInSync BY <1>1 DEF Alone, FormsQuiet, SyncInv
<1>3. form[a].pc # "idle" => FormSynced(a) BY DEF SyncInv
<1> DEFINE new == [form[a] EXCEPT !.pc = "listing", !.touched = ToTouch(a)]
<1>5. form' = [form EXCEPT ![a] = new] /\ UNCHANGED rows BY DEF ResyncMarks
<1>6. new.pc = "listing" /\ new.needed = form[a].needed BY <1>0 DEF Form
<1> HIDE DEF new
<1>7. form'[a] = new BY <1>0, <1>5
<1>8. FormSynced(a)' BY <1>3, <1>5, <1>6, <1>7 DEF FormSynced, ResyncMarks, rows
<1> QED BY <1>1, <1>5, <1>6, <1>8, FormsKeepSync

LEMMA ResyncListsInSync ==
  ASSUME IInv, SyncInv, trouble' = "none", trouble = "none", NEW a \in Admins,
         ResyncLists(a)
  PROVE  SyncInv'
<1>0. form[a] \in Form /\ IdleForm.pc = "idle" /\ \A f : [form EXCEPT ![a] = f][a] = f
  BY DEF IInv, TypeOK, IdleForm
<1>1. Alone(a) /\ UNCHANGED <<request, refused>>
  BY NotedOthers DEF ResyncLists
<1>2. form[a].pc = "idle" => AllInSync BY <1>1 DEF Alone, FormsQuiet, SyncInv
<1>3. form[a].pc # "idle" => FormSynced(a) BY DEF SyncInv
<1> DEFINE todo == {i \in Items : status[i] \notin {"flagged", "absent"}}
           seen == {i \in Items : HasAuthoritative(MarksSeenBy(a), i)}
           new == [form[a] EXCEPT !.pc = "locking", !.todo = todo, !.seen = seen]
<1>5. form' = [form EXCEPT ![a] = new] /\ UNCHANGED rows BY DEF ResyncLists
<1>6. /\ new.pc = "locking" /\ new.needed = form[a].needed /\ new.todo = todo
      /\ new.seen = seen /\ new.locked = form[a].locked /\ new.touched = form[a].touched
  BY <1>0 DEF Form
<1> HIDE DEF new
<1>7. form'[a] = new BY <1>0, <1>5
<1>8. form[a].locked = {} BY DEF ResyncLists, IInv, FormsInOrder
<1>9. MarksSeenBy(a)' = MarksSeenBy(a)
  BY <1>5, <1>6, <1>7 DEF MarksSeenBy, Rewritten, rows
<1>10. new.seen = {i \in Items : HasAuthoritative(MarksSeenBy(a)', i)} BY <1>6, <1>9
<1>11. new.todo \union new.locked = {i \in Items : StillListed(i)'}
  BY <1>5, <1>6, <1>8 DEF StillListed, rows
<1>12. required' = new.needed
  BY <1>3, <1>5, <1>6 DEF FormSynced, ResyncLists, rows
<1>13. FormSynced(a)' BY <1>6, <1>7, <1>10, <1>11, <1>12 DEF FormSynced
<1> QED BY <1>1, <1>5, <1>6, <1>13, FormsKeepSync

LEMMA ResyncLocksInSync ==
  ASSUME IInv, SyncInv, trouble' = "none", trouble = "none", NEW a \in Admins,
         NEW i \in Items, ResyncLocks(a, i)
  PROVE  SyncInv'
<1>0. form[a] \in Form /\ IdleForm.pc = "idle" /\ \A f : [form EXCEPT ![a] = f][a] = f
  BY DEF IInv, TypeOK, IdleForm
<1>1. Alone(a) /\ UNCHANGED <<request, refused>>
  BY NotedOthers DEF ResyncLocks
<1>2. form[a].pc = "idle" => AllInSync BY <1>1 DEF Alone, FormsQuiet, SyncInv
<1>3. form[a].pc # "idle" => FormSynced(a) BY DEF SyncInv
<1> DEFINE locked == IF StillListed(i) THEN form[a].locked \cup {i} ELSE form[a].locked
           new == [form[a] EXCEPT !.todo = form[a].todo \ {i}, !.locked = locked]
<1>4. FormSynced(a) /\ form[a].pc = "locking" /\ i \in form[a].todo
  BY <1>3 DEF ResyncLocks
<1>5. form' = [form EXCEPT ![a] = new] /\ UNCHANGED rows
  BY DEF ResyncLocks
<1>6. StillListed(i) BY <1>4 DEF FormSynced
<1>7. /\ new.pc = "locking" /\ new.needed = form[a].needed
      /\ new.todo = form[a].todo \ {i} /\ new.locked = form[a].locked \cup {i}
      /\ new.seen = form[a].seen /\ new.touched = form[a].touched
  BY <1>0, <1>4, <1>6 DEF Form
<1> HIDE DEF new, locked
<1>8. form'[a] = new BY <1>0, <1>5
<1>9. MarksSeenBy(a)' = MarksSeenBy(a)
  BY <1>5, <1>7, <1>8 DEF MarksSeenBy, Rewritten, rows
<1>10. new.seen = {j \in Items : HasAuthoritative(MarksSeenBy(a)', j)}
  BY <1>4, <1>7, <1>9 DEF FormSynced
<1>11. new.todo \union new.locked = {j \in Items : StillListed(j)'}
  <2>1. new.todo \union new.locked = form[a].todo \union form[a].locked BY <1>4, <1>7
  <2>2. \A j \in Items : StillListed(j)' = StillListed(j) BY <1>5 DEF StillListed, rows
  <2> QED BY <1>4, <2>1, <2>2 DEF FormSynced
<1>12. required' = new.needed BY <1>4, <1>5, <1>7 DEF FormSynced, rows
<1>13. FormSynced(a)' BY <1>7, <1>8, <1>10, <1>11, <1>12 DEF FormSynced
<1> QED BY <1>1, <1>5, <1>7, <1>13, FormsKeepSync

LEMMA ResyncCommitsInSync ==
  ASSUME IInv, SyncInv, trouble' = "none", trouble = "none", NEW a \in Admins,
         ResyncCommits(a)
  PROVE  SyncInv'
<1>0. form[a] \in Form /\ IdleForm.pc = "idle" /\ \A f : [form EXCEPT ![a] = f][a] = f
  BY DEF IInv, TypeOK, IdleForm
<1>1. Alone(a) /\ UNCHANGED <<request, refused>>
  BY NotedOthers DEF ResyncCommits
<1>2. form[a].pc = "idle" => AllInSync BY <1>1 DEF Alone, FormsQuiet, SyncInv
<1>3. form[a].pc # "idle" => FormSynced(a) BY DEF SyncInv
<1>4. FormSynced(a) /\ form[a].pc = "locking" /\ form[a].todo = {}
  BY <1>3 DEF ResyncCommits
<1>5. /\ required = form[a].needed /\ form[a].locked = {i \in Items : StillListed(i)}
      /\ form[a].seen = {i \in Items : HasAuthoritative(MarksSeenBy(a), i)}
  BY <1>4 DEF FormSynced
<1>6. /\ mark' = MarksSeenBy(a) /\ UNCHANGED <<required, review_count>>
      /\ form' = [form EXCEPT ![a] = IdleForm]
      /\ status' = [i \in Items |-> IF i \in form[a].locked THEN ResyncedStatus(a, i)
                                                            ELSE status[i]]
  BY DEF ResyncCommits
<1>7. ASSUME NEW i \in Items PROVE InSync(i)'
  <2>1. CASE StillListed(i)
    <3>1. status'[i] = ItemStatus(review_count[i], form[a].needed, i \in form[a].seen)
      BY <1>5, <1>6, <2>1 DEF ResyncedStatus
    <3>2. i \in form[a].seen <=> HasAuthoritative(mark', i) BY <1>5, <1>6
    <3> QED BY <1>5, <1>6, <3>1, <3>2 DEF InSync, ItemStatus
  <2>2. CASE ~StillListed(i)
    BY <1>5, <1>6, <2>2 DEF StillListed, InSync
  <2> QED BY <2>1, <2>2
<1>8. AllInSync' BY <1>7 DEF AllInSync
<1> QED BY <1>0, <1>1, <1>6, <1>8, FormsKeepSync

LEMMA SyncStep == ASSUME IInv, SyncInv, [Next]_vars PROVE SyncInv'
<1> SUFFICES ASSUME trouble' = "none" PROVE SyncInv' BY DEF SyncInv
<1>0. trouble = "none" BY TroubleStays DEF IInv
<1>1. ASSUME NEW q \in Requests, RequestStep(q) \/ RequestDies(q) PROVE SyncInv'
  BY <1>0, <1>1, RequestReads, CommitsInSync, PicksInSync, UnflagsInSync DEF RequestStep
<1>2. ASSUME NEW a \in Admins, FormStep(a) PROVE SyncInv'
  <2>1. ASSUME NEW q \in Requests, ResyncRefused(a, q) PROVE FALSE
    <3>1. FormsQuiet BY <2>1, NotedForms DEF ResyncRefused, Commits
    <3> QED BY <2>1, <3>1 DEF ResyncRefused, FormsQuiet
  <2> QED BY <1>0, <1>2, <2>1, SavesInSync, ResyncMarksInSync,
    ResyncListsInSync, ResyncLocksInSync, ResyncCommitsInSync DEF FormStep
<1>3. ASSUME NEW a \in Admins, FormDies(a) PROVE FALSE BY <1>3 DEF FormDies
<1>4. ASSUME NEW a \in Admins, NEW q \in Requests, DeadlockBroken(a, q) PROVE FALSE
  <2>1. FormsQuiet BY <1>4, NotedForms DEF DeadlockBroken
  <2> QED BY <1>4, <2>1 DEF DeadlockBroken, Deadlocked, FormsQuiet
<1>5. CASE Users
  BY <1>0, <1>5, UserSteps, UnflagStarts, SubmitBegins, PickBegins, LoadsInSync DEF Users
<1>6. CASE UNCHANGED vars
  BY <1>6 DEF vars, rows, SyncInv, Alone, RequestsQuiet, FormsQuiet, FormSynced, AllInSync,
     InSync, RequestSynced, StillListed, MarksSeenBy, Rewritten
<1> QED BY <1>1, <1>2, <1>3, <1>4, <1>5, <1>6 DEF Next

LEMMA SyncInit == Init => SyncInv
<1> SUFFICES ASSUME Init PROVE SyncInv OBVIOUS
<1>1. \A a \in Admins : form[a].pc = "idle" BY DEF Init, IdleForm
<1>2. \A q \in Requests : RequestSynced(q) BY DEF Init, IdleRequest, RequestSynced
<1>3. AllInSync BY DEF Init, AllInSync, InSync
<1> QED BY <1>1, <1>2, <1>3 DEF Init, SyncInv

LEMMA SyncSafety == Spec => [](IInv /\ SyncInv)
<1>1. Init => IInv /\ SyncInv BY InvariantInit, SyncInit
<1>2. IInv /\ SyncInv /\ [Next]_vars => (IInv /\ SyncInv)' BY InvariantStep, SyncStep
<1> QED BY <1>1, <1>2, PTL DEF Spec

\* Statuses are what reviews, marks and the requirement make them as long as no form
\* overlaps with another request (_compute_item_status, human_annotations/models.py:328).
THEOREM StatusesInSync == Spec => []StatusInSync
<1>1. SyncInv => StatusInSync BY DEF SyncInv, StatusInSync, Quiet, AllInSync
<1> QED BY <1>1, SyncSafety, PTL

\* The row lock keeps submissions away from the partial unique constraint (ADR-0016).
THEOREM NoneRefused == Spec => []SubmissionsAccepted
<1>1. SyncInv => SubmissionsAccepted BY DEF SyncInv, SubmissionsAccepted
<1> QED BY <1>1, SyncSafety, PTL
=============================================================================
