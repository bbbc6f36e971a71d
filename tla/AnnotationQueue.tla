--------------------------- MODULE AnnotationQueue ---------------------------
(***************************************************************************)
(* An annotation queue of apps/human_annotations (ADR-0015, ADR-0016).     *)
(*                                                                         *)
(* Reviewers submit at most one annotation per item; an admin may pick the *)
(* authoritative one, flag an item, or change how many reviews an item     *)
(* needs.  Every request that touches one item locks its row first; saving *)
(* a new requirement commits on its own and is followed by the             *)
(* transaction of resync_items, which updates annotations before it locks  *)
(* any item.  Transactions run at READ COMMITTED: a statement sees what    *)
(* was committed when it started, and waits for a row another transaction  *)
(* has written.                                                            *)
(*                                                                         *)
(* Aggregates and scores, which are derived from the annotations after the *)
(* transactions, are not part of this module.                              *)
(***************************************************************************)
EXTENDS Integers, FiniteSets

CONSTANTS
  Items,        \* ids of the AnnotationItem rows, in the order of created_at
  Reviewers,    \* users who annotate
  Requests,     \* web requests that touch one item
  Admins,       \* requests that save the queue form
  MaxRequired,  \* bound: the largest num_reviews_required (the code allows 10)
  Choices       \* what set_authoritative is asked for: "picked", "plain"

ASSUME ItemsAreIds == Items \subseteq Nat \ {0}
ASSUME FiniteReviewers == IsFiniteSet(Reviewers)
ASSUME RequiredRange == MaxRequired \in 1..10
ASSUME ChoicesAssumption == Choices \subseteq {"picked", "plain"}

VARIABLES
  required,      \* AnnotationQueue.num_reviews_required
  status,        \* AnnotationItem.status, or "absent" without a row
  review_count,  \* AnnotationItem.review_count
  mark,          \* per (item, reviewer): no annotation, a plain one, or an
                 \* authoritative one, marked "auto" or "picked" by an admin
  request,       \* per request: what it has read and locked
  form,          \* per admin: the form being saved and its resync_items
  refused,       \* history: the partial unique constraint refused a submission
  trouble        \* history: a form overlapped with another request, or died

rows == <<required, status, review_count, mark>>
vars == <<rows, request, form, refused, trouble>>

Pairs == Items \X Reviewers
Authoritative == {"auto", "picked"}

HasAuthoritative(marks, i) == \E r \in Reviewers : marks[<<i, r>>] \in Authoritative
ReviewersOf(i) == {r \in Reviewers : mark[<<i, r>>] # "none"}

\* _compute_item_status
ItemStatus(count, needed, authoritative) ==
  CASE count = 0 -> "pending"
    [] count > 0 /\ count < needed -> "in_progress"
    [] count > 0 /\ count >= needed /\ (authoritative \/ count = 1) -> "completed"
    [] OTHER -> "awaiting_resolution"

Statuses == {"pending", "in_progress", "awaiting_resolution", "completed", "flagged"}

-----------------------------------------------------------------------------
(* Requests and forms in memory.                                           *)

Request == [pc: {"idle",
                 "submitting", "inserting", "committing",  \* SubmitAnnotation
                 "picking", "choosing",                    \* SetAuthoritative
                 "unflagging"},                            \* UnflagItem
            item: Items \cup {0},
            reviewer: Reviewers \cup {"nobody"},   \* of the annotation
            value: {"plain", "auto", "picked"},    \* the mark to be written
            count: Nat,                            \* the review_count to be written
            status: Statuses]                      \* the status to be written

IdleRequest == [pc |-> "idle", item |-> 0, reviewer |-> "nobody",
                value |-> "plain", count |-> 0, status |-> "pending"]

Form == [pc: {"idle", "saving", "marking", "listing", "locking"},
         base: 1..MaxRequired,     \* the requirement when the form was loaded
         needed: 1..MaxRequired,   \* the requirement the admin asks for
         touched: SUBSET Pairs,    \* annotations written, not yet committed
         seen: SUBSET Items,       \* items with an authoritative annotation
         todo: SUBSET Items,       \* items still to be locked
         locked: SUBSET Items]     \* items locked for their new status

IdleForm == [pc |-> "idle", base |-> 1, needed |-> 1, touched |-> {},
             seen |-> {}, todo |-> {}, locked |-> {}]

LockPoints == {"inserting", "committing", "choosing", "unflagging"}
Holds(q, i) == request[q].pc \in LockPoints /\ request[q].item = i

\* Mutant: no select_for_update.
NeverLocked(i) == FALSE
\* The row lock of item i, taken by select_for_update.
Locked(i) ==
  \/ \E q \in Requests : Holds(q, i)
  \/ \E a \in Admins : i \in form[a].locked

\* The annotations of item i that a resync has written and not committed.
TouchedOn(i) == {p \in Pairs : p[1] = i /\ \E a \in Admins : p \in form[a].touched}

FormsQuiet == \A a \in Admins : form[a].pc = "idle"
RequestsQuiet == \A q \in Requests : request[q].pc = "idle"
Quiet == FormsQuiet /\ RequestsQuiet

Worsened(overlap) == IF overlap /\ trouble = "none" THEN "overlap" ELSE trouble
\* A step of a request, or of anything but a form.
NotesForms == trouble' = Worsened(~FormsQuiet)
\* A step of the form of a.
NotesOthers(a) ==
  trouble' = Worsened(~RequestsQuiet \/ \E b \in Admins \ {a} : form[b].pc # "idle")

TypeOK ==
  /\ required \in 1..MaxRequired
  /\ status \in [Items -> Statuses \cup {"absent"}]
  /\ review_count \in [Items -> Nat]
  /\ mark \in [Pairs -> {"none", "plain", "auto", "picked"}]
  /\ request \in [Requests -> Request]
  /\ form \in [Admins -> Form]
  /\ refused \in BOOLEAN
  /\ trouble \in {"none", "overlap", "crash"}

Init ==
  /\ required \in 1..MaxRequired
  /\ status = [i \in Items |-> "absent"]
  /\ review_count = [i \in Items |-> 0]
  /\ mark = [p \in Pairs |-> "none"]
  /\ request = [q \in Requests |-> IdleRequest]
  /\ form = [a \in Admins |-> IdleForm]
  /\ refused = FALSE
  /\ trouble = "none"

-----------------------------------------------------------------------------
(* Items come and go.                                                      *)

AddItem(i) ==
  /\ status[i] = "absent"
  /\ status' = [status EXCEPT ![i] = "pending"]
  /\ review_count' = [review_count EXCEPT ![i] = 0]
  /\ NotesForms
  /\ UNCHANGED <<required, mark, request, form, refused>>

\* The annotations cascade; the delete waits for rows that others have written.
RemoveItem(i) ==
  /\ status[i] # "absent"
  /\ ~Locked(i)
  /\ TouchedOn(i) = {}
  /\ status' = [status EXCEPT ![i] = "absent"]
  /\ mark' = [p \in Pairs |-> IF p[1] = i THEN "none" ELSE mark[p]]
  /\ NotesForms
  /\ UNCHANGED <<required, review_count, request, form, refused>>

-----------------------------------------------------------------------------
(* SubmitAnnotation.post and Annotation.save.                              *)

Finish(q) == request' = [request EXCEPT ![q] = IdleRequest]

\* The check for an annotation of the same reviewer, before any lock.
SubmitStarts(q, i, r) ==
  /\ request[q].pc = "idle"
  /\ status[i] # "absent"
  /\ mark[<<i, r>>] = "none"
  /\ request' = [request EXCEPT ![q] =
                   [IdleRequest EXCEPT !.pc = "submitting", !.item = i, !.reviewer = r]]
  /\ NotesForms
  /\ UNCHANGED <<rows, form, refused>>

\* Mutant: _maybe_auto_mark_authoritative without its check for a mark.
AlwaysAuto(i) == IF required = 1 THEN "auto" ELSE "plain"
\* _maybe_auto_mark_authoritative reads the requirement after the lock.
AutoMark(i) == IF required = 1 /\ ~HasAuthoritative(mark, i) THEN "auto" ELSE "plain"

SubmitLocks(q) ==
  LET i == request[q].item
  IN  /\ request[q].pc = "submitting"
      /\ status[i] # "absent"
      /\ ~Locked(i)
      /\ request' = [request EXCEPT ![q] =
                       [@ EXCEPT !.pc = "inserting", !.value = AutoMark(i)]]
      /\ NotesForms
      /\ UNCHANGED <<rows, form, refused>>

\* The insert waits for a resync that has written the mark of a sibling.
InsertWaits(q) == request[q].value = "auto" /\ TouchedOn(request[q].item) # {}

Duplicate(q) == mark[<<request[q].item, request[q].reviewer>>] # "none"
SecondMark(q) == request[q].value = "auto" /\ HasAuthoritative(mark, request[q].item)

\* update_status of a locked item: FLAGGED is kept.
NextStatus(i, count, authoritative) ==
  IF status[i] = "flagged" THEN "flagged" ELSE ItemStatus(count, required, authoritative)

\* The insert, the recount and the new status, not yet committed.
SubmitInserts(q) ==
  LET i == request[q].item
      count == Cardinality(ReviewersOf(i) \cup {request[q].reviewer})
      authoritative == request[q].value = "auto" \/ HasAuthoritative(mark, i)
  IN  /\ request[q].pc = "inserting"
      /\ ~InsertWaits(q)
      /\ ~Duplicate(q) /\ ~SecondMark(q)
      /\ request' = [request EXCEPT ![q] =
                       [@ EXCEPT !.pc = "committing", !.count = count,
                                 !.status = NextStatus(i, count, authoritative)]]
      /\ NotesForms
      /\ UNCHANGED <<rows, form, refused>>

\* IntegrityError: the view warns "You've already annotated this item."
SubmitRefused(q) ==
  /\ request[q].pc = "inserting"
  /\ ~InsertWaits(q)
  /\ Duplicate(q) \/ SecondMark(q)
  /\ refused' = (refused \/ ~Duplicate(q))
  /\ Finish(q)
  /\ NotesForms
  /\ UNCHANGED <<rows, form>>

Commits(q) ==
  LET i == request[q].item
  IN  /\ request[q].pc = "committing"
      /\ mark' = [mark EXCEPT ![<<i, request[q].reviewer>>] = request[q].value]
      /\ review_count' = [review_count EXCEPT ![i] = request[q].count]
      /\ status' = [status EXCEPT ![i] = request[q].status]
      /\ Finish(q)
      /\ NotesForms
      /\ UNCHANGED <<required, refused>>

SubmitCommits(q) == Commits(q) /\ UNCHANGED form

-----------------------------------------------------------------------------
(* SetAuthoritative.post.                                                  *)

PickStarts(q, i, r, value) ==
  /\ request[q].pc = "idle"
  /\ mark[<<i, r>>] # "none"
  /\ request' = [request EXCEPT ![q] =
                   [IdleRequest EXCEPT !.pc = "picking", !.item = i, !.reviewer = r,
                                       !.value = value]]
  /\ NotesForms
  /\ UNCHANGED <<rows, form, refused>>

PickLocks(q) ==
  /\ request[q].pc = "picking"
  /\ status[request[q].item] # "absent"
  /\ ~Locked(request[q].item)
  /\ request' = [request EXCEPT ![q] = [@ EXCEPT !.pc = "choosing"]]
  /\ NotesForms
  /\ UNCHANGED <<rows, form, refused>>

Chosen(q) == <<request[q].item, request[q].reviewer>>
\* Mutant: the marks of siblings are not cleared.
NoSiblings(q) == {}
\* The siblings whose mark is cleared.
Siblings(q) ==
  IF request[q].value = "picked"
  THEN {p \in Pairs : p[1] = request[q].item /\ mark[p] \in Authoritative} \ {Chosen(q)}
  ELSE {}
\* A row another transaction has written, or a mark it has set or cleared, of
\* which the partial unique constraint admits one per item.
PickWaits(q) ==
  IF request[q].value = "picked" THEN TouchedOn(request[q].item) # {}
                                 ELSE Chosen(q) \in TouchedOn(request[q].item)

PickCommits(q) ==
  LET i == request[q].item
      marks == [p \in Pairs |-> IF p = Chosen(q) THEN request[q].value
                                ELSE IF p \in Siblings(q) THEN "plain" ELSE mark[p]]
  IN  /\ request[q].pc = "choosing"
      /\ mark[Chosen(q)] # "none"
      /\ ~PickWaits(q)
      /\ mark' = marks
      /\ status' = [status EXCEPT ![i] =
                      NextStatus(i, review_count[i], HasAuthoritative(marks, i))]
      /\ Finish(q)
      /\ NotesForms
      /\ UNCHANGED <<required, review_count, form, refused>>

-----------------------------------------------------------------------------
(* FlagItem.post and UnflagItem.post.                                      *)

FlagItem(i) ==
  /\ status[i] # "absent"
  /\ ~Locked(i)
  /\ status' = [status EXCEPT ![i] = "flagged"]
  /\ NotesForms
  /\ UNCHANGED <<required, review_count, mark, request, form, refused>>

\* update_status after the reset to PENDING, of the locked item.
UnflagLocks(q, i) ==
  /\ request[q].pc = "idle"
  /\ status[i] # "absent"
  /\ ~Locked(i)
  /\ request' = [request EXCEPT ![q] =
       [IdleRequest EXCEPT !.pc = "unflagging", !.item = i,
          !.status = ItemStatus(review_count[i], required, HasAuthoritative(mark, i))]]
  /\ NotesForms
  /\ UNCHANGED <<rows, form, refused>>

UnflagCommits(q) ==
  /\ request[q].pc = "unflagging"
  /\ status' = [status EXCEPT ![request[q].item] = request[q].status]
  /\ Finish(q)
  /\ NotesForms
  /\ UNCHANGED <<required, review_count, mark, form, refused>>

\* The item or the annotation went before the request got to it: DoesNotExist,
\* or a save that updates no row.
RequestMisses(q) ==
  /\ \/ request[q].pc \in {"submitting", "picking"} /\ status[request[q].item] = "absent"
     \/ request[q].pc = "choosing" /\ mark[Chosen(q)] = "none"
  /\ Finish(q)
  /\ NotesForms
  /\ UNCHANGED <<rows, form, refused>>

\* The process is killed: the transaction is rolled back.
RequestDies(q) ==
  /\ request[q].pc # "idle"
  /\ Finish(q)
  /\ NotesForms
  /\ UNCHANGED <<rows, form, refused>>

-----------------------------------------------------------------------------
(* AnnotationQueueForm.save and resync_items.                              *)

FormLoads(a, needed) ==
  /\ form[a].pc = "idle"
  /\ form' = [form EXCEPT ![a] =
                [IdleForm EXCEPT !.pc = "saving", !.base = required, !.needed = needed]]
  /\ NotesOthers(a)
  /\ UNCHANGED <<rows, request, refused>>

\* The whole row is saved, whatever another form saved since; resync_items only
\* runs for a requirement that differs from the one that was loaded.
FormSaves(a) ==
  /\ form[a].pc = "saving"
  /\ required' = form[a].needed
  /\ form' = [form EXCEPT ![a] = IF form[a].needed # form[a].base
                                 THEN [@ EXCEPT !.pc = "marking"] ELSE IdleForm]
  /\ NotesOthers(a)
  /\ UNCHANGED <<status, review_count, mark, request, refused>>

\* Mutant: marks picked by an admin are cleared as well.
AllMarks == {p \in Pairs : mark[p] \in Authoritative}
\* Marks that were set by _maybe_auto_mark_authoritative, on any item.
AutoMarks == {p \in Pairs : mark[p] = "auto"}
\* The only annotations of their items, none of them flagged.
LoneReviews ==
  {p \in Pairs : /\ mark[p] = "plain"
                 /\ review_count[p[1]] = 1
                 /\ status[p[1]] # "flagged"}
ToTouch(a) == IF form[a].needed > 1 THEN AutoMarks ELSE LoneReviews

\* Submission q has inserted a second mark beside one of the lone reviews.
MarkConflicts(a, q) ==
  /\ request[q].pc = "committing"
  /\ request[q].value = "auto"
  /\ form[a].needed = 1
  /\ \E p \in LoneReviews : p[1] = request[q].item

ResyncMarks(a) ==
  /\ form[a].pc = "marking"
  /\ \A p \in ToTouch(a) : p \notin TouchedOn(p[1])
  /\ \A q \in Requests : ~MarkConflicts(a, q)
  /\ form' = [form EXCEPT ![a] = [@ EXCEPT !.pc = "listing", !.touched = ToTouch(a)]]
  /\ NotesOthers(a)
  /\ UNCHANGED <<rows, request, refused>>

\* What resync_items will have written to an annotation.
Rewritten(a) == IF form[a].needed > 1 THEN "plain" ELSE "auto"
MarksSeenBy(a) == [p \in Pairs |-> IF p \in form[a].touched THEN Rewritten(a) ELSE mark[p]]

\* The statement that locks the items starts: its snapshot decides which items
\* are listed and what has_authoritative says of them.
ResyncLists(a) ==
  /\ form[a].pc = "listing"
  /\ form' = [form EXCEPT ![a] =
                [@ EXCEPT !.pc = "locking",
                          !.todo = {i \in Items : status[i] \notin {"flagged", "absent"}},
                          !.seen = {i \in Items : HasAuthoritative(MarksSeenBy(a), i)}]]
  /\ NotesOthers(a)
  /\ UNCHANGED <<rows, request, refused>>

\* Mutant: a row that was flagged while the lock was awaited is kept.
KeepsListed(i) == status[i] # "absent"
\* The WHERE clause is evaluated again on the row that was waited for.
StillListed(i) == status[i] \notin {"flagged", "absent"}

\* Items are locked in the order of created_at.
ResyncLocks(a, i) ==
  /\ form[a].pc = "locking"
  /\ i \in form[a].todo
  /\ \A j \in form[a].todo : i <= j
  /\ ~Locked(i)
  /\ form' = [form EXCEPT ![a] =
                [@ EXCEPT !.todo = form[a].todo \ {i},
                          !.locked = IF StillListed(i) THEN form[a].locked \cup {i}
                                                       ELSE form[a].locked]]
  /\ NotesOthers(a)
  /\ UNCHANGED <<rows, request, refused>>

\* Mutant: the statuses are computed without has_authoritative.
ResyncedByCount(a, i) == ItemStatus(review_count[i], form[a].needed, FALSE)
\* The status resync_items gives an item it has locked.
ResyncedStatus(a, i) == ItemStatus(review_count[i], form[a].needed, i \in form[a].seen)

ResyncCommits(a) ==
  /\ form[a].pc = "locking"
  /\ form[a].todo = {}
  /\ mark' = MarksSeenBy(a)
  /\ status' = [i \in Items |-> IF i \in form[a].locked THEN ResyncedStatus(a, i)
                                                        ELSE status[i]]
  /\ form' = [form EXCEPT ![a] = IdleForm]
  /\ NotesOthers(a)
  /\ UNCHANGED <<required, review_count, request, refused>>

\* The annotation update waits for that submission; when it commits, the update
\* raises IntegrityError, and the transaction of the resync is rolled back.
ResyncRefused(a, q) ==
  /\ form[a].pc = "marking"
  /\ MarkConflicts(a, q)
  /\ Commits(q)
  /\ form' = [form EXCEPT ![a] = IdleForm]

\* The process dies after the requirement was saved: nothing is resynced.
FormDies(a) ==
  /\ form[a].pc # "idle"
  /\ form' = [form EXCEPT ![a] = IdleForm]
  /\ trouble' = "crash"
  /\ UNCHANGED <<rows, request, refused>>

-----------------------------------------------------------------------------
(* A resync writes annotations and then waits for items; a request locks   *)
(* its item and then waits for annotations.  The database detects the      *)
(* cycle and rolls one of the two back.                                    *)

WaitsForRows(q) ==
  \/ request[q].pc = "inserting" /\ InsertWaits(q)
  \/ request[q].pc = "choosing" /\ PickWaits(q)

\* Mutant: the cycle is noticed for submissions only.
SubmissionDeadlocked(a, q) ==
  /\ request[q].pc = "inserting" /\ InsertWaits(q)
  /\ form[a].pc = "locking"
  /\ request[q].item \in form[a].todo
Deadlocked(a, q) ==
  /\ WaitsForRows(q)
  /\ form[a].pc = "locking"
  /\ request[q].item \in form[a].todo

DeadlockBroken(a, q) ==
  /\ Deadlocked(a, q)
  /\ \/ Finish(q) /\ UNCHANGED form
     \/ form' = [form EXCEPT ![a] = IdleForm] /\ UNCHANGED request
  /\ NotesForms
  /\ UNCHANGED <<rows, refused>>

-----------------------------------------------------------------------------
RequestStep(q) ==
  \/ SubmitLocks(q)
  \/ SubmitInserts(q)
  \/ SubmitRefused(q)
  \/ SubmitCommits(q)
  \/ PickLocks(q)
  \/ PickCommits(q)
  \/ UnflagCommits(q)
  \/ RequestMisses(q)

FormStep(a) ==
  \/ FormSaves(a)
  \/ ResyncMarks(a)
  \/ ResyncLists(a)
  \/ \E i \in Items : ResyncLocks(a, i)
  \/ ResyncCommits(a)
  \/ \E q \in Requests : ResyncRefused(a, q)

Users ==
  \/ \E i \in Items : AddItem(i) \/ RemoveItem(i) \/ FlagItem(i)
  \/ \E q \in Requests, i \in Items :
       \/ UnflagLocks(q, i)
       \/ \E r \in Reviewers : SubmitStarts(q, i, r)
       \/ \E r \in Reviewers, value \in Choices : PickStarts(q, i, r, value)
  \/ \E a \in Admins, needed \in 1..MaxRequired : FormLoads(a, needed)

Next ==
  \/ \E q \in Requests : RequestStep(q) \/ RequestDies(q)
  \/ \E a \in Admins : FormStep(a) \/ FormDies(a)
  \/ \E a \in Admins, q \in Requests : DeadlockBroken(a, q)
  \/ Users

Spec == Init /\ [][Next]_vars

\* A transaction goes on, rows are granted in the order of the waiting requests
\* (so a request is not overtaken for ever), and deadlocks are detected.
Fairness ==
  /\ \A q \in Requests : SF_vars(RequestStep(q))
  /\ \A a \in Admins : SF_vars(FormStep(a))
  /\ \A a \in Admins, q \in Requests : WF_vars(DeadlockBroken(a, q))

FairSpec == Spec /\ Fairness

-----------------------------------------------------------------------------
(* Properties.                                                             *)

\* review_count is the number of submitted annotations, which is what the status,
\* the progress and resync_items go by, although it is recounted in a statement
\* of its own while other submissions and resyncs run (models.py:350).
ReviewCountExact ==
  \A i \in Items : status[i] # "absent" => review_count[i] = Cardinality(ReviewersOf(i))

\* No item ever has two authoritative annotations, whatever picks, submissions
\* and resyncs do at once.
OneAuthoritative ==
  \A i \in Items, r, s \in Reviewers :
    mark[<<i, r>>] \in Authoritative /\ mark[<<i, s>>] \in Authoritative => r = s

\* Unless a form overlaps with another request, the status of every item that is
\* not flagged is what its reviews, its marks and the requirement make it.
InSync(i) ==
  status[i] \in {"absent", "flagged",
                 ItemStatus(review_count[i], required, HasAuthoritative(mark, i))}
StatusInSync == trouble = "none" /\ Quiet => \A i \in Items : InSync(i)

\* Unless a form overlaps with another request, submissions never meet the
\* partial unique constraint: the row lock serialises them (ADR-0016, "The row
\* lock makes the constraint untriggerable under normal load").
SubmissionsAccepted == trouble = "none" => ~refused

\* What an admin has picked stays picked until an admin picks again on that item:
\* neither a submission nor a resync takes it back.
PicksKept ==
  [][\A p \in Pairs :
       mark[p] = "picked" /\ mark'[p] # "picked" =>
         \/ status'[p[1]] = "absent"
         \/ \E q \in Requests : request[q].pc = "choosing" /\ request[q].item = p[1]]_vars

\* A flagged item stays flagged until someone unflags it (ADR-0016, "FLAGGED is
\* sticky"), although submissions and resyncs write statuses they computed earlier.
FlagSticky ==
  [][\A i \in Items :
       status[i] = "flagged" /\ status'[i] # "flagged" =>
         \/ status'[i] = "absent"
         \/ \E q \in Requests : request[q].pc = "unflagging" /\ request[q].item = i]_vars

\* What admins decided stays until an admin decides otherwise.
AdminsDecide == PicksKept /\ FlagSticky

\* A form that was sent is answered: resyncs and picks that wait for one another
\* are told apart by the database.
FormsEnd == \A a \in Admins : form[a].pc # "idle" ~> form[a].pc = "idle"

-----------------------------------------------------------------------------
(* The inductive invariant behind the safety properties.                   *)

\* One transaction at a time holds an item, and the item has a row meanwhile.
OneHolder ==
  /\ \A p, q \in Requests, i \in Items : Holds(p, i) /\ Holds(q, i) => p = q
  /\ \A a \in Admins : \A i \in form[a].locked :
        /\ \A q \in Requests : ~Holds(q, i)
        /\ status[i] \notin {"flagged", "absent"}
        /\ \A b \in Admins : i \in form[b].locked => a = b
  /\ \A q \in Requests, i \in Items : Holds(q, i) => status[i] # "absent"

\* What a form holds at each of its steps.
FormsInOrder ==
  \A a \in Admins :
    /\ form[a].pc \in {"idle", "saving", "marking"} => form[a].touched = {}
    /\ form[a].pc # "locking" => form[a].todo = {} /\ form[a].locked = {}

\* An annotation that a resync has written keeps the mark the resync found, and
\* no other resync writes it.
TouchedStable ==
  \A a \in Admins : \A p \in form[a].touched :
    /\ mark[p] = IF form[a].needed > 1 THEN "auto" ELSE "plain"
    /\ \A b \in Admins : p \in form[b].touched => a = b

\* What a request is about.
RequestsInOrder ==
  \A q \in Requests :
    /\ request[q].pc # "idle" => request[q].item \in Items
    /\ request[q].pc \notin {"idle", "unflagging"} => request[q].reviewer \in Reviewers
    /\ request[q].pc \in {"inserting", "committing"} => request[q].value \in {"plain", "auto"}
    /\ request[q].pc \in {"picking", "choosing"} => request[q].value \in {"plain", "picked"}

\* What a submission is about to commit is still right when it commits.
SubmissionIsSafe ==
  \A q \in Requests : request[q].pc = "committing" =>
    LET i == request[q].item
    IN  /\ mark[<<i, request[q].reviewer>>] = "none"
        /\ request[q].count = Cardinality(ReviewersOf(i) \cup {request[q].reviewer})
        /\ status[i] = "flagged" => request[q].status = "flagged"

\* A mark about to be committed is the only one of its item.
MarksAreSafe ==
  /\ OneAuthoritative
  /\ \A q \in Requests : request[q].pc = "committing" /\ request[q].value = "auto" =>
       ~HasAuthoritative(mark, request[q].item) /\ TouchedOn(request[q].item) = {}
  /\ \A a \in Admins : \A p \in form[a].touched : form[a].needed = 1 =>
       ~HasAuthoritative(mark, p[1]) /\ TouchedOn(p[1]) = {p}

\* The annotations of an item go with it.
NoOrphans == \A p \in Pairs : mark[p] # "none" => status[p[1]] # "absent"

IInv ==
  /\ TypeOK
  /\ OneHolder
  /\ FormsInOrder
  /\ TouchedStable
  /\ RequestsInOrder
  /\ SubmissionIsSafe
  /\ MarksAreSafe
  /\ NoOrphans
  /\ ReviewCountExact
=============================================================================
