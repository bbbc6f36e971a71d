--------------------------- MODULE ChatbotVersions ---------------------------
(***************************************************************************)
(* The versions of one chatbot (apps/experiments, apps/chatbots): publishes*)
(* in a task and reverts in a request, under the version operation lock of *)
(* the working version; the settings form, which saves the whole working   *)
(* row; and the requests that choose the default, archive a version or     *)
(* save its description.  A version is its number.                         *)
(***************************************************************************)
EXTENDS Integers

CONSTANTS
  Publishes, Reverts,  \* ids of version operations
  VersionRequests,     \* requests of the settings form and of the versions page
  MaxVersions,         \* bound: versions
  MaxVersionFaults,    \* bound: operations that die or that fail to be sent
  NoOperation          \* the empty create_version_task_id

Operations == Publishes \union Reverts

ASSUME VersionBounds == MaxVersions \in Nat /\ MaxVersionFaults \in Nat
ASSUME OperationNames == NoOperation \notin Operations /\ Publishes \intersect Reverts = {}

VARIABLES
  number,     \* version_number of the working version, which the next publish gets
  owner,      \* its create_version_task_id, the lock
  published,  \* numbers of the versions
  default,    \* those with is_default_version
  archived,   \* those with is_archived
  operation,  \* publishes and reverts: progress and the number they have read
  page,       \* requests: what they are about and the columns they have read
  stale,      \* history: rows that were saved with columns that had changed
  faults

versionVars == <<number, owner, published, default, archived, operation, page, stale,
                 faults>>

Numbers == 1 .. MaxVersions

VersionInit ==
  /\ number = 1 /\ owner = NoOperation
  /\ published = {} /\ default = {} /\ archived = {}
  /\ operation = [o \in Operations |-> [pc |-> "idle", number |-> 0]]
  /\ page = [r \in VersionRequests |-> [kind |-> "none"]]
  /\ stale = {}
  /\ faults = 0

At(o, pc) == operation[o].pc = pc
MovesTo(o, pc) == operation' = [operation EXCEPT ![o].pc = pc]
Reads(o, pc) == operation' = [operation EXCEPT ![o] = [pc |-> pc, number |-> number]]
Working(o) == operation[o].pc \in {"queued", "publishing", "reverting", "releasing"}

-----------------------------------------------------------------------------
\* The lock.

\* Mutant: the claim does not look at the lock it read.
Unconditional == TRUE

\* acquire_version_operation_lock updates the row only while the lock is empty.
LockIsFree == owner = NoOperation

\* start_version_creation; a refused operation ends.
ClaimPublish(o) ==
  /\ o \in Publishes /\ At(o, "idle")
  /\ IF LockIsFree THEN owner' = o /\ MovesTo(o, "queued")
     ELSE MovesTo(o, "done") /\ UNCHANGED owner
  /\ UNCHANGED <<number, published, default, archived, page, stale, faults>>

\* Sending the task raises, whether or not it was sent: the lock is released.
SendFails(o) ==
  /\ o \in Publishes /\ At(o, "queued") /\ owner = o /\ faults < MaxVersionFaults
  /\ faults' = faults + 1
  /\ owner' = NoOperation
  /\ \/ MovesTo(o, "done") /\ UNCHANGED stale
     \/ UNCHANGED operation /\ stale' = stale \union {"sent"}
  /\ UNCHANGED <<number, published, default, archived, page>>

\* revert_chatbot_version reads the working row before it claims the lock.
LoadRevert(o) ==
  /\ o \in Reverts /\ At(o, "idle") /\ published # {}
  /\ Reads(o, "loaded")
  /\ UNCHANGED <<number, owner, published, default, archived, page, stale, faults>>

ClaimRevert(o) ==
  /\ At(o, "loaded")
  /\ IF LockIsFree THEN owner' = o /\ MovesTo(o, "reverting")
     ELSE MovesTo(o, "done") /\ UNCHANGED owner
  /\ UNCHANGED <<number, published, default, archived, page, stale, faults>>

\* Mutant: a failed operation does not reach its release.
DoneIfFailed(failed) == IF failed THEN "done" ELSE "releasing"

\* What follows an operation, in its finally block.
Afterwards(failed) == "releasing"

\* The release does not look whose lock it is.
Release(o) ==
  /\ At(o, "releasing")
  /\ owner' = NoOperation
  /\ MovesTo(o, "done")
  /\ UNCHANGED <<number, published, default, archived, page, stale, faults>>

Fail(o) ==
  /\ operation[o].pc \in {"publishing", "reverting"}
  /\ MovesTo(o, Afterwards(TRUE))
  /\ UNCHANGED <<number, owner, published, default, archived, page, stale, faults>>

\* The worker or the server dies: the lock has no timeout.
Kill(o) ==
  /\ Working(o) /\ faults < MaxVersionFaults
  /\ faults' = faults + 1
  /\ stale' = stale \union {"killed"}
  /\ MovesTo(o, "done")
  /\ UNCHANGED <<number, owner, published, default, archived, page>>

-----------------------------------------------------------------------------
\* Publishing and reverting.

StartPublish(o) ==
  /\ At(o, "queued")
  /\ Reads(o, "publishing")
  /\ UNCHANGED <<number, owner, published, default, archived, page, stale, faults>>

\* Mutant: the working version gets its own number back.
SameNumber(n) == n

NextNumber(n) == n + 1

\* Mutant: the defaults are cleared after the new version is saved.
ClearedAfter(n, makeDefault) ==
  IF makeDefault THEN {} ELSE IF n = 1 THEN default \union {n} ELSE default

\* The default versions after version n is published: archived ones are not in
\* self.versions and keep their flag.
DefaultsAfter(n, makeDefault) ==
  (IF makeDefault THEN default \intersect archived ELSE default)
    \union (IF makeDefault \/ n = 1 THEN {n} ELSE {})

\* The two unique constraints of Experiment.
AtMostOne(versions) == \A v, w \in versions : v = w

\* create_new_version, in a transaction that the constraints may refuse.
Publish(o, makeDefault) ==
  LET n == operation[o].number
  IN /\ At(o, "publishing") /\ n \in Numbers
     /\ IF n \notin published /\ AtMostOne(DefaultsAfter(n, makeDefault))
        THEN /\ number' = NextNumber(n)
             /\ published' = published \union {n}
             /\ default' = DefaultsAfter(n, makeDefault)
             /\ MovesTo(o, Afterwards(FALSE))
        ELSE MovesTo(o, Afterwards(TRUE)) /\ UNCHANGED <<number, published, default>>
     /\ UNCHANGED <<owner, archived, page, stale, faults>>

\* revert_to_version saves the whole working row: the number is the one that was
\* read before the lock was claimed, the lock is the one that was claimed.
Revert(o) ==
  /\ At(o, "reverting")
  /\ number' = operation[o].number
  /\ owner' = o
  /\ stale' = IF operation[o].number # number \/ owner # o
              THEN stale \union {"revert"} ELSE stale
  /\ MovesTo(o, Afterwards(FALSE))
  /\ UNCHANGED <<published, default, archived, page, faults>>

-----------------------------------------------------------------------------
\* Requests.

Idle(r) == page[r].kind = "none"
Ends(r) == page' = [page EXCEPT ![r] = [kind |-> "done"]]

LoadSettings(r) ==
  /\ Idle(r)
  /\ page' = [page EXCEPT ![r] = [kind |-> "settings", number |-> number, owner |-> owner]]
  /\ UNCHANGED <<number, owner, published, default, archived, operation, stale, faults>>

\* ChatbotSettingsForm.save
SaveSettings(r) ==
  /\ page[r].kind = "settings"
  /\ number' = page[r].number /\ owner' = page[r].owner
  /\ stale' = IF page[r].number # number \/ page[r].owner # owner
              THEN stale \union {"settings"} ELSE stale
  /\ Ends(r)
  /\ UNCHANGED <<published, default, archived, operation, faults>>

\* A request for a version reads its row.
LoadVersion(r, kind, v) ==
  /\ Idle(r) /\ v \in published \ archived
  /\ page' = [page EXCEPT ![r] = [kind |-> kind, version |-> v, default |-> v \in default]]
  /\ UNCHANGED <<number, owner, published, default, archived, operation, stale, faults>>

\* The whole row of the version is saved, with the columns the request has read;
\* a second default is refused.
SaveVersion(r, v, isDefault, others) ==
  LET defaults == IF isDefault THEN others \union {v} ELSE others \ {v}
  IN /\ IF AtMostOne(defaults)
        THEN default' = defaults /\ archived' = archived \ {v}
        ELSE UNCHANGED <<default, archived>>
     /\ Ends(r)
     /\ UNCHANGED <<number, owner, published, operation, faults>>

\* set_default_experiment: archived versions are not seen and keep their flag.
SaveDefault(r) ==
  LET v == page[r].version
  IN /\ page[r].kind = "default"
     /\ SaveVersion(r, v, TRUE, default \intersect archived)
     /\ stale' = IF v \in archived THEN stale \union {"page"} ELSE stale

\* update_version_description
SaveDescription(r) ==
  LET v == page[r].version
  IN /\ page[r].kind = "describe"
     /\ SaveVersion(r, v, page[r].default, default)
     /\ stale' = IF v \in archived \/ page[r].default # (v \in default)
                 THEN stale \union {"page"} ELSE stale

\* Mutant: the default version may be archived too.
AnyVersion(r) == TRUE

\* archive_experiment_version refuses the default version, as it has read it.
MayArchive(r) == ~page[r].default

ArchiveVersion(r) ==
  LET v == page[r].version
  IN /\ page[r].kind = "archive"
     /\ IF MayArchive(r)
        THEN /\ archived' = archived \union {v}
             /\ stale' = IF page[r].default # (v \in default)
                         THEN stale \union {"page"} ELSE stale
        ELSE UNCHANGED <<archived, stale>>
     /\ Ends(r)
     /\ UNCHANGED <<number, owner, published, default, operation, faults>>

-----------------------------------------------------------------------------
OperationStep(o) ==
  \/ StartPublish(o) \/ (\E makeDefault \in BOOLEAN : Publish(o, makeDefault))
  \/ ClaimRevert(o) \/ Revert(o) \/ Fail(o) \/ Release(o)
PageStep(r) ==
  \/ LoadSettings(r) \/ SaveSettings(r)
  \/ \E kind \in {"default", "describe", "archive"}, v \in Numbers : LoadVersion(r, kind, v)
  \/ SaveDefault(r) \/ SaveDescription(r) \/ ArchiveVersion(r)

VersionNext ==
  \/ \E o \in Operations :
       \/ ClaimPublish(o) \/ SendFails(o) \/ LoadRevert(o) \/ OperationStep(o) \/ Kill(o)
  \/ \E r \in VersionRequests : PageStep(r)

\* Workers and requests go on.
VersionFairness == \A o \in Operations : WF_versionVars(OperationStep(o))

VersionSpec == VersionInit /\ [][VersionNext]_versionVars

-----------------------------------------------------------------------------
\* Rows, operations and requests have their types.
VersionTypeOK ==
  /\ number \in 1 .. MaxVersions + 1
  /\ owner \in Operations \union {NoOperation}
  /\ published \subseteq Numbers
  /\ default \subseteq published /\ archived \subseteq published
  /\ operation \in [Operations ->
       [pc : {"idle", "loaded", "queued", "publishing", "reverting", "releasing", "done"},
        number : 0 .. MaxVersions + 1]]
  /\ \A r \in VersionRequests :
       page[r].kind \in {"none", "settings", "default", "describe", "archive", "done"}
  /\ stale \subseteq {"sent", "killed", "revert", "settings", "page"}
  /\ faults \in 0 .. MaxVersionFaults

\* Publishes and reverts of a chatbot never overlap, although a release does not
\* look whose lock it is; except after a task was sent by a call that raised, or
\* the settings form wrote the lock (experiments/models.py:860).
OneOperation ==
  stale \intersect {"sent", "settings"} = {} =>
    \A o, p \in Operations : Working(o) /\ Working(p) => o = p

\* The number the next publish will use is free, so that it is not refused by the
\* unique constraint, unless an old copy of the working row was saved.
NumberIsFree ==
  stale \intersect {"sent", "settings", "revert"} = {} => number \notin published

\* What the comments in revert_chatbot_version (chatbots/views.py:535) say: with
\* the lock, claimed atomically, no publish interleaves with a revert.
RevertsDoNotInterleave ==
  stale \intersect {"sent", "settings"} = {} => number \notin published

\* Once something is published there is a default version that is not archived,
\* and sessions never fall back to the unpublished working version, unless a
\* request saved or checked an old copy of a version (experiments/models.py:905).
PublishedHasDefault ==
  published # {} /\ "page" \notin stale => default \ archived # {}

\* The lock is given back after every operation, also a failed one, so that it is
\* free again and again; only the death of its owner or an old copy of the row keep
\* it (experiments/models.py:866).
LockGivenBack == []<>(owner = NoOperation \/ stale # {})

\* Operations exclude each other and leave a free number and a default version.
VersionsAreKept == OneOperation /\ NumberIsFree /\ PublishedHasDefault
=============================================================================
