---------------------------- MODULE DocumentSync ----------------------------
(***************************************************************************)
(* One document source of an index collection (apps/documents): the tasks  *)
(* that sync its files with what the source serves, under a lock that is   *)
(* reclaimed once it is stale; the tasks that index those files; the task  *)
(* that deletes an archived source page by page; and the form that edits   *)
(* the source.  Documents are content versions, an index is local chunks.  *)
(***************************************************************************)
EXTENDS Integers, FiniteSets, TLC

CONSTANTS
  Docs,         \* identifiers of documents of the source
  Syncs,        \* ids of sync tasks
  MaxFiles,     \* bound: files ever created
  MaxVersion,   \* bound: versions of a document
  PageSize,     \* files deleted per transaction
  MaxFaults,    \* bound: killed tasks and failures of the source
  NoTask        \* the empty sync_task_id

ASSUME DocumentBounds ==
  /\ MaxFiles \in Nat /\ MaxVersion \in Nat \ {0}
  /\ PageSize \in Nat \ {0} /\ MaxFaults \in Nat
ASSUME NoTaskIsNone == NoTask \notin Syncs

VARIABLES
  source,    \* version each document is served in, 0 when it is not
  sourceRow, \* the row of the source: "live", "archived" or "deleted"
  lock,      \* sync_task_id, and whether sync_started_at is recent
  files,     \* the collection files and their content
  chunks,    \* the versions each file has chunks of
  sync,      \* the sync tasks
  jobs,      \* indexing tasks that wait
  indexer,   \* files and contents the running indexing task has loaded
  removal,   \* the task that deletes the source
  form,      \* the lock as a form of the source has loaded it
  unqueued,  \* history: files whose indexing was dropped by a fault
  excuse,    \* history: a running sync's lock was "reclaimed", or an "edit" wrote it
  faults

docsVars == <<source, sourceRow, lock, files, chunks, sync, jobs, indexer, removal,
              form, unqueued, excuse, faults>>

FileIds == 1 .. MaxFiles
Lock == [owner : Syncs \union {NoTask}, fresh : BOOLEAN]
NoLock == [owner |-> NoTask, fresh |-> FALSE]
NoFile == [doc |-> NoTask, content |-> 0, status |-> "none"]
Unused == [pc |-> "unused", known |-> <<>>, todo |-> {}, yielded |-> {},
           seen |-> {}, index |-> {}]
Nothing == <<>>   \* a function with an empty domain

Present == {f \in FileIds : files[f].status # "none"}
Running(t) == sync[t].pc \in {"mapping", "syncing", "indexing", "releasing"}

DocsInit ==
  /\ source = [d \in Docs |-> 1]
  /\ sourceRow = "live"
  /\ lock = NoLock
  /\ files = [f \in FileIds |-> NoFile]
  /\ chunks = [f \in FileIds |-> {}]
  /\ sync = [t \in Syncs |-> Unused]
  /\ jobs = {}
  /\ indexer = Nothing
  /\ removal = [pc |-> "idle", pages |-> 0, page |-> 0]
  /\ form = [pc |-> "idle", lock |-> NoLock]
  /\ unqueued = {} /\ excuse = {} /\ faults = 0

-----------------------------------------------------------------------------
\* The lock.

\* Mutant: the start time is not looked at.
AlwaysClaimable(t) == TRUE

\* is_sync_in_progress is false, or the lock was claimed for this very task.
Claimable(t) == lock.owner \in {NoTask, t} \/ ~lock.fresh

Claims(t) ==
  /\ lock' = [owner |-> t, fresh |-> TRUE]
  /\ excuse' = IF ~lock.fresh /\ \E u \in Syncs \ {t} : u = lock.owner /\ Running(u)
               THEN excuse \union {"reclaimed"} ELSE excuse

\* A user asks for a sync: the view claims the lock for a task id of its own
\* and then sends the task.
QueueSync(t) ==
  /\ sync[t].pc = "unused" /\ sourceRow = "live" /\ Claimable(t)
  /\ Claims(t)
  /\ sync' = [sync EXCEPT ![t].pc = "queued"]
  /\ UNCHANGED <<source, sourceRow, files, chunks, jobs, indexer, removal, form, unqueued,
                 faults>>

\* The nightly task sends a task without a claim.
DispatchSync(t) ==
  /\ sync[t].pc = "unused" /\ sourceRow = "live" /\ Claimable(t)
  /\ sync' = [sync EXCEPT ![t].pc = "queued"]
  /\ UNCHANGED <<source, sourceRow, lock, files, chunks, jobs, indexer, removal, form,
                 unqueued, excuse, faults>>

StartSync(t) ==
  /\ sync[t].pc = "queued"
  /\ IF sourceRow = "live" /\ Claimable(t)
     THEN /\ Claims(t)
          /\ sync' = [sync EXCEPT ![t].pc = "mapping"]
     ELSE /\ sync' = [sync EXCEPT ![t].pc = "done"]
          /\ UNCHANGED <<lock, excuse>>
  /\ UNCHANGED <<source, sourceRow, files, chunks, jobs, indexer, removal, form, unqueued,
                 faults>>

\* Mutant: the task clears whatever lock there is.
ClearedByAny(t) == NoLock

\* The lock after the release by task t, which clears only its own.
ClearedBy(t) == IF lock.owner = t THEN NoLock ELSE lock

ReleaseSync(t) ==
  /\ sync[t].pc = "releasing"
  /\ lock' = ClearedBy(t)
  /\ sync' = [sync EXCEPT ![t] = [Unused EXCEPT !.pc = "done"]]
  /\ UNCHANGED <<source, sourceRow, files, chunks, jobs, indexer, removal, form, unqueued,
                 excuse, faults>>

\* SYNC_LOCK_TIMEOUT passes.
LockAges ==
  /\ lock.fresh
  /\ lock' = [lock EXCEPT !.fresh = FALSE]
  /\ UNCHANGED <<source, sourceRow, files, chunks, sync, jobs, indexer, removal, form,
                 unqueued, excuse, faults>>

-----------------------------------------------------------------------------
\* A sync.

\* What ends a sync early: the files it would have indexed are forgotten.
Abandon(t) ==
  /\ unqueued' = unqueued \union sync[t].index
  /\ sync' = [sync EXCEPT ![t] = [Unused EXCEPT !.pc = "releasing"]]

\* _map_existing_files, by document; of two files of a document one is kept.
MapFiles(t) ==
  /\ sync[t].pc = "mapping"
  /\ \/ /\ sourceRow = "live"
        /\ \E known \in [{files[f].doc : f \in Present} -> Present] :
             /\ \A d \in DOMAIN known : files[known[d]].doc = d
             /\ sync' = [sync EXCEPT ![t] =
                  [@ EXCEPT !.pc = "syncing", !.todo = Docs,
                     !.known = [d \in DOMAIN known |->
                       [file |-> known[d], content |-> files[known[d]].content]]]]
        /\ UNCHANGED unqueued
     \/ sourceRow # "live" /\ Abandon(t)
  /\ UNCHANGED <<source, sourceRow, lock, files, chunks, jobs, indexer, removal, form,
                 excuse, faults>>

\* Mutant: a document counts as seen once it was processed.
SeenIfProcessed(t, d, ok) == IF ok THEN sync[t].seen \union {d} ELSE sync[t].seen

\* Marked as seen before it is processed, so whether or not that works.
SeenBy(t, d, ok) == sync[t].seen \union {d}

\* Mutant: an updated file is not indexed again.
OnlyNewFiles(old, f) == IF old = 0 THEN {f} ELSE {}

\* The file to index for a document, whether it was created or updated.
FilesToIndex(old, f) == {f}

\* The file that t has mapped for d, 0 if none.
KnownFile(t, d) ==
  IF d \in DOMAIN sync[t].known THEN sync[t].known[d].file ELSE 0
UpToDate(t, d) ==
  d \in DOMAIN sync[t].known /\ sync[t].known[d].content = source[d]
FreeIds == {f \in FileIds : \A g \in f .. MaxFiles :
                              files[g].status = "none" /\ chunks[g] = {} /\ g \notin unqueued}

\* The next document the loader yields is up to date, or is stored, or fails.
SyncDocument(t, d) ==
  LET old == KnownFile(t, d)
      targets == IF old = 0 THEN {f \in FreeIds : \A g \in FreeIds : f <= g}
                 ELSE {old} \intersect Present
      Yields(ok, index) == sync' = [sync EXCEPT ![t] =
        [sync[t] EXCEPT !.todo = sync[t].todo \ {d}, !.yielded = sync[t].yielded \union {d},
                        !.seen = SeenBy(t, d, ok), !.index = sync[t].index \union index]]
  IN /\ sync[t].pc = "syncing" /\ sourceRow = "live"
     /\ d \in sync[t].todo /\ source[d] > 0
     /\ \/ UpToDate(t, d) /\ Yields(TRUE, {}) /\ UNCHANGED <<files, faults>>
        \/ /\ ~UpToDate(t, d)
           /\ \E f \in targets :
                /\ files' = [files EXCEPT ![f] =
                     [doc |-> d, content |-> source[d], status |-> "pending"]]
                /\ Yields(TRUE, FilesToIndex(old, f))
           /\ UNCHANGED faults
        \/ /\ ~UpToDate(t, d) /\ faults < MaxFaults
           /\ faults' = faults + 1
           /\ Yields(FALSE, {})
           /\ UNCHANGED files
        \/ /\ ~UpToDate(t, d) /\ targets = {} /\ old # 0
           /\ Yields(FALSE, {})
           /\ UNCHANGED <<files, faults>>
  /\ UNCHANGED <<source, sourceRow, lock, chunks, jobs, indexer, removal, form, unqueued,
                 excuse>>

\* What the loader does not yield is not seen: a document that is gone.
SkipDocument(t, d) ==
  /\ sync[t].pc = "syncing" /\ d \in sync[t].todo /\ source[d] = 0
  /\ sync' = [sync EXCEPT ![t].todo = @ \ {d}]
  /\ UNCHANGED <<source, sourceRow, lock, files, chunks, jobs, indexer, removal, form,
                 unqueued, excuse, faults>>

\* Rows of collection files, their files and chunks are deleted together.
Delete(ids) ==
  /\ files' = [f \in FileIds |-> IF f \in ids THEN NoFile ELSE files[f]]
  /\ chunks' = [f \in FileIds |-> IF f \in ids THEN {} ELSE chunks[f]]

\* _remove_stale_files: what was mapped and not seen.
RemoveStaleFiles(t) ==
  /\ sync[t].pc = "syncing" /\ sync[t].todo = {}
  /\ Delete({sync[t].known[d].file : d \in DOMAIN sync[t].known \ sync[t].seen})
  /\ sync' = [sync EXCEPT ![t].pc = "indexing"]
  /\ UNCHANGED <<source, sourceRow, lock, jobs, indexer, removal, form, unqueued, excuse,
                 faults>>

QueueIndexing(t) ==
  /\ sync[t].pc = "indexing"
  /\ jobs' = IF sync[t].index = {} THEN jobs
             ELSE jobs \union {[by |-> t, files |-> sync[t].index]}
  /\ sync' = [sync EXCEPT ![t] = [Unused EXCEPT !.pc = "releasing"]]
  /\ UNCHANGED <<source, sourceRow, lock, files, chunks, indexer, removal, form, unqueued,
                 excuse, faults>>

\* The source is gone when the next document comes.
AbortSync(t) ==
  /\ sync[t].pc = "syncing" /\ sync[t].todo # {} /\ sourceRow # "live"
  /\ Abandon(t)
  /\ UNCHANGED <<source, sourceRow, lock, files, chunks, jobs, indexer, removal, form,
                 excuse, faults>>

\* The loader raises, or the removal of stale files does.
FailSync(t) ==
  /\ sync[t].pc = "syncing" /\ faults < MaxFaults
  /\ faults' = faults + 1
  /\ Abandon(t)
  /\ UNCHANGED <<source, sourceRow, lock, files, chunks, jobs, indexer, removal, form,
                 excuse>>

\* The worker dies, or the message is lost: the lock stays.
KillSync(t) ==
  /\ sync[t].pc \notin {"unused", "done"} /\ faults < MaxFaults
  /\ faults' = faults + 1
  /\ unqueued' = unqueued \union sync[t].index
  /\ sync' = [sync EXCEPT ![t] = [Unused EXCEPT !.pc = "done"]]
  /\ UNCHANGED <<source, sourceRow, lock, files, chunks, jobs, indexer, removal, form,
                 excuse>>

-----------------------------------------------------------------------------
\* Indexing.

\* The files of a task are marked and loaded with their content.
StartIndexing(j) ==
  LET found == j.files \intersect Present
  IN /\ indexer = Nothing /\ j \in jobs
     /\ jobs' = jobs \ {j}
     /\ files' = [f \in FileIds |-> IF f \in found
                    THEN [files[f] EXCEPT !.status = "in_progress"] ELSE files[f]]
     /\ indexer' = [f \in found |-> files[f].content]
     /\ UNCHANGED <<source, sourceRow, lock, chunks, sync, removal, form, unqueued, excuse,
                    faults>>

\* Mutant: a file whose embedding failed is completed.
AlwaysCompleted(ok) == "completed"

IndexedStatus(ok) == IF ok THEN "completed" ELSE "failed"

\* _embed_file adds chunks of what was loaded; what fails leaves none of its own.
IndexFile(f, ok) ==
  /\ f \in DOMAIN indexer
  /\ indexer' = [g \in DOMAIN indexer \ {f} |-> indexer[g]]
  /\ IF f \in Present
     THEN /\ files' = [files EXCEPT ![f].status = IndexedStatus(ok)]
          /\ chunks' = IF ok THEN [chunks EXCEPT ![f] = @ \union {indexer[f]}]
                       ELSE chunks
     ELSE UNCHANGED <<files, chunks>>
  /\ UNCHANGED <<source, sourceRow, lock, sync, jobs, removal, form, unqueued, excuse, faults>>

KillIndexer ==
  /\ indexer # Nothing /\ faults < MaxFaults
  /\ faults' = faults + 1
  /\ unqueued' = unqueued \union DOMAIN indexer
  /\ indexer' = Nothing
  /\ UNCHANGED <<source, sourceRow, lock, files, chunks, sync, jobs, removal, form, excuse>>

\* A user retries what failed.
RetryFailed ==
  LET failed == {f \in Present : files[f].status = "failed"}
  IN /\ failed # {}
     /\ chunks' = [f \in FileIds |-> IF f \in failed THEN {} ELSE chunks[f]]
     /\ files' = [f \in FileIds |-> IF f \in failed
                    THEN [files[f] EXCEPT !.status = "pending"] ELSE files[f]]
     /\ jobs' = jobs \union {[by |-> NoTask, files |-> failed]}
     /\ UNCHANGED <<source, sourceRow, lock, sync, indexer, removal, form, unqueued, excuse,
                    faults>>

-----------------------------------------------------------------------------
\* Edits and deletion of the source.

EditLoads ==
  /\ form.pc = "idle" /\ sourceRow = "live"
  /\ form' = [pc |-> "loaded", lock |-> lock]
  /\ UNCHANGED <<source, sourceRow, lock, files, chunks, sync, jobs, indexer, removal,
                 unqueued, excuse, faults>>

\* The form saves the whole row as it was loaded; the sync it asks for next is
\* QueueSync.
EditSaves ==
  /\ form.pc = "loaded"
  /\ form' = [pc |-> "saved", lock |-> NoLock]
  /\ lock' = form.lock
  /\ sourceRow' = "live"
  /\ excuse' = IF form.lock # lock \/ sourceRow # "live"
               THEN excuse \union {"edit"} ELSE excuse
  /\ UNCHANGED <<source, files, chunks, sync, jobs, indexer, removal, unqueued, faults>>

ArchiveSource ==
  /\ sourceRow = "live" /\ removal.pc = "idle"
  /\ sourceRow' = "archived"
  /\ removal' = [removal EXCEPT !.pc = "queued"]
  /\ UNCHANGED <<source, lock, files, chunks, sync, jobs, indexer, form, unqueued,
                 excuse, faults>>

\* The number of pages is computed once.
StartRemoval ==
  /\ removal.pc = "queued"
  /\ removal' = IF sourceRow = "archived"
                THEN [pc |-> "paging", page |-> 1,
                      pages |-> (Cardinality(Present) + PageSize - 1) \div PageSize]
                ELSE [removal EXCEPT !.pc = "done"]
  /\ UNCHANGED <<source, sourceRow, lock, files, chunks, sync, jobs, indexer, form, unqueued,
                 excuse, faults>>

\* Mutant: pages are counted from one in the offset too.
OffsetOfNext(page) == page * PageSize

\* Where the slice of a page starts, in what is left when it is evaluated.
Offset(page) == (page - 1) * PageSize

\* A page is a slice, in no particular order, of the files that are left.
RemovePage ==
  LET left == Cardinality(Present) - Offset(removal.page)
      size == IF left <= 0 THEN 0 ELSE IF left < PageSize THEN left ELSE PageSize
  IN /\ removal.pc = "paging" /\ removal.page <= removal.pages
     /\ \E page \in SUBSET Present : Cardinality(page) = size /\ Delete(page)
     /\ removal' = [removal EXCEPT !.page = @ + 1]
     /\ UNCHANGED <<source, sourceRow, lock, sync, jobs, indexer, form, unqueued, excuse, faults>>

\* The row goes, and collection files that are left go with it by cascade.
FinishRemoval ==
  /\ removal.pc = "paging" /\ removal.page > removal.pages
  /\ removal' = [removal EXCEPT !.pc = "done"]
  /\ sourceRow' = "deleted"
  /\ files' = [f \in FileIds |-> NoFile]
  /\ UNCHANGED <<source, lock, chunks, sync, jobs, indexer, form, unqueued, excuse, faults>>

\* The task is acknowledged late, so it is delivered again.
KillRemoval ==
  /\ removal.pc = "paging" /\ faults < MaxFaults
  /\ faults' = faults + 1
  /\ removal' = [removal EXCEPT !.pc = "queued"]
  /\ UNCHANGED <<source, sourceRow, lock, files, chunks, sync, jobs, indexer, form, unqueued,
                 excuse>>

SourceChanges(d) ==
  /\ source[d] > 0
  /\ \/ source' = [source EXCEPT ![d] = 0]
     \/ source[d] < MaxVersion /\ source' = [source EXCEPT ![d] = @ + 1]
  /\ UNCHANGED <<sourceRow, lock, files, chunks, sync, jobs, indexer, removal, form,
                 unqueued, excuse, faults>>

SyncStep(t) ==
  \/ QueueSync(t) \/ DispatchSync(t) \/ StartSync(t) \/ MapFiles(t)
  \/ (\E d \in Docs : SyncDocument(t, d) \/ SkipDocument(t, d))
  \/ RemoveStaleFiles(t) \/ QueueIndexing(t) \/ ReleaseSync(t)
  \/ AbortSync(t) \/ FailSync(t) \/ KillSync(t)
IndexStep ==
  \/ \E j \in jobs : StartIndexing(j)
  \/ \E f \in FileIds, ok \in BOOLEAN : IndexFile(f, ok)
  \/ KillIndexer \/ RetryFailed
RemovalStep == StartRemoval \/ RemovePage \/ FinishRemoval

DocsNext ==
  \/ \E t \in Syncs : SyncStep(t)
  \/ IndexStep
  \/ LockAges \/ EditLoads \/ EditSaves \/ ArchiveSource
  \/ RemovalStep \/ KillRemoval
  \/ \E d \in Docs : SourceChanges(d)

DocsSpec == DocsInit /\ [][DocsNext]_docsVars

-----------------------------------------------------------------------------
\* Sync tasks, locks, files and the deletion have their types.
DocsTypeOK ==
  /\ source \in [Docs -> 0 .. MaxVersion]
  /\ sourceRow \in {"live", "archived", "deleted"}
  /\ lock \in Lock
  /\ files \in [FileIds -> [doc : Docs \union {NoTask}, content : 0 .. MaxVersion,
       status : {"none", "pending", "in_progress", "completed", "failed"}]]
  /\ chunks \in [FileIds -> SUBSET (1 .. MaxVersion)]
  /\ \A t \in Syncs :
       /\ sync[t].pc \in {"unused", "queued", "mapping", "syncing", "indexing",
                          "releasing", "done"}
       /\ sync[t].index \subseteq FileIds
  /\ removal.pc \in {"idle", "queued", "paging", "done"}
  /\ form.lock \in Lock
  /\ unqueued \subseteq FileIds /\ excuse \subseteq {"reclaimed", "edit"}

\* Two syncs of a source never run at once, except after the lock of a running one
\* was reclaimed as stale or overwritten by the form (documents/tasks.py:184).
OneSync ==
  excuse = {} => \A t, u \in Syncs : Running(t) /\ Running(u) => t = u

\* So a document has one file, whatever failures and killed syncs come before.
OneFilePerDocument ==
  excuse = {} => \A f, g \in Present : files[f].doc = files[g].doc => f = g

\* Syncs of a source exclude each other, and leave one file for a document.
SyncsExclusive == OneSync /\ OneFilePerDocument

\* What the docstring of _queue_document_source_sync says of edits
\* (documents/views.py:323): a form saved during a sync starts no second one.
EditsKeepTheLock ==
  "reclaimed" \notin excuse => \A t, u \in Syncs : Running(t) /\ Running(u) => t = u

\* A fresh lock is given up by its owner only, or lost to the form.
LockIsOwners ==
  [][lock.fresh /\ lock'.owner # lock.owner =>
       excuse' # excuse \/ form' # form \/ sync'[lock.owner].pc = "done"]_docsVars

\* A file is not taken for stale because its document failed to be processed
\* (documents/document_source_service.py:190).
ServedIsKept ==
  [][\A t \in Syncs : excuse = {} /\ sync[t].pc = "syncing" /\ sync'[t].pc = "indexing" =>
       \A f \in Present : files[f].doc \in sync[t].yielded => files'[f] = files[f]]_docsVars

\* A sync takes neither the lock of another one nor a file that is still served.
OthersKept == LockIsOwners /\ ServedIsKept

Awaited(f) ==
  \/ \E j \in jobs : f \in j.files
  \/ \E t \in Syncs : f \in sync[t].index
  \/ f \in DOMAIN indexer

\* A file waits for indexing only while a task is going to index it; only a
\* failed or killed task leaves it pending for good.
WaitingIsAwaited ==
  \A f \in Present : files[f].status \in {"pending", "in_progress"} =>
    Awaited(f) \/ f \in unqueued

\* A file that is indexed has chunks of its present content, however indexing
\* and updates overlap.
IndexedIsCurrent ==
  \A f \in Present : files[f].status = "completed" /\ ~Awaited(f) /\ f \notin unqueued =>
    files[f].content \in chunks[f]

\* Files are indexed as they are, or will be.
FilesAreIndexed == WaitingIsAwaited /\ IndexedIsCurrent

\* Once a source of one page is deleted, nothing of it can be found any more.
DeletedIsNotFound ==
  sourceRow = "deleted" /\ removal.pages <= 1 /\ excuse = {} =>
    \A f \in FileIds : chunks[f] = {}
=============================================================================
