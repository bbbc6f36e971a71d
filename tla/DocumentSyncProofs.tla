------------------------- MODULE DocumentSyncProofs -------------------------
(***************************************************************************)
(* The sync lock, the files, their index and their deletion, for any       *)
(* number of tasks, documents, files and faults.  The strengthening is     *)
(* that a running task owns the lock as long as nothing excused the        *)
(* contrary, that nobody's lock is never fresh, in the row and in the copy *)
(* a form holds, that the task that syncs has mapped every file of a       *)
(* document it has not processed yet, that the indexing task holds what a  *)
(* file says now or another one waits for the file, and that one page      *)
(* holds all that is left of an archived source.                           *)
(***************************************************************************)
EXTENDS DocumentSync, FiniteSetTheorems, TLAPS

SyncShape ==
  /\ sync = [t \in Syncs |-> sync[t]]
  /\ \A t \in Syncs : DOMAIN sync[t] = DOMAIN Unused

LockInv ==
  /\ SyncShape
  /\ lock \in Lock /\ (lock.owner = NoTask => ~lock.fresh)
  /\ form.lock \in Lock /\ (form.lock.owner = NoTask => ~form.lock.fresh)
  /\ DOMAIN form = {"pc", "lock"}
  /\ excuse = {} => \A t \in Syncs : Running(t) => lock.owner = t

\* What a step of task t may do to the tasks: the others stay, and t keeps its
\* fields and gets the phase p.
Moves(t, p) ==
  /\ sync' = [u \in Syncs |-> sync'[u]]
  /\ \A u \in Syncs \ {t} : sync'[u] = sync[u]
  /\ DOMAIN sync'[t] = DOMAIN Unused
  /\ sync'[t].pc = p

\* An action that writes the record of one task moves that task alone.
LEMMA UpdateMoves ==
  ASSUME SyncShape, NEW t \in Syncs, NEW r, DOMAIN r = DOMAIN Unused,
         sync' = [sync EXCEPT ![t] = r]
  PROVE  Moves(t, r.pc)
BY DEF SyncShape, Moves

\* The record of a task keeps its fields when some of them are replaced.
LEMMA RecordKept ==
  ASSUME SyncShape, NEW t \in Syncs, NEW p
  PROVE  /\ DOMAIN [sync[t] EXCEPT !.pc = p] = DOMAIN Unused
         /\ [sync[t] EXCEPT !.pc = p].pc = p
         /\ DOMAIN [Unused EXCEPT !.pc = p] = DOMAIN Unused
         /\ [Unused EXCEPT !.pc = p].pc = p
BY DEF SyncShape, Unused

\* Steps that only move a task on, or end it, keep the invariant: the lock is not
\* touched and no task starts to run.
LEMMA MoveKeepsLock ==
  ASSUME LockInv, NEW t \in Syncs, NEW p, Moves(t, p),
         UNCHANGED <<lock, form, excuse>>,
         Running(t) \/ p \in {"queued", "done"}
  PROVE  LockInv'
<1>1. SyncShape' BY DEF LockInv, SyncShape, Moves, Unused
<1>2. ASSUME NEW u \in Syncs, Running(u)', excuse' = {} PROVE lock'.owner = u
  <2>1. CASE u = t
    <3>1. Running(t) BY <2>1, <1>2 DEF Moves, Running
    <3> QED BY <3>1, <2>1, <1>2 DEF LockInv
  <2>2. CASE u # t
    <3>1. sync'[u] = sync[u] BY <2>2 DEF Moves
    <3>2. Running(u) BY <3>1, <1>2 DEF Running
    <3> QED BY <3>2, <1>2 DEF LockInv
  <2> QED BY <2>1, <2>2
<1> QED BY <1>1, <1>2 DEF LockInv

\* A claim excuses itself when it takes the lock from a running task.
LEMMA ClaimKeepsLock ==
  ASSUME LockInv, NEW t \in Syncs, NEW p, Moves(t, p), Claimable(t), Claims(t),
         form' = form
  PROVE  LockInv'
<1>1. SyncShape' BY DEF LockInv, SyncShape, Moves, Unused
<1>2. lock' \in Lock /\ lock'.owner = t /\ lock'.owner # NoTask
  BY NoTaskIsNone DEF Claims, Lock
<1>3. ASSUME NEW u \in Syncs, Running(u)', excuse' = {} PROVE u = t
  <2> SUFFICES ASSUME u # t PROVE FALSE OBVIOUS
  <2>1. sync'[u] = sync[u] BY DEF Moves
  <2>2. Running(u) BY <2>1, <1>3 DEF Running
  <2>3. excuse = {} BY <1>3 DEF Claims
  <2>4. lock.owner = u BY <2>2, <2>3 DEF LockInv
  <2>5. ~lock.fresh BY <2>4, NoTaskIsNone DEF Claimable
  <2> QED BY <2>2, <2>4, <2>5, <1>3 DEF Claims
<1> QED BY <1>1, <1>2, <1>3 DEF LockInv

LEMMA InitLock == DocsInit => LockInv
<1> SUFFICES ASSUME DocsInit PROVE LockInv OBVIOUS
<1>1. \A t \in Syncs : sync[t] = Unused BY DEF DocsInit
<1>2. SyncShape BY <1>1 DEF DocsInit, SyncShape
<1>3. \A t \in Syncs : ~Running(t) BY <1>1 DEF Running, Unused
<1> QED BY <1>2, <1>3 DEF DocsInit, LockInv, NoLock, Lock

\* Every action of a task moves that task alone; two of them claim the lock and
\* one releases it.
LEMMA SyncStepKeepsLock ==
  ASSUME LockInv, NEW t \in Syncs, SyncStep(t) PROVE LockInv'
<1>s. SyncShape BY DEF LockInv
<1>a. \A p : /\ DOMAIN [sync[t] EXCEPT !.pc = p] = DOMAIN Unused
             /\ [sync[t] EXCEPT !.pc = p].pc = p
             /\ DOMAIN [Unused EXCEPT !.pc = p] = DOMAIN Unused
             /\ [Unused EXCEPT !.pc = p].pc = p
  BY <1>s, RecordKept
<1>1. CASE QueueSync(t)
  <2>1. sync' = [sync EXCEPT ![t] = [sync[t] EXCEPT !.pc = "queued"]]
    BY <1>1 DEF QueueSync
  <2>2. Moves(t, "queued") BY <1>s, <1>a, <2>1, UpdateMoves
  <2> QED BY <1>1, <2>2, ClaimKeepsLock DEF QueueSync
<1>2. CASE DispatchSync(t)
  <2>1. sync' = [sync EXCEPT ![t] = [sync[t] EXCEPT !.pc = "queued"]]
    BY <1>2 DEF DispatchSync
  <2>2. Moves(t, "queued") BY <1>s, <1>a, <2>1, UpdateMoves
  <2> QED BY <1>2, <2>2, MoveKeepsLock DEF DispatchSync
<1>3. CASE StartSync(t)
  <2>1. CASE sourceRow = "live" /\ Claimable(t)
    <3>1. sync' = [sync EXCEPT ![t] = [sync[t] EXCEPT !.pc = "mapping"]] /\ Claims(t)
      BY <1>3, <2>1 DEF StartSync
    <3>2. Moves(t, "mapping") BY <1>s, <1>a, <3>1, UpdateMoves
    <3> QED BY <1>3, <2>1, <3>1, <3>2, ClaimKeepsLock DEF StartSync
  <2>2. CASE ~(sourceRow = "live" /\ Claimable(t))
    <3>1. sync' = [sync EXCEPT ![t] = [sync[t] EXCEPT !.pc = "done"]]
      BY <1>3, <2>2 DEF StartSync
    <3>2. Moves(t, "done") BY <1>s, <1>a, <3>1, UpdateMoves
    <3> QED BY <1>3, <2>2, <3>2, MoveKeepsLock DEF StartSync
  <2> QED BY <2>1, <2>2
<1>4. CASE MapFiles(t)
  <2>0. Running(t) BY <1>4 DEF MapFiles, Running
  <2>1. CASE sourceRow # "live" /\ Abandon(t)
    <3>1. Moves(t, "releasing") BY <1>s, <1>a, <2>1, UpdateMoves DEF Abandon
    <3> QED BY <1>4, <2>0, <3>1, MoveKeepsLock DEF MapFiles
  <2>2. CASE ~(sourceRow # "live" /\ Abandon(t))
    <3>1. PICK known : sync' = [sync EXCEPT ![t] =
            [@ EXCEPT !.pc = "syncing", !.todo = Docs,
               !.known = [d \in DOMAIN known |->
                 [file |-> known[d], content |-> files[known[d]].content]]]]
      BY <1>4, <2>2 DEF MapFiles
    <3>2. Moves(t, "syncing") BY <1>s, <3>1 DEF SyncShape, Moves, Unused
    <3> QED BY <1>4, <2>0, <3>2, MoveKeepsLock DEF MapFiles
  <2> QED BY <2>1, <2>2
<1>5. CASE \E d \in Docs : SyncDocument(t, d)
  <2>1. PICK d \in Docs : SyncDocument(t, d) BY <1>5
  <2>0. Running(t) /\ sync[t].pc = "syncing" BY <2>1 DEF SyncDocument, Running
  <2>2. PICK ok, index : sync' = [sync EXCEPT ![t] =
          [sync[t] EXCEPT !.todo = sync[t].todo \ {d}, !.yielded = sync[t].yielded \union {d},
                          !.seen = SeenBy(t, d, ok), !.index = sync[t].index \union index]]
    BY <2>1 DEF SyncDocument
  <2>3. Moves(t, "syncing") BY <1>s, <2>0, <2>2 DEF SyncShape, Moves, Unused
  <2>4. UNCHANGED <<lock, form, excuse>> BY <2>1 DEF SyncDocument
  <2> QED BY <2>0, <2>3, <2>4, MoveKeepsLock
<1>6. CASE \E d \in Docs : SkipDocument(t, d)
  <2>1. PICK d \in Docs : SkipDocument(t, d) BY <1>6
  <2>0. Running(t) /\ sync[t].pc = "syncing" BY <2>1 DEF SkipDocument, Running
  <2>2. Moves(t, "syncing") BY <1>s, <2>0, <2>1 DEF SkipDocument, SyncShape, Moves, Unused
  <2> QED BY <2>0, <2>1, <2>2, MoveKeepsLock DEF SkipDocument
<1>7. CASE RemoveStaleFiles(t)
  <2>0. Running(t) BY <1>7 DEF RemoveStaleFiles, Running
  <2>1. sync' = [sync EXCEPT ![t] = [sync[t] EXCEPT !.pc = "indexing"]]
    BY <1>7 DEF RemoveStaleFiles
  <2>2. Moves(t, "indexing") BY <1>s, <1>a, <2>1, UpdateMoves
  <2> QED BY <1>7, <2>0, <2>2, MoveKeepsLock DEF RemoveStaleFiles
<1>8. CASE QueueIndexing(t)
  <2>0. Running(t) BY <1>8 DEF QueueIndexing, Running
  <2>1. Moves(t, "releasing") BY <1>8, <1>s, <1>a, UpdateMoves DEF QueueIndexing
  <2> QED BY <1>8, <2>0, <2>1, MoveKeepsLock DEF QueueIndexing
<1>9. CASE ReleaseSync(t)
  <2>0. Running(t) BY <1>9 DEF ReleaseSync, Running
  <2>1. Moves(t, "done") BY <1>9, <1>s, <1>a, UpdateMoves DEF ReleaseSync
  <2>2. SyncShape' BY <1>s, <2>1 DEF SyncShape, Moves, Unused
  <2>3. lock' \in Lock /\ (lock'.owner = NoTask => ~lock'.fresh)
    BY <1>9 DEF ReleaseSync, ClearedBy, LockInv, NoLock, Lock
  <2>4. ASSUME NEW u \in Syncs, Running(u)', excuse' = {} PROVE FALSE
    <3>1. u # t BY <2>1, <2>4 DEF Moves, Running
    <3>2. sync'[u] = sync[u] BY <3>1, <2>1 DEF Moves
    <3>3. Running(u) BY <3>2, <2>4 DEF Running
    <3>4. excuse = {} BY <1>9, <2>4 DEF ReleaseSync
    <3> QED BY <3>1, <3>3, <3>4, <2>0 DEF LockInv
  <2> QED BY <1>9, <2>2, <2>3, <2>4 DEF ReleaseSync, LockInv
<1>10. CASE AbortSync(t)
  <2>0. Running(t) BY <1>10 DEF AbortSync, Running
  <2>1. sync' = [sync EXCEPT ![t] = [Unused EXCEPT !.pc = "releasing"]]
    BY <1>10 DEF AbortSync, Abandon
  <2>2. Moves(t, "releasing") BY <1>s, <1>a, <2>1, UpdateMoves
  <2> QED BY <1>10, <2>0, <2>2, MoveKeepsLock DEF AbortSync
<1>11. CASE FailSync(t)
  <2>0. Running(t) BY <1>11 DEF FailSync, Running
  <2>1. Moves(t, "releasing") BY <1>11, <1>s, <1>a, UpdateMoves DEF FailSync, Abandon
  <2> QED BY <1>11, <2>0, <2>1, MoveKeepsLock DEF FailSync
<1>12. CASE KillSync(t)
  <2>1. sync' = [sync EXCEPT ![t] = [Unused EXCEPT !.pc = "done"]] BY <1>12 DEF KillSync
  <2>2. Moves(t, "done") BY <1>s, <1>a, <2>1, UpdateMoves
  <2> QED BY <1>12, <2>2, MoveKeepsLock DEF KillSync
<1> QED
  BY <1>1, <1>2, <1>3, <1>4, <1>5, <1>6, <1>7, <1>8, <1>9, <1>10, <1>11, <1>12
  DEF SyncStep

\* Steps that leave tasks, lock and form alone.
LEMMA FrameKeepsLock ==
  ASSUME LockInv, UNCHANGED <<sync, lock, form, excuse>> PROVE LockInv'
BY DEF LockInv, SyncShape, Running

LEMMA StepKeepsLock == LockInv /\ [DocsNext]_docsVars => LockInv'
<1> SUFFICES ASSUME LockInv, [DocsNext]_docsVars PROVE LockInv' OBVIOUS
<1>1. CASE \E t \in Syncs : SyncStep(t) BY <1>1, SyncStepKeepsLock
<1>2. CASE IndexStep
  <2>1. UNCHANGED <<sync, lock, form, excuse>>
    BY <1>2 DEF IndexStep, StartIndexing, IndexFile, KillIndexer, RetryFailed
  <2> QED BY <2>1, FrameKeepsLock
<1>3. CASE LockAges
  BY <1>3 DEF LockAges, LockInv, SyncShape, Running, Lock
<1>4. CASE EditLoads
  BY <1>4 DEF EditLoads, LockInv, SyncShape, Running
<1>5. CASE EditSaves
  <2>1. SyncShape' BY <1>5 DEF EditSaves, LockInv, SyncShape
  <2>2. excuse' = {} => lock' = lock /\ excuse = {} BY <1>5 DEF EditSaves
  <2>3. \A t \in Syncs : Running(t)' = Running(t) BY <1>5 DEF EditSaves, Running
  <2> QED BY <1>5, <2>1, <2>2, <2>3 DEF EditSaves, LockInv, NoLock, Lock
<1>6. CASE ArchiveSource BY <1>6, FrameKeepsLock DEF ArchiveSource
<1>7. CASE RemovalStep
  BY <1>7, FrameKeepsLock DEF RemovalStep, StartRemoval, RemovePage, FinishRemoval
<1>8. CASE KillRemoval BY <1>8, FrameKeepsLock DEF KillRemoval
<1>9. CASE \E d \in Docs : SourceChanges(d) BY <1>9, FrameKeepsLock DEF SourceChanges
<1>10. CASE UNCHANGED docsVars BY <1>10, FrameKeepsLock DEF docsVars
<1> QED BY <1>1, <1>2, <1>3, <1>4, <1>5, <1>6, <1>7, <1>8, <1>9, <1>10 DEF DocsNext

\* A running task owns the lock, for any number of tasks
\* (sync_document_source_task and _queue_document_source_sync).
THEOREM LockSafety == DocsSpec => []LockInv
BY InitLock, StepKeepsLock, PTL DEF DocsSpec

\* Two syncs run at once only after the lock of a running one was reclaimed or
\* overwritten by a form.
THEOREM SyncsExclude == DocsSpec => []OneSync
<1>1. LockInv => OneSync BY DEF LockInv, OneSync
<1> QED BY <1>1, LockSafety, PTL

\* A fresh lock is not taken away from its owner, whatever other tasks, the
\* nightly dispatch and the views do; only a form may overwrite it.
THEOREM LockIsKept == DocsSpec => LockIsOwners
<1> DEFINE A == lock.fresh /\ lock'.owner # lock.owner =>
                  excuse' # excuse \/ form' # form \/ sync'[lock.owner].pc = "done"
<1>1. LockInv /\ [DocsNext]_docsVars => [A]_docsVars
  <2> SUFFICES ASSUME LockInv, DocsNext, lock.fresh, lock'.owner # lock.owner,
                      excuse' = excuse, form' = form
               PROVE  sync'[lock.owner].pc = "done"
    BY DEF docsVars
  <2>1. lock.owner \in Syncs BY DEF LockInv, Lock
  <2>2. \A t \in Syncs : ~(Claimable(t) /\ Claims(t)) BY <2>1, NoTaskIsNone DEF Claimable, Claims
  <2>3. PICK t \in Syncs : ReleaseSync(t)
    <3>1. ~LockAges BY DEF LockAges, LockInv, Lock
    <3>2. ~EditSaves BY DEF EditSaves, LockInv
    <3>3. ASSUME NEW t \in Syncs, SyncStep(t) PROVE ReleaseSync(t)
      BY <2>2, <3>3 DEF SyncStep, QueueSync, DispatchSync, StartSync, MapFiles,
         SyncDocument, SkipDocument, RemoveStaleFiles, QueueIndexing, AbortSync,
         FailSync, KillSync
    <3> QED
      BY <3>1, <3>2, <3>3 DEF DocsNext, IndexStep, StartIndexing, IndexFile, KillIndexer,
         RetryFailed, EditLoads, ArchiveSource, RemovalStep, StartRemoval,
         RemovePage, FinishRemoval, KillRemoval, SourceChanges
  <2>4. lock.owner = t BY <2>3 DEF ReleaseSync, ClearedBy
  <2>5. sync'[t].pc = "done"
    BY <2>3, RecordKept, UpdateMoves DEF ReleaseSync, LockInv, Moves
  <2> QED BY <2>4, <2>5
<1> QED BY <1>1, LockSafety, PTL DEF DocsSpec, LockIsOwners

-----------------------------------------------------------------------------
\* Files.  While nothing excused an overlap, the one running sync knows a file of
\* every document it has not processed yet, and nobody else changes those files.

ShapesKept ==
  /\ files = [f \in FileIds |-> files[f]]
  /\ \A f \in FileIds : DOMAIN files[f] = DOMAIN NoFile
  /\ DOMAIN removal = {"pc", "pages", "page"}

\* What a task that syncs has mapped and processed, against the files there are.
Mapped(t) ==
  /\ sync[t].yielded \subseteq sync[t].seen
  /\ sync[t].todo \intersect sync[t].yielded = {}
  /\ \A d \in DOMAIN sync[t].known :
       /\ sync[t].known[d].file \in FileIds
       /\ sourceRow = "live" => sync[t].known[d].file \in Present
       /\ sync[t].known[d].file \in Present => files[sync[t].known[d].file].doc = d
  /\ \A f \in Present : files[f].doc \in DOMAIN sync[t].known \union sync[t].yielded

Untouched(t) == sync[t].yielded = {} /\ sync[t].seen = {}
OneFile == \A f, g \in Present : files[f].doc = files[g].doc => f = g

FilesInv ==
  /\ ShapesKept
  /\ \A t \in Syncs : sync[t].pc \in {"unused", "queued", "mapping"} => Untouched(t)
  /\ excuse = {} =>
       /\ removal.pc # "idle" => sourceRow # "live"
       /\ OneFile
       /\ \A t \in Syncs : sync[t].pc = "syncing" => Mapped(t)

\* Steps that add no file, start no sync, and take files only from a source that is
\* not live.
LEMMA FewerFilesKept ==
  ASSUME FilesInv, ShapesKept',
         \A u \in Syncs : sync'[u].pc \in {"unused", "queued", "mapping"} => Untouched(u)',
         excuse' = {} =>
           /\ excuse = {}
           /\ removal'.pc # "idle" => sourceRow' # "live"
           /\ \A f \in Present' : f \in Present /\ files'[f].doc = files[f].doc
           /\ sourceRow' = "live" => sourceRow = "live" /\ Present' = Present
           /\ \A u \in Syncs : sync'[u].pc = "syncing" => sync'[u] = sync[u]
  PROVE  FilesInv'
<1>1. ASSUME excuse' = {} PROVE OneFile' BY <1>1 DEF FilesInv, OneFile
<1>2. ASSUME excuse' = {}, NEW t \in Syncs, sync'[t].pc = "syncing" PROVE Mapped(t)'
  <2>1. Mapped(t) /\ sync'[t] = sync[t] BY <1>2 DEF FilesInv
  <2>2. /\ \A f \in Present' : f \in Present /\ files'[f].doc = files[f].doc
        /\ sourceRow' = "live" => sourceRow = "live" /\ Present' = Present
    BY <1>2
  <2>3. \A f \in FileIds : f \in FileIds' BY DEF FileIds
  <2>4. \A d \in DOMAIN sync[t].known :
          /\ sync[t].known[d].file \in FileIds'
          /\ sourceRow' = "live" => sync[t].known[d].file \in Present'
          /\ sync[t].known[d].file \in Present' => files'[sync[t].known[d].file].doc = d
    BY <2>1, <2>2, <2>3 DEF Mapped
  <2>5. \A f \in Present' : files'[f].doc \in DOMAIN sync[t].known \union sync[t].yielded
    BY <2>1, <2>2 DEF Mapped
  <2> QED BY <2>1, <2>4, <2>5 DEF Mapped
<1> QED BY <1>1, <1>2 DEF FilesInv

\* The files stay as they are, and the tasks that sync too.
LEMMA FrameKeepsFiles ==
  ASSUME FilesInv, UNCHANGED <<files, removal, sourceRow>>, excuse' = {} => excuse = {},
         \A u \in Syncs : sync'[u].pc \in {"unused", "queued", "mapping"} => Untouched(u)',
         \A u \in Syncs : sync'[u].pc = "syncing" => sync'[u] = sync[u]
  PROVE  FilesInv'
<1>1. ShapesKept' BY DEF FilesInv, ShapesKept, FileIds, NoFile
<1>2. Present' = Present BY DEF Present, FileIds
<1> QED BY <1>1, <1>2, FewerFilesKept DEF FilesInv

\* A task that moves on without processing anything keeps what it has seen, or
\* forgets it.
LEMMA MoveKeepsFiles ==
  ASSUME FilesInv, SyncShape, NEW t \in Syncs, NEW p, NEW r,
         UNCHANGED <<files, removal, sourceRow>>, excuse' = {} => excuse = {},
         r \in {sync[t], Unused}, sync' = [sync EXCEPT ![t] = [r EXCEPT !.pc = p]],
         p # "syncing",
         r = sync[t] /\ p \in {"unused", "queued", "mapping"} =>
           sync[t].pc \in {"unused", "queued", "mapping"}
  PROVE  FilesInv'
<1>1. DOMAIN sync[t] = DOMAIN Unused BY DEF SyncShape
<1>2. sync'[t] = [r EXCEPT !.pc = p] /\ \A u \in Syncs \ {t} : sync'[u] = sync[u]
  BY DEF SyncShape
<1>3. sync'[t].pc = p /\ sync'[t].seen = r.seen /\ sync'[t].yielded = r.yielded
  BY <1>1, <1>2 DEF Unused
<1>4. \A u \in Syncs : sync'[u].pc = "syncing" => sync'[u] = sync[u] BY <1>2, <1>3
<1>5. ASSUME NEW u \in Syncs, sync'[u].pc \in {"unused", "queued", "mapping"}
      PROVE  Untouched(u)'
  <2>1. CASE u # t BY <1>2, <1>5, <2>1 DEF FilesInv, Untouched
  <2>2. CASE u = t /\ r = sync[t] BY <1>3, <1>5, <2>2 DEF FilesInv, Untouched
  <2>3. CASE u = t /\ r = Unused BY <1>3, <2>3 DEF Unused, Untouched
  <2> QED BY <2>1, <2>2, <2>3
<1> QED BY <1>4, <1>5, FrameKeepsFiles

LEMMA RunningIsOne ==
  ASSUME LockInv, excuse = {}, NEW t \in Syncs, NEW u \in Syncs, Running(t), Running(u)
  PROVE  t = u
BY DEF LockInv

\* The lock invariant gives OneSync, and a claim or a save by the form only adds
\* excuses.
LEMMA ClaimExcuses ==
  ASSUME NEW t, Claims(t) PROVE excuse' = {} => excuse = {}
BY DEF Claims

LEMMA InitFiles == DocsInit => FilesInv
<1> SUFFICES ASSUME DocsInit PROVE FilesInv OBVIOUS
<1>1. \A f \in FileIds : files[f] = NoFile BY DEF DocsInit
<1>2. Present = {} BY <1>1 DEF Present, NoFile
<1>3. \A t \in Syncs : sync[t] = Unused BY DEF DocsInit
<1>4. ShapesKept BY DEF DocsInit, ShapesKept, NoFile
<1>5. OneFile BY <1>2 DEF OneFile
<1>6. \A t \in Syncs : Untouched(t) /\ sync[t].pc = "unused" BY <1>3 DEF Untouched, Unused
<1>7. removal.pc = "idle" BY DEF DocsInit
<1> QED BY <1>4, <1>5, <1>6, <1>7 DEF FilesInv

\* A mapping knows one file of every document that has any.
LEMMA MapKeepsFiles ==
  ASSUME FilesInv, LockInv, NEW t \in Syncs, MapFiles(t) PROVE FilesInv'
<1>s. SyncShape BY DEF LockInv
<1>0. sync[t].pc = "mapping" /\ UNCHANGED <<files, removal, sourceRow, excuse>> BY DEF MapFiles
<1>1. CASE sourceRow # "live" /\ Abandon(t)
  <2>1. sync' = [sync EXCEPT ![t] = [Unused EXCEPT !.pc = "releasing"]]
    BY <1>1 DEF Abandon
  <2> QED BY <1>s, <1>0, <2>1, MoveKeepsFiles
<1>2. CASE ~(sourceRow # "live" /\ Abandon(t))
  <2>1. PICK known \in [{files[f].doc : f \in Present} -> Present] :
          /\ \A d \in DOMAIN known : files[known[d]].doc = d
          /\ sync' = [sync EXCEPT ![t] =
               [@ EXCEPT !.pc = "syncing", !.todo = Docs,
                  !.known = [d \in DOMAIN known |->
                    [file |-> known[d], content |-> files[known[d]].content]]]]
    BY <1>2 DEF MapFiles
  <2>2. DOMAIN sync[t] = DOMAIN Unused BY <1>s DEF SyncShape
  <2>3. /\ \A u \in Syncs \ {t} : sync'[u] = sync[u]
        /\ sync'[t].pc = "syncing" /\ sync'[t].todo = Docs
        /\ sync'[t].seen = sync[t].seen /\ sync'[t].yielded = sync[t].yielded
        /\ sync'[t].known = [d \in DOMAIN known |->
             [file |-> known[d], content |-> files[known[d]].content]]
    BY <1>s, <2>1, <2>2 DEF SyncShape, Unused
  <2>4. sync'[t].seen = {} /\ sync'[t].yielded = {}
    BY <1>0, <2>3 DEF FilesInv, Untouched
  <2>5. Present' = Present /\ Present \subseteq FileIds /\ FileIds' = FileIds
    BY <1>0 DEF Present, FileIds
  <2>6. Mapped(t)'
    <3>1. /\ DOMAIN sync'[t].known = {files[f].doc : f \in Present}
          /\ \A d \in DOMAIN known : sync'[t].known[d].file = known[d] /\ known[d] \in Present
          /\ DOMAIN known = {files[f].doc : f \in Present}
      BY <2>1, <2>3
    <3>2. \A f \in Present' : files'[f].doc \in DOMAIN sync'[t].known
      BY <1>0, <2>5, <3>1
    <3>3. \A d \in DOMAIN sync'[t].known :
            /\ sync'[t].known[d].file \in Present'
            /\ files'[sync'[t].known[d].file].doc = d
      <4>1. files' = files /\ \A d \in DOMAIN known : files[known[d]].doc = d
        BY <1>0, <2>1
      <4> QED BY <2>5, <3>1, <4>1
    <3> QED BY <2>4, <2>5, <3>2, <3>3 DEF Mapped
  <2>7. ShapesKept' BY <1>0, <2>5 DEF FilesInv, ShapesKept, NoFile
  <2>8. ASSUME NEW u \in Syncs, sync'[u].pc \in {"unused", "queued", "mapping"}
        PROVE  Untouched(u)'
    BY <2>3, <2>8 DEF FilesInv, Untouched
  <2>9. ASSUME excuse' = {}, NEW u \in Syncs, sync'[u].pc = "syncing" PROVE u = t
    BY <1>0, <2>3, <2>9, RunningIsOne DEF Running
  <2>10. excuse' = {} => OneFile'
    BY <1>0, <2>5 DEF FilesInv, OneFile
  <2>11. \A u \in Syncs : excuse' = {} /\ sync'[u].pc = "syncing" => Mapped(u)'
    BY <2>6, <2>9
  <2> QED BY <1>0, <2>7, <2>8, <2>10, <2>11 DEF FilesInv
<1> QED BY <1>1, <1>2

\* A document is processed once, so its file stays the only one.
LEMMA DocumentKeepsFiles ==
  ASSUME FilesInv, LockInv, NEW t \in Syncs, NEW d \in Docs, SyncDocument(t, d)
  PROVE  FilesInv'
<1> DEFINE old == KnownFile(t, d)
           targets == IF old = 0 THEN {f \in FreeIds : \A g \in FreeIds : f <= g}
                      ELSE {old} \intersect Present
<1>s. SyncShape /\ DOMAIN sync[t] = DOMAIN Unused BY DEF LockInv, SyncShape
<1>0. /\ UNCHANGED <<sourceRow, removal, excuse>> /\ sync[t].pc = "syncing" /\ sourceRow = "live"
      /\ d \in sync[t].todo
  BY DEF SyncDocument
<1>1. PICK index, ok : sync' = [sync EXCEPT ![t] =
        [sync[t] EXCEPT !.todo = sync[t].todo \ {d}, !.yielded = sync[t].yielded \union {d},
                        !.seen = SeenBy(t, d, ok), !.index = sync[t].index \union index]]
  BY DEF SyncDocument
<1>2. /\ \A u \in Syncs \ {t} : sync'[u] = sync[u]
      /\ sync'[t].pc = "syncing" /\ sync'[t].known = sync[t].known
      /\ sync'[t].todo = sync[t].todo \ {d}
      /\ sync'[t].yielded = sync[t].yielded \union {d}
      /\ sync'[t].seen = sync[t].seen \union {d}
  <2>1. DOMAIN sync[t] = {"pc", "known", "todo", "yielded", "seen", "index"}
    BY <1>s DEF Unused
  <2>2. sync'[t] = [sync[t] EXCEPT !.todo = sync[t].todo \ {d},
                      !.yielded = sync[t].yielded \union {d},
                      !.seen = sync[t].seen \union {d}, !.index = sync[t].index \union index]
    BY <1>s, <1>1 DEF SyncShape, SeenBy
  <2>3. \A u \in Syncs \ {t} : sync'[u] = sync[u] BY <1>s, <1>1 DEF SyncShape
  <2> QED BY <1>0, <2>1, <2>2, <2>3
<1>3. \/ UNCHANGED files
      \/ \E f \in targets : files' = [files EXCEPT ![f] =
           [doc |-> d, content |-> source[d], status |-> "pending"]]
  BY DEF SyncDocument
<1> HIDE DEF old, targets
<1>4. FileIds' = FileIds BY DEF FileIds
<1>5. ASSUME NEW u \in Syncs, sync'[u].pc \in {"unused", "queued", "mapping"}
      PROVE  Untouched(u)'
  BY <1>2, <1>5 DEF FilesInv, Untouched
<1>6. ShapesKept'
  <2>1. CASE UNCHANGED files BY <1>0, <1>4, <2>1 DEF FilesInv, ShapesKept, NoFile
  <2>2. CASE ~UNCHANGED files
    <3>1. PICK f : files' = [files EXCEPT ![f] =
                     [doc |-> d, content |-> source[d], status |-> "pending"]]
      BY <1>3, <2>2
    <3>2. files' = [g \in FileIds |-> files'[g]] BY <3>1 DEF FilesInv, ShapesKept
    <3>3. \A g \in FileIds : DOMAIN files'[g] = DOMAIN NoFile
      BY <3>1 DEF FilesInv, ShapesKept, NoFile
    <3> QED BY <1>0, <1>4, <3>2, <3>3 DEF FilesInv, ShapesKept, NoFile
  <2> QED BY <2>1, <2>2
<1>7. ASSUME excuse' = {} PROVE OneFile' /\ Mapped(t)'
  <2>0. excuse = {} /\ Mapped(t) /\ OneFile BY <1>0, <1>7 DEF FilesInv
  <2>1. d \notin sync[t].yielded BY <1>0, <2>0 DEF Mapped
  <2>2. CASE UNCHANGED files
    <3>1. Present' = Present BY <1>4, <2>2 DEF Present
    <3>2. OneFile' BY <2>0, <2>2, <3>1 DEF OneFile
    <3> QED BY <1>0, <1>2, <1>4, <2>0, <2>2, <3>1, <3>2 DEF Mapped
  <2>3. CASE ~UNCHANGED files
    <3>1. PICK f \in targets : files' = [files EXCEPT ![f] =
            [doc |-> d, content |-> source[d], status |-> "pending"]]
      BY <1>3, <2>3
    <3>2. f \in FileIds
      BY <3>1 DEF targets, FreeIds, Present
    <3>3. /\ files'[f].doc = d /\ files'[f].status = "pending"
          /\ \A g \in FileIds \ {f} : files'[g] = files[g]
      BY <3>1, <3>2 DEF FilesInv, ShapesKept
    <3>4. Present' = Present \union {f} BY <1>4, <3>2, <3>3 DEF Present
    <3>5. \A g \in Present : files[g].doc = d => g = f
      <4>1. CASE d \in DOMAIN sync[t].known
        <5>1. sync[t].known[d].file \in Nat \ {0}
          BY <2>0, <4>1, DocumentBounds DEF Mapped, FileIds
        <5>2. old = sync[t].known[d].file /\ old # 0 BY <4>1, <5>1 DEF old, KnownFile
        <5>3. f = old /\ f \in Present BY <3>1, <5>2 DEF targets
        <5>4. files[f].doc = d BY <2>0, <4>1, <5>2, <5>3 DEF Mapped
        <5> QED BY <2>0, <5>3, <5>4 DEF OneFile
      <4>2. CASE d \notin DOMAIN sync[t].known
        BY <2>0, <2>1, <4>2 DEF Mapped
      <4> QED BY <4>1, <4>2
    <3>6. OneFile' BY <2>0, <3>3, <3>4, <3>5 DEF OneFile, Present
    <3>7. f \in Present => files[f].doc = d
      <4>1. CASE old = 0 BY <3>1, <3>2, <4>1 DEF targets, FreeIds, Present, FileIds
      <4>2. CASE old # 0
        <5>1. d \in DOMAIN sync[t].known /\ f = sync[t].known[d].file
          BY <3>1, <4>2 DEF old, KnownFile, targets
        <5> QED BY <2>0, <5>1 DEF Mapped
      <4> QED BY <4>1, <4>2
    <3>8. \A e \in DOMAIN sync'[t].known :
            /\ sync'[t].known[e].file \in FileIds'
            /\ sync'[t].known[e].file \in Present'
            /\ files'[sync'[t].known[e].file].doc = e
      <4> SUFFICES ASSUME NEW e \in DOMAIN sync[t].known
                   PROVE  /\ sync[t].known[e].file \in FileIds
                          /\ sync[t].known[e].file \in Present \union {f}
                          /\ files'[sync[t].known[e].file].doc = e
        BY <1>2, <1>4, <3>4
      <4>1. /\ sync[t].known[e].file \in FileIds /\ sync[t].known[e].file \in Present
            /\ files[sync[t].known[e].file].doc = e
        BY <1>0, <2>0 DEF Mapped
      <4> QED BY <3>3, <3>7, <4>1
    <3>9. \A g \in Present' : files'[g].doc \in DOMAIN sync'[t].known \union sync'[t].yielded
      BY <1>2, <2>0, <3>2, <3>3, <3>4 DEF Mapped, Present
    <3> QED BY <1>2, <2>0, <3>6, <3>8, <3>9 DEF Mapped
  <2> QED BY <2>2, <2>3
<1>8. ASSUME excuse' = {}, NEW u \in Syncs, sync'[u].pc = "syncing" PROVE Mapped(u)'
  <2>1. u = t BY <1>0, <1>2, <1>8, RunningIsOne DEF Running
  <2> QED BY <1>7, <1>8, <2>1
<1> QED BY <1>0, <1>5, <1>6, <1>7, <1>8 DEF FilesInv

LEMMA SkipKeepsFiles ==
  ASSUME FilesInv, LockInv, NEW t \in Syncs, NEW d \in Docs, SkipDocument(t, d)
  PROVE  FilesInv'
<1>s. SyncShape /\ DOMAIN sync[t] = DOMAIN Unused BY DEF LockInv, SyncShape
<1>0. UNCHANGED <<files, sourceRow, removal, excuse>> /\ sync[t].pc = "syncing"
  BY DEF SkipDocument
<1>2. /\ \A u \in Syncs \ {t} : sync'[u] = sync[u]
      /\ sync'[t].pc = "syncing" /\ sync'[t].known = sync[t].known
      /\ sync'[t].todo = sync[t].todo \ {d}
      /\ sync'[t].yielded = sync[t].yielded /\ sync'[t].seen = sync[t].seen
  BY <1>s, <1>0 DEF SkipDocument, SyncShape, Unused
<1>3. Present' = Present /\ FileIds' = FileIds BY <1>0 DEF Present, FileIds
<1>4. ShapesKept' BY <1>0, <1>3 DEF FilesInv, ShapesKept, NoFile
<1>5. ASSUME NEW u \in Syncs, sync'[u].pc \in {"unused", "queued", "mapping"}
      PROVE  Untouched(u)'
  BY <1>2, <1>5 DEF FilesInv, Untouched
<1>6. ASSUME excuse' = {} PROVE OneFile' BY <1>0, <1>3, <1>6 DEF FilesInv, OneFile
<1>7. ASSUME excuse' = {}, NEW u \in Syncs, sync'[u].pc = "syncing" PROVE Mapped(u)'
  <2>1. u = t BY <1>0, <1>2, <1>7, RunningIsOne DEF Running
  <2>2. Mapped(t) BY <1>0, <1>7 DEF FilesInv
  <2> QED BY <1>0, <1>2, <1>3, <2>1, <2>2 DEF Mapped
<1> QED BY <1>0, <1>4, <1>5, <1>6, <1>7 DEF FilesInv

\* Deleting files, from a source that is not live or by the sync that runs.
LEMMA DeleteShape ==
  ASSUME ShapesKept, NEW ids, Delete(ids), DOMAIN removal' = DOMAIN removal
  PROVE  /\ ShapesKept'
         /\ \A f \in Present' : f \in Present /\ f \notin ids /\ files'[f] = files[f]
<1>1. \A f \in FileIds : files'[f] = IF f \in ids THEN NoFile ELSE files[f] BY DEF Delete
<1>2. ShapesKept' BY <1>1 DEF ShapesKept, Delete, FileIds, NoFile
<1>3. ASSUME NEW f \in Present' PROVE f \in Present /\ f \notin ids /\ files'[f] = files[f]
  BY <1>1 DEF Present, FileIds, NoFile
<1> QED BY <1>2, <1>3

LEMMA RemoveKeepsFiles ==
  ASSUME FilesInv, LockInv, NEW t \in Syncs, RemoveStaleFiles(t) PROVE FilesInv'
<1>s. SyncShape /\ DOMAIN sync[t] = DOMAIN Unused BY DEF LockInv, SyncShape
<1>0. UNCHANGED <<sourceRow, removal, excuse>> /\ sync[t].pc = "syncing" BY DEF RemoveStaleFiles
<1>1. PICK ids : Delete(ids) BY DEF RemoveStaleFiles
<1>2. ShapesKept' /\ \A f \in Present' : f \in Present /\ files'[f] = files[f]
  BY <1>0, <1>1, DeleteShape DEF FilesInv
<1>3. /\ \A u \in Syncs \ {t} : sync'[u] = sync[u]
      /\ sync'[t].pc = "indexing"
  BY <1>s DEF RemoveStaleFiles, SyncShape, Unused
<1>4. ASSUME NEW u \in Syncs, sync'[u].pc \in {"unused", "queued", "mapping"}
      PROVE  Untouched(u)'
  BY <1>3, <1>4 DEF FilesInv, Untouched
<1>5. ASSUME excuse' = {} PROVE OneFile' BY <1>0, <1>2, <1>5 DEF FilesInv, OneFile
<1>6. ASSUME excuse' = {}, NEW u \in Syncs, sync'[u].pc = "syncing" PROVE FALSE
  BY <1>0, <1>3, <1>6, RunningIsOne DEF Running
<1> QED BY <1>0, <1>2, <1>4, <1>5, <1>6 DEF FilesInv

LEMMA SyncStepKeepsFiles ==
  ASSUME FilesInv, LockInv, NEW t \in Syncs, SyncStep(t) PROVE FilesInv'
<1>s. SyncShape BY DEF LockInv
<1>1. CASE QueueSync(t)
  BY <1>1, <1>s, ClaimExcuses, MoveKeepsFiles DEF QueueSync
<1>2. CASE DispatchSync(t) BY <1>2, <1>s, MoveKeepsFiles DEF DispatchSync
<1>3. CASE StartSync(t)
  <2>1. excuse' = {} => excuse = {} BY <1>3, ClaimExcuses DEF StartSync
  <2>2. PICK p \in {"mapping", "done"} : sync' = [sync EXCEPT ![t].pc = p]
    BY <1>3 DEF StartSync
  <2>3. sync' = [sync EXCEPT ![t] = [sync[t] EXCEPT !.pc = p]] BY <2>2
  <2> QED BY <1>3, <1>s, <2>1, <2>3, MoveKeepsFiles DEF StartSync
<1>4. CASE MapFiles(t) BY <1>4, MapKeepsFiles
<1>5. CASE \E d \in Docs : SyncDocument(t, d) \/ SkipDocument(t, d)
  BY <1>5, DocumentKeepsFiles, SkipKeepsFiles
<1>6. CASE RemoveStaleFiles(t) BY <1>6, RemoveKeepsFiles
<1>7. CASE QueueIndexing(t) BY <1>7, <1>s, MoveKeepsFiles DEF QueueIndexing
<1>8. CASE ReleaseSync(t) BY <1>8, <1>s, MoveKeepsFiles DEF ReleaseSync
<1>9. CASE AbortSync(t) BY <1>9, <1>s, MoveKeepsFiles DEF AbortSync, Abandon
<1>10. CASE FailSync(t) BY <1>10, <1>s, MoveKeepsFiles DEF FailSync, Abandon
<1>11. CASE KillSync(t) BY <1>11, <1>s, MoveKeepsFiles DEF KillSync
<1> QED
  BY <1>1, <1>2, <1>3, <1>4, <1>5, <1>6, <1>7, <1>8, <1>9, <1>10, <1>11 DEF SyncStep

\* Indexing changes no more of a file than its status, and of no file that is gone.
LEMMA IndexKeepsFiles ==
  ASSUME FilesInv, IndexStep PROVE FilesInv'
<1>0. UNCHANGED <<sync, sourceRow, removal, excuse>>
  BY DEF IndexStep, StartIndexing, IndexFile, KillIndexer, RetryFailed
<1>1. /\ files' = [f \in FileIds |-> files'[f]]
      /\ \A f \in FileIds : \/ files'[f] = files[f]
                            \/ /\ f \in Present
                               /\ \E s : s # "none" /\ files'[f] = [files[f] EXCEPT !.status = s]
  <2>1. CASE \E j \in jobs : StartIndexing(j)
    BY <2>1 DEF StartIndexing
  <2>2. CASE \E f \in FileIds, ok \in BOOLEAN : IndexFile(f, ok)
    <3>1. PICK f \in FileIds, ok \in BOOLEAN : IndexFile(f, ok) BY <2>2
    <3>2. CASE f \in Present
      <4>1. files' = [files EXCEPT ![f] = [files[f] EXCEPT !.status = IndexedStatus(ok)]]
        BY <3>1, <3>2 DEF IndexFile
      <4>2. IndexedStatus(ok) # "none" BY DEF IndexedStatus
      <4> HIDE DEF IndexedStatus
      <4> QED BY <3>2, <4>1, <4>2 DEF FilesInv, ShapesKept
    <3>3. CASE f \notin Present
      BY <3>1, <3>3 DEF IndexFile, FilesInv, ShapesKept
    <3> QED BY <3>2, <3>3
  <2>3. CASE KillIndexer BY <2>3 DEF KillIndexer, FilesInv, ShapesKept
  <2>4. CASE RetryFailed BY <2>4 DEF RetryFailed
  <2> QED BY <2>1, <2>2, <2>3, <2>4 DEF IndexStep
<1>2. \A f \in FileIds :
        /\ DOMAIN files'[f] = DOMAIN NoFile
        /\ files'[f].doc = files[f].doc
        /\ files'[f].status = "none" <=> files[f].status = "none"
  BY <1>1 DEF FilesInv, ShapesKept, NoFile, Present
<1>3. Present' = Present /\ FileIds' = FileIds BY <1>2 DEF Present, FileIds
<1>4. ShapesKept' BY <1>0, <1>1, <1>2, <1>3 DEF FilesInv, ShapesKept, NoFile
<1>5. \A f \in Present' : f \in Present /\ files'[f].doc = files[f].doc
  BY <1>2, <1>3 DEF Present
<1>6. \A u \in Syncs : sync'[u].pc \in {"unused", "queued", "mapping"} => Untouched(u)'
  BY <1>0 DEF FilesInv, Untouched
<1> QED BY <1>0, <1>3, <1>4, <1>5, <1>6, FewerFilesKept DEF FilesInv

LEMMA StepKeepsFiles == LockInv /\ FilesInv /\ [DocsNext]_docsVars => FilesInv'
<1> SUFFICES ASSUME LockInv, FilesInv, [DocsNext]_docsVars PROVE FilesInv' OBVIOUS
<1>u. UNCHANGED sync =>
        \A u \in Syncs : sync'[u].pc \in {"unused", "queued", "mapping"} => Untouched(u)'
  BY DEF FilesInv, Untouched
<1>1. CASE \E t \in Syncs : SyncStep(t) BY <1>1, SyncStepKeepsFiles
<1>2. CASE IndexStep BY <1>2, IndexKeepsFiles
<1>3. CASE LockAges BY <1>3, <1>u, FrameKeepsFiles DEF LockAges
<1>4. CASE EditLoads BY <1>4, <1>u, FrameKeepsFiles DEF EditLoads
<1>5. CASE EditSaves
  <2>1. UNCHANGED <<sync, files, removal>> BY <1>5 DEF EditSaves
  <2>2. excuse' = {} => excuse = {} /\ sourceRow = "live" /\ sourceRow' = "live" BY <1>5 DEF EditSaves
  <2>3. ShapesKept' BY <2>1 DEF FilesInv, ShapesKept, FileIds, NoFile
  <2>4. Present' = Present BY <2>1 DEF Present, FileIds
  <2> QED BY <1>u, <2>1, <2>2, <2>3, <2>4, FewerFilesKept DEF FilesInv
<1>6. CASE ArchiveSource
  <2>1. UNCHANGED <<sync, files, excuse>> /\ sourceRow' # "live" BY <1>6 DEF ArchiveSource
  <2>2. ShapesKept' BY <1>6, <2>1 DEF ArchiveSource, FilesInv, ShapesKept, FileIds, NoFile
  <2>3. Present' = Present BY <2>1 DEF Present, FileIds
  <2> QED BY <1>u, <2>1, <2>2, <2>3, FewerFilesKept
<1>7. CASE RemovalStep \/ KillRemoval
  <2>0. UNCHANGED <<sync, excuse>>
    BY <1>7 DEF RemovalStep, StartRemoval, RemovePage, FinishRemoval, KillRemoval
  <2>1. removal.pc # "idle"
    BY <1>7 DEF RemovalStep, StartRemoval, RemovePage, FinishRemoval, KillRemoval
  <2>2. excuse = {} => sourceRow # "live" BY <2>1 DEF FilesInv
  <2>3. sourceRow' = sourceRow \/ sourceRow' = "deleted"
    BY <1>7 DEF RemovalStep, StartRemoval, RemovePage, FinishRemoval, KillRemoval
  <2>4. DOMAIN removal' = DOMAIN removal
    BY <1>7 DEF RemovalStep, StartRemoval, RemovePage, FinishRemoval, KillRemoval,
                FilesInv, ShapesKept
  <2>5. ShapesKept' /\ \A f \in Present' : f \in Present /\ files'[f] = files[f]
    <3>1. CASE UNCHANGED files
      BY <2>4, <3>1 DEF FilesInv, ShapesKept, FileIds, NoFile, Present
    <3>2. CASE RemovePage
      <4>1. PICK ids : Delete(ids) BY <3>2 DEF RemovePage
      <4> QED BY <2>4, <4>1, DeleteShape DEF FilesInv
    <3>3. CASE FinishRemoval
      <4>1. files' = [f \in FileIds |-> NoFile] BY <3>3 DEF FinishRemoval
      <4>2. ShapesKept' BY <2>4, <4>1 DEF FilesInv, ShapesKept, FileIds, NoFile
      <4>3. Present' = {} BY <4>1 DEF Present, FileIds, NoFile
      <4> QED BY <4>2, <4>3
    <3> QED BY <1>7, <3>1, <3>2, <3>3 DEF RemovalStep, StartRemoval, KillRemoval
  <2> QED BY <1>u, <2>0, <2>2, <2>3, <2>5, FewerFilesKept
<1>8. CASE \E d \in Docs : SourceChanges(d) BY <1>8, <1>u, FrameKeepsFiles DEF SourceChanges
<1>9. CASE UNCHANGED docsVars BY <1>9, <1>u, FrameKeepsFiles DEF docsVars
<1> QED BY <1>1, <1>2, <1>3, <1>4, <1>5, <1>6, <1>7, <1>8, <1>9 DEF DocsNext

\* A sync that stops looking at documents has removed what was stale.
LEMMA OnlyRemovalIndexes ==
  ASSUME SyncShape, DocsNext, NEW t \in Syncs, sync[t].pc = "syncing",
         sync'[t].pc = "indexing"
  PROVE  RemoveStaleFiles(t)
<1>0. DOMAIN sync[t] = DOMAIN Unused BY DEF SyncShape
<1>1. PICK u \in Syncs : SyncStep(u)
  <2> SUFFICES ASSUME ~\E u \in Syncs : SyncStep(u) PROVE FALSE OBVIOUS
  <2>1. UNCHANGED sync
    BY DEF DocsNext, IndexStep, StartIndexing, IndexFile, KillIndexer, RetryFailed,
           LockAges, EditLoads, EditSaves, ArchiveSource, RemovalStep, StartRemoval,
           RemovePage, FinishRemoval, KillRemoval, SourceChanges
  <2> QED BY <2>1
<1>2. u = t
  <2> SUFFICES ASSUME u # t PROVE FALSE OBVIOUS
  <2>1. \A r : sync' = [sync EXCEPT ![u] = r] => sync'[t] = sync[t] BY DEF SyncShape
  <2>2. \E r : sync' = [sync EXCEPT ![u] = r]
    BY <1>1 DEF SyncStep, QueueSync, DispatchSync, StartSync, MapFiles, SyncDocument,
                SkipDocument, RemoveStaleFiles, QueueIndexing, ReleaseSync, AbortSync,
                FailSync, KillSync, Abandon
  <2> QED BY <2>1, <2>2
<1>3. ASSUME NEW d \in Docs, SyncDocument(t, d) PROVE FALSE
  <2>1. PICK ok, index : sync' = [sync EXCEPT ![t] =
          [sync[t] EXCEPT !.todo = sync[t].todo \ {d}, !.yielded = sync[t].yielded \union {d},
                          !.seen = SeenBy(t, d, ok), !.index = sync[t].index \union index]]
    BY <1>3 DEF SyncDocument
  <2> QED BY <1>0, <2>1 DEF SyncShape, Unused
<1>4. ASSUME NEW d \in Docs, SkipDocument(t, d) PROVE FALSE
  BY <1>0, <1>4 DEF SkipDocument, SyncShape, Unused
<1>5. ~AbortSync(t) /\ ~FailSync(t) /\ ~KillSync(t)
  BY <1>0 DEF AbortSync, FailSync, KillSync, Abandon, SyncShape, Unused
<1> QED
  BY <1>1, <1>2, <1>3, <1>4, <1>5
  DEF SyncStep, QueueSync, DispatchSync, StartSync, MapFiles, QueueIndexing, ReleaseSync

\* For any number of documents, files and tasks the sync that runs knows the file
\* of every document (_map_existing_files, documents/document_source_service.py:252).
THEOREM FilesAreMapped == DocsSpec => [](LockInv /\ FilesInv)
<1>1. DocsInit => LockInv /\ FilesInv BY InitLock, InitFiles
<1>2. LockInv /\ FilesInv /\ [DocsNext]_docsVars => (LockInv /\ FilesInv)'
  BY StepKeepsLock, StepKeepsFiles
<1> QED BY <1>1, <1>2, PTL DEF DocsSpec

\* Syncs exclude each other and leave one file for a document, unless the lock of a
\* running one was reclaimed or overwritten (documents/tasks.py:184).
THEOREM SyncsStayExclusive == DocsSpec => []SyncsExclusive
<1>1. LockInv /\ FilesInv => SyncsExclusive
  BY DEF LockInv, FilesInv, SyncsExclusive, OneSync, OneFilePerDocument, OneFile
<1> QED BY <1>1, FilesAreMapped, PTL

\* Neither a fresh lock nor a file whose document was served is taken away
\* (documents/tasks.py:195, documents/document_source_service.py:190).
THEOREM OthersAreKept == DocsSpec => OthersKept
<1> DEFINE B == \A t \in Syncs : excuse = {} /\ sync[t].pc = "syncing" /\ sync'[t].pc = "indexing" =>
                  \A f \in Present : files[f].doc \in sync[t].yielded => files'[f] = files[f]
<1>1. LockInv /\ FilesInv /\ [DocsNext]_docsVars => [B]_docsVars
  <2> SUFFICES ASSUME LockInv, FilesInv, DocsNext, NEW t \in Syncs, excuse = {},
                      sync[t].pc = "syncing", sync'[t].pc = "indexing",
                      NEW f \in Present, files[f].doc \in sync[t].yielded
               PROVE  files'[f] = files[f]
    BY DEF docsVars
  <2>1. CASE RemoveStaleFiles(t)
    <3>1. Mapped(t) BY DEF FilesInv
    <3>2. \A d \in DOMAIN sync[t].known \ sync[t].seen : sync[t].known[d].file # f
      BY <3>1 DEF Mapped
    <3> QED BY <2>1, <3>2 DEF RemoveStaleFiles, Delete, Present
  <2>2. CASE ~RemoveStaleFiles(t)
    BY <2>2, OnlyRemovalIndexes DEF LockInv
  <2> QED BY <2>1, <2>2
<1>2. DocsSpec => ServedIsKept BY <1>1, FilesAreMapped, PTL DEF DocsSpec, ServedIsKept
<1> QED BY <1>2, LockIsKept, PTL DEF OthersKept

-----------------------------------------------------------------------------
\* Indexing.  A file that no task will index again has been loaded as it is now by
\* the running one, or is indexed as it is; and a task that only releases has
\* nothing left to index.

AwaitedLater(f) == (\E j \in jobs : f \in j.files) \/ \E t \in Syncs : f \in sync[t].index

FileIndexed(f) ==
  f \in Present /\ f \notin unqueued /\ ~AwaitedLater(f) =>
    /\ files[f].status \in {"pending", "in_progress"} => f \in DOMAIN indexer
    /\ files[f].status = "completed" /\ f \notin DOMAIN indexer => files[f].content \in chunks[f]
    /\ f \in DOMAIN indexer => indexer[f] = files[f].content

IndexInv ==
  /\ chunks = [f \in FileIds |-> chunks[f]]
  /\ \A t \in Syncs : sync[t].pc = "releasing" => sync[t].index = {}
  /\ \A f \in FileIds : FileIndexed(f)

\* A file nothing has happened to, or that nothing need be said of any more.
FileQuiet(f) ==
  f \in Present' /\ f \notin unqueued' /\ ~AwaitedLater(f)' =>
    /\ f \in Present /\ f \notin unqueued /\ ~AwaitedLater(f)
    /\ files'[f] = files[f] /\ chunks'[f] = chunks[f]
    /\ f \in DOMAIN indexer' <=> f \in DOMAIN indexer
    /\ indexer'[f] = indexer[f]

LEMMA QuietKeepsIndexed ==
  ASSUME NEW f, FileIndexed(f), FileQuiet(f) PROVE FileIndexed(f)'
BY DEF FileIndexed, FileQuiet

LEMMA InitIndex == DocsInit => IndexInv
<1> SUFFICES ASSUME DocsInit PROVE IndexInv OBVIOUS
<1>1. \A f \in FileIds : f \notin Present BY DEF DocsInit, Present, NoFile
<1>2. \A t \in Syncs : sync[t].pc # "releasing" BY DEF DocsInit, Unused
<1> QED BY <1>1, <1>2 DEF DocsInit, IndexInv, FileIndexed

\* A task that moves on keeps what it is going to index, or gives it up as unqueued.
LEMMA MoveKeepsIndex ==
  ASSUME IndexInv, NEW t \in Syncs, \A u \in Syncs \ {t} : sync'[u] = sync[u],
         UNCHANGED <<files, chunks, jobs, indexer>>, unqueued \subseteq unqueued',
         sync[t].index \subseteq sync'[t].index \union unqueued',
         sync'[t].pc = "releasing" => sync'[t].index = {}
  PROVE  IndexInv'
<1>1. FileIds' = FileIds /\ Present' = Present BY DEF FileIds, Present
<1>2. \A u \in Syncs : sync'[u].pc = "releasing" => sync'[u].index = {} BY DEF IndexInv
<1>3. ASSUME NEW f \in FileIds PROVE FileIndexed(f)'
  <2>1. f \notin unqueued' /\ AwaitedLater(f) => AwaitedLater(f)' BY DEF AwaitedLater
  <2>2. FileQuiet(f) BY <1>1, <2>1 DEF FileQuiet
  <2> QED BY <2>2, QuietKeepsIndexed DEF IndexInv
<1> QED BY <1>1, <1>2, <1>3 DEF IndexInv

\* The record of one task is replaced, its shape kept.
LEMMA RecordMoves ==
  ASSUME SyncShape, NEW t \in Syncs, NEW r, sync' = [sync EXCEPT ![t] = r]
  PROVE  sync'[t] = r /\ \A u \in Syncs \ {t} : sync'[u] = sync[u]
BY DEF SyncShape

LEMMA PhaseKeepsIndex ==
  ASSUME SyncShape, IndexInv, NEW t \in Syncs, NEW p, p # "releasing",
         sync' = [sync EXCEPT ![t] = [sync[t] EXCEPT !.pc = p]],
         UNCHANGED <<files, chunks, jobs, indexer, unqueued>>
  PROVE  IndexInv'
<1>1. sync'[t] = [sync[t] EXCEPT !.pc = p] /\ \A u \in Syncs \ {t} : sync'[u] = sync[u]
  BY RecordMoves
<1>2. sync'[t].pc = p /\ sync'[t].index = sync[t].index BY <1>1 DEF SyncShape, Unused
<1> QED BY <1>1, <1>2, MoveKeepsIndex

LEMMA DropKeepsIndex ==
  ASSUME SyncShape, IndexInv, NEW t \in Syncs, NEW p,
         sync' = [sync EXCEPT ![t] = [Unused EXCEPT !.pc = p]],
         UNCHANGED <<files, chunks, jobs, indexer>>,
         unqueued' = unqueued \union sync[t].index
  PROVE  IndexInv'
<1>1. sync'[t] = [Unused EXCEPT !.pc = p] /\ \A u \in Syncs \ {t} : sync'[u] = sync[u]
  BY RecordMoves
<1>2. sync'[t].index = {} BY <1>1 DEF Unused
<1> QED BY <1>1, <1>2, MoveKeepsIndex

\* What is left of the files after a deletion is as it was.
LEMMA DeleteKeepsIndex ==
  ASSUME IndexInv, UNCHANGED <<jobs, indexer, unqueued>>,
         chunks' = [f \in FileIds |-> chunks'[f]],
         \A t \in Syncs : sync'[t].index = sync[t].index,
         \A t \in Syncs : sync'[t].pc = "releasing" => sync'[t].index = {},
         \A f \in Present' : f \in Present /\ files'[f] = files[f] /\ chunks'[f] = chunks[f]
  PROVE  IndexInv'
<1>1. FileIds' = FileIds BY DEF FileIds
<1>2. ASSUME NEW f \in FileIds PROVE FileIndexed(f)'
  <2>1. AwaitedLater(f)' <=> AwaitedLater(f) BY DEF AwaitedLater
  <2>2. FileQuiet(f) BY <2>1 DEF FileQuiet
  <2> QED BY <2>2, QuietKeepsIndexed DEF IndexInv
<1> QED BY <1>1, <1>2 DEF IndexInv

LEMMA DocumentKeepsIndex ==
  ASSUME IndexInv, FilesInv, LockInv, NEW t \in Syncs, NEW d \in Docs, SyncDocument(t, d)
  PROVE  IndexInv'
<1> DEFINE old == KnownFile(t, d)
           targets == IF old = 0 THEN {f \in FreeIds : \A g \in FreeIds : f <= g}
                      ELSE {old} \intersect Present
           Kept == sync'[t].index = sync[t].index /\ UNCHANGED files
           Stores(f) == /\ sync'[t].index = sync[t].index \union {f}
                        /\ files' = [files EXCEPT ![f] =
                             [doc |-> d, content |-> source[d], status |-> "pending"]]
<1>s. SyncShape /\ DOMAIN sync[t] = DOMAIN Unused BY DEF LockInv, SyncShape
<1>0. /\ UNCHANGED <<chunks, jobs, indexer, unqueued>> /\ sync[t].pc = "syncing"
      /\ FileIds' = FileIds
  BY DEF SyncDocument, FileIds
<1>1. ASSUME NEW ok, NEW index,
             sync' = [sync EXCEPT ![t] =
        [sync[t] EXCEPT !.todo = sync[t].todo \ {d}, !.yielded = sync[t].yielded \union {d},
                        !.seen = SeenBy(t, d, ok), !.index = sync[t].index \union index]]
      PROVE  /\ \A u \in Syncs \ {t} : sync'[u] = sync[u]
             /\ sync'[t].pc = "syncing" /\ sync'[t].index = sync[t].index \union index
  <2>1. DOMAIN sync[t] = {"pc", "known", "todo", "yielded", "seen", "index"}
    BY <1>s DEF Unused
  <2>2. sync'[t] = [sync[t] EXCEPT !.todo = sync[t].todo \ {d},
                      !.yielded = sync[t].yielded \union {d},
                      !.seen = SeenBy(t, d, ok), !.index = sync[t].index \union index]
    BY <1>s, <1>1 DEF SyncShape
  <2>3. \A u \in Syncs \ {t} : sync'[u] = sync[u] BY <1>s, <1>1 DEF SyncShape
  <2> HIDE DEF SeenBy
  <2> QED BY <1>0, <2>1, <2>2, <2>3
<1>2. /\ \A u \in Syncs \ {t} : sync'[u] = sync[u]
      /\ sync'[t].pc = "syncing"
      /\ Kept \/ \E f \in targets : Stores(f)
  <2> DEFINE Yields(ok, index) == sync' = [sync EXCEPT ![t] =
        [sync[t] EXCEPT !.todo = sync[t].todo \ {d}, !.yielded = sync[t].yielded \union {d},
                        !.seen = SeenBy(t, d, ok), !.index = sync[t].index \union index]]
  <2>1. \/ \E ok : Yields(ok, {}) /\ UNCHANGED files
        \/ \E f \in targets :
             /\ files' = [files EXCEPT ![f] =
                  [doc |-> d, content |-> source[d], status |-> "pending"]]
             /\ Yields(TRUE, {f})
    BY DEF SyncDocument, FilesToIndex
  <2> HIDE DEF targets
  <2>2. CASE \E ok : Yields(ok, {}) /\ UNCHANGED files
    <3>1. PICK ok : Yields(ok, {}) /\ UNCHANGED files BY <2>2
    <3> QED BY <1>1, <3>1
  <2>3. CASE \E f \in targets :
             /\ files' = [files EXCEPT ![f] =
                  [doc |-> d, content |-> source[d], status |-> "pending"]]
             /\ Yields(TRUE, {f})
    <3>1. PICK f \in targets :
             /\ files' = [files EXCEPT ![f] =
                  [doc |-> d, content |-> source[d], status |-> "pending"]]
             /\ Yields(TRUE, {f})
      BY <2>3
    <3> QED BY <1>1, <3>1
  <2> QED BY <2>1, <2>2, <2>3
<1> HIDE DEF old, targets
<1>3. CASE Kept BY <1>0, <1>2, <1>3, MoveKeepsIndex
<1>4. CASE \E f \in targets : Stores(f)
  <2>1. PICK f \in targets : Stores(f) BY <1>4
  <2>2. ASSUME NEW g \in FileIds PROVE FileIndexed(g)'
    <3>1. CASE g = f
      <4>1. AwaitedLater(g)' BY <2>1, <3>1 DEF AwaitedLater
      <4> QED BY <4>1 DEF FileIndexed
    <3>2. CASE g # f
      <4>1. files'[g] = files[g] BY <2>1, <2>2, <3>2 DEF FilesInv, ShapesKept
      <4>2. AwaitedLater(g) => AwaitedLater(g)' BY <1>0, <1>2, <2>1 DEF AwaitedLater
      <4>3. FileQuiet(g) BY <1>0, <4>1, <4>2 DEF FileQuiet, Present
      <4> QED BY <2>2, <4>3, QuietKeepsIndexed DEF IndexInv
    <3> QED BY <3>1, <3>2
  <2>3. \A u \in Syncs : sync'[u].pc = "releasing" => sync'[u].index = {}
    BY <1>2 DEF IndexInv
  <2> QED BY <1>0, <2>2, <2>3 DEF IndexInv
<1> QED BY <1>2, <1>3, <1>4

LEMMA SyncStepKeepsIndex ==
  ASSUME IndexInv, FilesInv, LockInv, NEW t \in Syncs, SyncStep(t) PROVE IndexInv'
<1>s. SyncShape BY DEF LockInv
<1>1. CASE QueueSync(t) BY <1>1, <1>s, PhaseKeepsIndex DEF QueueSync
<1>2. CASE DispatchSync(t) BY <1>2, <1>s, PhaseKeepsIndex DEF DispatchSync
<1>3. CASE StartSync(t)
  <2>1. PICK p \in {"mapping", "done"} : sync' = [sync EXCEPT ![t] = [sync[t] EXCEPT !.pc = p]]
    BY <1>3 DEF StartSync
  <2> QED BY <1>3, <1>s, <2>1, PhaseKeepsIndex DEF StartSync
<1>4. CASE MapFiles(t)
  <2>1. CASE sourceRow # "live" /\ Abandon(t)
    BY <1>4, <1>s, <2>1, DropKeepsIndex DEF MapFiles, Abandon
  <2>2. CASE ~(sourceRow # "live" /\ Abandon(t))
    <3>1. PICK known : /\ UNCHANGED unqueued
                       /\ sync' = [sync EXCEPT ![t] =
                            [@ EXCEPT !.pc = "syncing", !.todo = Docs,
                               !.known = [d \in DOMAIN known |->
                                 [file |-> known[d], content |-> files[known[d]].content]]]]
      BY <1>4, <2>2 DEF MapFiles
    <3>2. /\ sync'[t].pc = "syncing" /\ sync'[t].index = sync[t].index
          /\ \A u \in Syncs \ {t} : sync'[u] = sync[u]
      BY <1>s, <3>1 DEF SyncShape, Unused
    <3> QED BY <1>4, <3>1, <3>2, MoveKeepsIndex DEF MapFiles
  <2> QED BY <2>1, <2>2
<1>5. CASE \E d \in Docs : SyncDocument(t, d) BY <1>5, DocumentKeepsIndex
<1>6. CASE \E d \in Docs : SkipDocument(t, d)
  <2>1. PICK d \in Docs : SkipDocument(t, d) BY <1>6
  <2>2. /\ sync'[t].pc = "syncing" /\ sync'[t].index = sync[t].index
        /\ \A u \in Syncs \ {t} : sync'[u] = sync[u]
    BY <1>s, <2>1 DEF SkipDocument, SyncShape, Unused
  <2> QED BY <2>1, <2>2, MoveKeepsIndex DEF SkipDocument
<1>7. CASE RemoveStaleFiles(t)
  <2>1. PICK ids : Delete(ids) BY <1>7 DEF RemoveStaleFiles
  <2>2. /\ sync'[t].pc = "indexing" /\ sync'[t].index = sync[t].index
        /\ \A u \in Syncs \ {t} : sync'[u] = sync[u]
    BY <1>s, <1>7 DEF RemoveStaleFiles, SyncShape, Unused
  <2>3. \A f \in Present' : f \in Present /\ f \notin ids /\ files'[f] = files[f]
    BY <1>7, <2>1, DeleteShape DEF FilesInv, RemoveStaleFiles
  <2>4. /\ chunks' = [f \in FileIds |-> chunks'[f]]
        /\ \A f \in Present' : chunks'[f] = chunks[f]
    BY <2>1, <2>3 DEF Delete, Present
  <2>5. UNCHANGED <<jobs, indexer, unqueued>> BY <1>7 DEF RemoveStaleFiles
  <2>6. \A u \in Syncs : /\ sync'[u].index = sync[u].index
                         /\ sync'[u].pc = "releasing" => sync'[u].index = {}
    BY <2>2 DEF IndexInv
  <2> QED BY <2>3, <2>4, <2>5, <2>6, DeleteKeepsIndex
<1>8. CASE QueueIndexing(t)
  <2>1. /\ sync'[t].pc = "releasing" /\ sync'[t].index = {}
        /\ \A u \in Syncs \ {t} : sync'[u] = sync[u]
    BY <1>s, <1>8 DEF QueueIndexing, SyncShape, Unused
  <2>2. /\ jobs \subseteq jobs'
        /\ \A f \in sync[t].index : \E j \in jobs' : f \in j.files
    <3> DEFINE job == [by |-> t, files |-> sync[t].index]
    <3>1. job.files = sync[t].index OBVIOUS
    <3>2. jobs' = IF sync[t].index = {} THEN jobs ELSE jobs \union {job} BY <1>8 DEF QueueIndexing
    <3> HIDE DEF job
    <3> QED BY <3>1, <3>2
  <2>3. UNCHANGED <<files, chunks, indexer, unqueued>> /\ FileIds' = FileIds
    BY <1>8 DEF QueueIndexing, FileIds
  <2>4. ASSUME NEW f \in FileIds PROVE FileIndexed(f)'
    <3>1. AwaitedLater(f) => AwaitedLater(f)' BY <2>1, <2>2 DEF AwaitedLater
    <3>2. FileQuiet(f) BY <2>3, <3>1 DEF FileQuiet, Present
    <3> QED BY <2>4, <3>2, QuietKeepsIndexed DEF IndexInv
  <2>5. \A u \in Syncs : sync'[u].pc = "releasing" => sync'[u].index = {}
    BY <2>1 DEF IndexInv
  <2> QED BY <2>3, <2>4, <2>5 DEF IndexInv
<1>9. CASE ReleaseSync(t)
  <2>1. sync[t].index = {} BY <1>9 DEF ReleaseSync, IndexInv
  <2>2. unqueued' = unqueued \union sync[t].index BY <1>9, <2>1 DEF ReleaseSync
  <2> QED BY <1>9, <1>s, <2>2, DropKeepsIndex DEF ReleaseSync
<1>10. CASE AbortSync(t) BY <1>10, <1>s, DropKeepsIndex DEF AbortSync, Abandon
<1>11. CASE FailSync(t) BY <1>11, <1>s, DropKeepsIndex DEF FailSync, Abandon
<1>12. CASE KillSync(t) BY <1>12, <1>s, DropKeepsIndex DEF KillSync
<1> QED
  BY <1>1, <1>2, <1>3, <1>4, <1>5, <1>6, <1>7, <1>8, <1>9, <1>10, <1>11, <1>12 DEF SyncStep

\* The running task loads the files of a job as they are.
LEMMA StartKeepsIndex ==
  ASSUME IndexInv, FilesInv, NEW j, StartIndexing(j) PROVE IndexInv'
<1> DEFINE found == j.files \intersect Present
<1>0. /\ UNCHANGED <<chunks, sync, unqueued>> /\ FileIds' = FileIds
      /\ jobs' = jobs \ {j} /\ DOMAIN indexer = {}
  BY DEF StartIndexing, Nothing, FileIds
<1>1. indexer' = [f \in found |-> files[f].content] BY DEF StartIndexing
<1>2. files' = [f \in FileIds |-> IF f \in found
                  THEN [files[f] EXCEPT !.status = "in_progress"] ELSE files[f]]
  BY DEF StartIndexing
<1>3. ASSUME NEW f \in FileIds PROVE FileIndexed(f)'
  <2>1. CASE f \in found
    <3>1. files'[f].status = "in_progress" /\ files'[f].content = files[f].content
      BY <1>2, <1>3, <2>1 DEF FilesInv, ShapesKept, NoFile
    <3>2. f \in DOMAIN indexer' /\ indexer'[f] = files[f].content BY <1>1, <2>1
    <3> QED BY <3>1, <3>2 DEF FileIndexed
  <2>2. CASE f \notin found
    <3>1. files'[f] = files[f] BY <1>2, <1>3, <2>2
    <3>2. f \in Present' <=> f \in Present BY <1>0, <1>3, <3>1 DEF Present
    <3>3. f \notin DOMAIN indexer' /\ f \notin DOMAIN indexer BY <1>0, <1>1, <2>2
    <3>4. f \in Present /\ AwaitedLater(f) => AwaitedLater(f)'
      BY <1>0, <2>2 DEF AwaitedLater
    <3>5. FileIndexed(f) BY <1>3 DEF IndexInv
    <3> QED BY <1>0, <3>1, <3>2, <3>3, <3>4, <3>5 DEF FileIndexed
  <2> QED BY <2>1, <2>2
<1> QED BY <1>0, <1>3 DEF IndexInv

\* What was loaded is what the file still says, or it is awaited anew.
LEMMA FileKeepsIndex ==
  ASSUME IndexInv, FilesInv, NEW f \in FileIds, NEW ok \in BOOLEAN, IndexFile(f, ok)
  PROVE  IndexInv'
<1>0. /\ UNCHANGED <<sync, jobs, unqueued>> /\ FileIds' = FileIds
      /\ f \in DOMAIN indexer
      /\ indexer' = [g \in DOMAIN indexer \ {f} |-> indexer[g]]
  BY DEF IndexFile, FileIds
<1>1. \A g : AwaitedLater(g)' <=> AwaitedLater(g) BY <1>0 DEF AwaitedLater
<1>2. CASE f \in Present
  <2> DEFINE s == IndexedStatus(ok)
  <2>1. /\ files' = [files EXCEPT ![f] = [files[f] EXCEPT !.status = s]]
        /\ chunks' = IF ok THEN [chunks EXCEPT ![f] = chunks[f] \union {indexer[f]}] ELSE chunks
    BY <1>2 DEF IndexFile
  <2>2. s \in {"completed", "failed"} /\ (s = "completed" => ok) BY DEF IndexedStatus
  <2> HIDE DEF s
  <2>3. files'[f] = [files[f] EXCEPT !.status = s] /\ \A g \in FileIds \ {f} : files'[g] = files[g]
    BY <2>1 DEF FilesInv, ShapesKept
  <2>4. files'[f].status = s /\ files'[f].content = files[f].content
    BY <2>3 DEF FilesInv, ShapesKept, NoFile
  <2>5. /\ chunks' = [g \in FileIds |-> chunks'[g]]
        /\ ok => indexer[f] \in chunks'[f]
        /\ \A g \in FileIds \ {f} : chunks'[g] = chunks[g]
    BY <2>1 DEF IndexInv
  <2>6. ASSUME NEW g \in FileIds PROVE FileIndexed(g)'
    <3>0. FileIndexed(g) BY <2>6 DEF IndexInv
    <3>1. CASE g = f
      <4>1. FileIndexed(f) BY <3>0, <3>1
      <4>2. f \notin DOMAIN indexer' BY <1>0
      <4> QED BY <1>0, <1>1, <1>2, <2>2, <2>4, <2>5, <3>1, <4>1, <4>2 DEF FileIndexed
    <3>2. CASE g # f
      <4>1. files'[g] = files[g] /\ chunks'[g] = chunks[g] BY <2>3, <2>5, <2>6, <3>2
      <4>2. g \in DOMAIN indexer' <=> g \in DOMAIN indexer BY <1>0, <3>2
      <4>3. g \in DOMAIN indexer' => indexer'[g] = indexer[g] BY <1>0, <3>2
      <4>4. g \in Present' <=> g \in Present BY <1>0, <2>6, <4>1 DEF Present
      <4> QED BY <1>0, <1>1, <3>0, <4>1, <4>2, <4>3, <4>4 DEF FileIndexed
    <3> QED BY <3>1, <3>2
  <2> QED BY <1>0, <2>5, <2>6 DEF IndexInv
<1>3. CASE f \notin Present
  <2>1. UNCHANGED <<files, chunks>> BY <1>3 DEF IndexFile
  <2>2. Present' = Present BY <1>0, <2>1 DEF Present
  <2>3. ASSUME NEW g \in FileIds PROVE FileIndexed(g)'
    <3>0. FileIndexed(g) BY <2>3 DEF IndexInv
    <3>1. CASE g = f BY <1>3, <2>2, <3>1 DEF FileIndexed
    <3>2. CASE g # f
      <4>1. g \in DOMAIN indexer' <=> g \in DOMAIN indexer BY <1>0, <3>2
      <4>2. g \in DOMAIN indexer' => indexer'[g] = indexer[g] BY <1>0, <3>2
      <4> QED BY <1>0, <1>1, <2>1, <2>2, <3>0, <4>1, <4>2 DEF FileIndexed
    <3> QED BY <3>1, <3>2
  <2> QED BY <1>0, <2>1, <2>3 DEF IndexInv
<1> QED BY <1>2, <1>3

LEMMA IndexStepKeepsIndex ==
  ASSUME IndexInv, FilesInv, IndexStep PROVE IndexInv'
<1>1. CASE \E j \in jobs : StartIndexing(j) BY <1>1, StartKeepsIndex
<1>2. CASE \E f \in FileIds, ok \in BOOLEAN : IndexFile(f, ok) BY <1>2, FileKeepsIndex
<1>3. CASE KillIndexer
  <2>0. /\ UNCHANGED <<files, chunks, sync, jobs>> /\ FileIds' = FileIds
        /\ unqueued' = unqueued \union DOMAIN indexer /\ DOMAIN indexer' = {}
    BY <1>3 DEF KillIndexer, Nothing, FileIds
  <2>1. Present' = Present BY <2>0 DEF Present
  <2>2. ASSUME NEW f \in FileIds PROVE FileIndexed(f)'
    <3>1. FileIndexed(f) BY <2>2 DEF IndexInv
    <3>2. AwaitedLater(f)' <=> AwaitedLater(f) BY <2>0 DEF AwaitedLater
    <3> QED BY <2>0, <2>1, <3>1, <3>2 DEF FileIndexed
  <2> QED BY <2>0, <2>2 DEF IndexInv
<1>4. CASE RetryFailed
  <2> DEFINE failed == {f \in Present : files[f].status = "failed"}
             job == [by |-> NoTask, files |-> failed]
  <2>0. /\ UNCHANGED <<sync, indexer, unqueued>> /\ FileIds' = FileIds
        /\ chunks' = [f \in FileIds |-> IF f \in failed THEN {} ELSE chunks[f]]
        /\ files' = [f \in FileIds |-> IF f \in failed
                       THEN [files[f] EXCEPT !.status = "pending"] ELSE files[f]]
        /\ jobs' = jobs \union {job}
    BY <1>4 DEF RetryFailed, FileIds
  <2>1. job.files = failed OBVIOUS
  <2> HIDE DEF job
  <2>2. ASSUME NEW f \in FileIds PROVE FileIndexed(f)'
    <3>1. CASE f \in failed
      <4>1. AwaitedLater(f)' BY <2>0, <2>1, <3>1 DEF AwaitedLater
      <4> QED BY <4>1 DEF FileIndexed
    <3>2. CASE f \notin failed
      <4>1. files'[f] = files[f] /\ chunks'[f] = chunks[f] BY <2>0, <2>2, <3>2
      <4>2. AwaitedLater(f) => AwaitedLater(f)' BY <2>0 DEF AwaitedLater
      <4>3. FileQuiet(f) BY <2>0, <4>1, <4>2 DEF FileQuiet, Present
      <4> QED BY <2>2, <4>3, QuietKeepsIndexed DEF IndexInv
    <3> QED BY <3>1, <3>2
  <2> QED BY <2>0, <2>2 DEF IndexInv
<1> QED BY <1>1, <1>2, <1>3, <1>4 DEF IndexStep

LEMMA StepKeepsIndex ==
  LockInv /\ FilesInv /\ IndexInv /\ [DocsNext]_docsVars => IndexInv'
<1> SUFFICES ASSUME LockInv, FilesInv, IndexInv, [DocsNext]_docsVars PROVE IndexInv' OBVIOUS
<1>q. ASSUME UNCHANGED <<files, chunks, sync, jobs, indexer, unqueued>> PROVE IndexInv'
  <2>1. FileIds' = FileIds BY DEF FileIds
  <2>2. \A f \in Present' : f \in Present /\ files'[f] = files[f] /\ chunks'[f] = chunks[f]
    BY <1>q, <2>1 DEF Present
  <2>3. chunks' = [f \in FileIds |-> chunks'[f]] BY <1>q DEF IndexInv
  <2>4. \A t \in Syncs : /\ sync'[t].index = sync[t].index
                         /\ sync'[t].pc = "releasing" => sync'[t].index = {}
    BY <1>q DEF IndexInv
  <2> QED BY <1>q, <2>2, <2>3, <2>4, DeleteKeepsIndex
<1>1. CASE \E t \in Syncs : SyncStep(t) BY <1>1, SyncStepKeepsIndex
<1>2. CASE IndexStep BY <1>2, IndexStepKeepsIndex
<1>3. CASE LockAges \/ EditLoads \/ EditSaves \/ ArchiveSource \/ StartRemoval \/ KillRemoval
  BY <1>q, <1>3 DEF LockAges, EditLoads, EditSaves, ArchiveSource, StartRemoval, KillRemoval
<1>4. CASE RemovePage \/ FinishRemoval
  <2>1. UNCHANGED <<sync, jobs, indexer, unqueued>> /\ FileIds' = FileIds
    BY <1>4 DEF RemovePage, FinishRemoval, FileIds
  <2>2. /\ chunks' = [f \in FileIds |-> chunks'[f]]
        /\ \A f \in Present' : f \in Present /\ files'[f] = files[f] /\ chunks'[f] = chunks[f]
    <3>1. CASE RemovePage
      <4>1. PICK ids : Delete(ids) BY <3>1 DEF RemovePage
      <4>2. DOMAIN removal' = DOMAIN removal BY <3>1 DEF RemovePage, FilesInv, ShapesKept
      <4>3. \A f \in Present' : f \in Present /\ f \notin ids /\ files'[f] = files[f]
        BY <4>1, <4>2, DeleteShape DEF FilesInv
      <4> QED BY <4>1, <4>3 DEF Delete, Present
    <3>2. CASE FinishRemoval
      <4>1. UNCHANGED chunks /\ Present' = {} BY <3>2, <2>1 DEF FinishRemoval, Present, NoFile
      <4> QED BY <4>1, <2>1 DEF IndexInv
    <3> QED BY <1>4, <3>1, <3>2
  <2>3. \A t \in Syncs : /\ sync'[t].index = sync[t].index
                         /\ sync'[t].pc = "releasing" => sync'[t].index = {}
    BY <2>1 DEF IndexInv
  <2> QED BY <2>1, <2>2, <2>3, DeleteKeepsIndex
<1>5. CASE \E d \in Docs : SourceChanges(d) BY <1>q, <1>5 DEF SourceChanges
<1>6. CASE UNCHANGED docsVars BY <1>q, <1>6 DEF docsVars
<1> QED BY <1>1, <1>2, <1>3, <1>4, <1>5, <1>6 DEF DocsNext, RemovalStep

\* For any number of files and tasks, a file that waits is awaited by a task, and one that is
\* indexed has chunks of its present content, unless a fault dropped its indexing
\* (index_collection_files, documents/tasks.py:59).
THEOREM FilesStayIndexed == DocsSpec => []FilesAreIndexed
<1>1. DocsInit => LockInv /\ FilesInv /\ IndexInv BY InitLock, InitFiles, InitIndex
<1>2. LockInv /\ FilesInv /\ IndexInv /\ [DocsNext]_docsVars => (LockInv /\ FilesInv /\ IndexInv)'
  BY StepKeepsLock, StepKeepsFiles, StepKeepsIndex
<1>3. IndexInv => FilesAreIndexed
  <2> SUFFICES ASSUME IndexInv, NEW f \in Present
               PROVE  /\ files[f].status \in {"pending", "in_progress"} =>
                           Awaited(f) \/ f \in unqueued
                      /\ files[f].status = "completed" /\ ~Awaited(f) /\ f \notin unqueued =>
                           files[f].content \in chunks[f]
    BY DEF FilesAreIndexed, WaitingIsAwaited, IndexedIsCurrent
  <2>1. FileIndexed(f) BY DEF IndexInv, Present
  <2>2. Awaited(f) <=> AwaitedLater(f) \/ f \in DOMAIN indexer BY DEF Awaited, AwaitedLater
  <2> QED BY <2>1, <2>2 DEF FileIndexed
<1> QED BY <1>1, <1>2, <1>3, PTL DEF DocsSpec

-----------------------------------------------------------------------------
\* The deletion.  Unless the form brings the row back, nothing is added to a source that
\* is archived, so the one page there is holds all of its files; and chunks go with
\* their files, except those the cascade leaves behind a further page.

ChunksHeld == \A f \in FileIds : chunks[f] # {} => f \in Present

RemovalInv ==
  excuse = {} =>
    /\ removal.pc \in {"idle", "queued", "paging", "done"}
    /\ removal.pc = "idle" => sourceRow = "live"
    /\ removal.pc \in {"queued", "paging"} => sourceRow = "archived"
    /\ removal.pc = "done" => sourceRow = "deleted" /\ Present = {}
    /\ removal.pc = "paging" /\ removal.pages <= 1 =>
         /\ removal.page \in Nat \ {0} /\ removal.pages \in Nat
         /\ removal.page <= removal.pages => Cardinality(Present) <= PageSize
         /\ removal.page > removal.pages => Present = {}
    /\ sourceRow # "deleted" \/ removal.pages <= 1 => ChunksHeld

LEMMA PresentIsFinite == IsFiniteSet(Present) /\ Cardinality(Present) \in Nat
<1>1. IsFiniteSet(FileIds) BY DocumentBounds, FS_Interval DEF FileIds
<1>2. Present \in SUBSET FileIds BY DEF Present
<1> QED BY <1>1, <1>2, FS_Subset, FS_CardinalityType

\* As many pages as it takes: one holds everything if there is only one.
LEMMA OnePageHoldsAll ==
  ASSUME NEW n \in Nat, NEW p \in Nat \ {0}
  PROVE  /\ (n + p - 1) \div p \in Nat
         /\ (n + p - 1) \div p <= 1 => n <= p
         /\ (n + p - 1) \div p < 1 => n = 0
<1> DEFINE q == (n + p - 1) \div p
           r == (n + p - 1) % p
<1>1. q \in Int /\ r \in 0 .. (p - 1) /\ n + p - 1 = p * q + r OBVIOUS
<1> HIDE DEF q, r
<1>2. q >= 0
  <2> SUFFICES ASSUME q <= -1 PROVE FALSE BY <1>1
  <2>1. p * q <= -p BY <1>1
  <2> QED BY <1>1, <2>1
<1>3. q <= 1 => n <= p
  <2>1. q <= 1 => p * q <= p BY <1>1
  <2> QED BY <1>1, <2>1
<1>4. q < 1 => n = 0
  <2>1. q < 1 => q = 0 BY <1>1, <1>2
  <2> QED BY <1>1, <2>1
<1> QED BY <1>1, <1>2, <1>3, <1>4 DEF q

LEMMA InitRemoval == DocsInit => RemovalInv
<1> SUFFICES ASSUME DocsInit PROVE RemovalInv OBVIOUS
<1>1. removal.pc = "idle" /\ sourceRow = "live" BY DEF DocsInit
<1>2. ChunksHeld BY DEF DocsInit, ChunksHeld
<1> QED BY <1>1, <1>2 DEF RemovalInv

\* Steps that let the deletion be, and add nothing to a source that is not live.
LEMMA QuietKeepsRemoval ==
  ASSUME RemovalInv, excuse' = {} => excuse = {}, UNCHANGED <<removal, sourceRow>>,
         excuse = {} => sourceRow = "live" \/ Present' \subseteq Present,
         ChunksHeld => ChunksHeld'
  PROVE  RemovalInv'
<1> SUFFICES ASSUME excuse' = {} PROVE RemovalInv' BY DEF RemovalInv
<1>0. excuse = {} OBVIOUS
<1>1. CASE sourceRow = "live"
  BY <1>0, <1>1 DEF RemovalInv
<1>2. CASE Present' \subseteq Present
  <2>1. Cardinality(Present') <= Cardinality(Present) /\ IsFiniteSet(Present')
    BY <1>2, PresentIsFinite, FS_Subset
  <2>2. Cardinality(Present') \in Nat BY <2>1, FS_CardinalityType
  <2>3. Cardinality(Present) <= PageSize => Cardinality(Present') <= PageSize
    BY <2>1, <2>2, PresentIsFinite, DocumentBounds
  <2>4. Present = {} => Present' = {} BY <1>2
  <2> HIDE DEF ChunksHeld
  <2> QED BY <1>0, <2>3, <2>4 DEF RemovalInv
<1> QED BY <1>0, <1>1, <1>2

\* Deleted rows take their chunks with them.
LEMMA DeleteHolds ==
  ASSUME ShapesKept, NEW ids, Delete(ids), DOMAIN removal' = DOMAIN removal
  PROVE  /\ ChunksHeld => ChunksHeld'
         /\ Present' = Present \ ids
<1>0. FileIds' = FileIds BY DEF FileIds
<1>1. /\ \A f \in FileIds : files'[f] = IF f \in ids THEN NoFile ELSE files[f]
      /\ \A f \in FileIds : chunks'[f] = IF f \in ids THEN {} ELSE chunks[f]
  BY DEF Delete
<1>2. Present' = Present \ ids BY <1>0, <1>1 DEF Present, NoFile
<1> QED BY <1>0, <1>1, <1>2 DEF ChunksHeld

LEMMA SyncStepKeepsRemoval ==
  ASSUME RemovalInv, FilesInv, LockInv, NEW t \in Syncs, SyncStep(t) PROVE RemovalInv'
<1>0. UNCHANGED <<removal, sourceRow>> /\ (excuse' = {} => excuse = {}) /\ FileIds' = FileIds
  BY ClaimExcuses DEF SyncStep, QueueSync, DispatchSync, StartSync, MapFiles, SyncDocument,
     SkipDocument, RemoveStaleFiles, QueueIndexing, ReleaseSync, AbortSync, FailSync, KillSync, FileIds
<1>1. CASE RemoveStaleFiles(t)
  <2>1. PICK ids : Delete(ids) BY <1>1 DEF RemoveStaleFiles
  <2>2. (ChunksHeld => ChunksHeld') /\ Present' \subseteq Present
    BY <1>0, <2>1, DeleteHolds DEF FilesInv
  <2> QED BY <1>0, <2>2, QuietKeepsRemoval
<1>2. CASE \E d \in Docs : SyncDocument(t, d)
  <2>1. PICK d \in Docs : SyncDocument(t, d) BY <1>2
  <2>2. sourceRow = "live" /\ UNCHANGED chunks BY <2>1 DEF SyncDocument
  <2>3. UNCHANGED files \/ \E f : files' = [files EXCEPT ![f] =
                             [doc |-> d, content |-> source[d], status |-> "pending"]]
    BY <2>1 DEF SyncDocument
  <2>4. Present \subseteq Present'
    <3>1. CASE UNCHANGED files BY <1>0, <3>1 DEF Present
    <3>2. CASE \E f : files' = [files EXCEPT ![f] =
                         [doc |-> d, content |-> source[d], status |-> "pending"]]
      BY <1>0, <3>2 DEF FilesInv, ShapesKept, Present
    <3> QED BY <2>3, <3>1, <3>2
  <2>5. ChunksHeld => ChunksHeld' BY <1>0, <2>2, <2>4 DEF ChunksHeld
  <2> QED BY <1>0, <2>2, <2>5, QuietKeepsRemoval
<1>3. CASE ~RemoveStaleFiles(t) /\ ~\E d \in Docs : SyncDocument(t, d)
  <2>1. UNCHANGED <<files, chunks>>
    BY <1>3 DEF SyncStep, QueueSync, DispatchSync, StartSync, MapFiles, SkipDocument,
       QueueIndexing, ReleaseSync, AbortSync, FailSync, KillSync
  <2>2. Present' = Present BY <1>0, <2>1 DEF Present
  <2>3. ChunksHeld => ChunksHeld' BY <1>0, <2>1, <2>2 DEF ChunksHeld
  <2> QED BY <1>0, <2>2, <2>3, QuietKeepsRemoval
<1> QED BY <1>1, <1>2, <1>3

LEMMA IndexStepKeepsRemoval ==
  ASSUME RemovalInv, FilesInv, IndexInv, IndexStep PROVE RemovalInv'
<1>0. UNCHANGED <<removal, sourceRow, excuse>> /\ FileIds' = FileIds
  BY DEF IndexStep, StartIndexing, IndexFile, KillIndexer, RetryFailed, FileIds
<1>1. \A f \in FileIds : /\ files'[f].status = "none" <=> files[f].status = "none"
                         /\ chunks'[f] # {} => chunks[f] # {} \/ f \in Present
  <2>1. CASE \E j \in jobs : StartIndexing(j)
    BY <2>1 DEF StartIndexing, FilesInv, ShapesKept, NoFile, Present
  <2>2. CASE \E f \in FileIds, ok \in BOOLEAN : IndexFile(f, ok)
    <3>1. PICK f \in FileIds, ok \in BOOLEAN : IndexFile(f, ok) BY <2>2
    <3>2. CASE f \in Present
      <4> DEFINE s == IndexedStatus(ok)
      <4>1. /\ files' = [files EXCEPT ![f] = [files[f] EXCEPT !.status = s]]
            /\ chunks' = IF ok THEN [chunks EXCEPT ![f] = chunks[f] \union {indexer[f]}] ELSE chunks
        BY <3>1, <3>2 DEF IndexFile
      <4>2. s # "none" BY DEF IndexedStatus
      <4> HIDE DEF s
      <4>3. \A g \in FileIds : files'[g].status = "none" <=> files[g].status = "none"
        BY <3>2, <4>1, <4>2 DEF FilesInv, ShapesKept, NoFile, Present
      <4>4. \A g \in FileIds \ {f} : chunks'[g] = chunks[g] BY <4>1 DEF IndexInv
      <4> QED BY <3>2, <4>3, <4>4
    <3>3. CASE f \notin Present BY <3>1, <3>3 DEF IndexFile
    <3> QED BY <3>2, <3>3
  <2>3. CASE KillIndexer BY <2>3 DEF KillIndexer
  <2>4. CASE RetryFailed BY <2>4 DEF RetryFailed, FilesInv, ShapesKept, NoFile, Present
  <2> QED BY <2>1, <2>2, <2>3, <2>4 DEF IndexStep
<1>2. Present' = Present BY <1>0, <1>1 DEF Present
<1>3. ChunksHeld => ChunksHeld' BY <1>0, <1>1, <1>2 DEF ChunksHeld
<1> QED BY <1>0, <1>2, <1>3, QuietKeepsRemoval

\* The pages are counted when nothing is added any more.
LEMMA StartKeepsRemoval ==
  ASSUME RemovalInv, FilesInv, StartRemoval PROVE RemovalInv'
<1>0. UNCHANGED <<sourceRow, excuse, files, chunks>> /\ removal.pc = "queued" /\ FileIds' = FileIds
  BY DEF StartRemoval, FileIds
<1> SUFFICES ASSUME excuse = {} PROVE RemovalInv' BY <1>0 DEF RemovalInv
<1>1. sourceRow = "archived" /\ ChunksHeld BY <1>0 DEF RemovalInv
<1>2. Present' = Present BY <1>0 DEF Present
<1>3. ChunksHeld' BY <1>0, <1>1, <1>2 DEF ChunksHeld
<1> DEFINE n == Cardinality(Present)
           pages == (n + PageSize - 1) \div PageSize
<1>4. removal' = [pc |-> "paging", page |-> 1, pages |-> pages] BY <1>0, <1>1 DEF StartRemoval
<1>5. n \in Nat /\ IsFiniteSet(Present) BY PresentIsFinite
<1> HIDE DEF n
<1>6. pages \in Nat /\ (pages <= 1 => n <= PageSize) /\ (pages < 1 => n = 0)
  BY <1>5, OnePageHoldsAll, DocumentBounds
<1>7. n = 0 => Present = {} BY <1>5, FS_EmptySet DEF n
<1> HIDE DEF pages
<1>8. /\ removal'.pc = "paging" /\ removal'.page = 1 /\ removal'.pages = pages BY <1>4
<1>9. 1 > pages => Present' = {} BY <1>2, <1>6, <1>7
<1>10. pages <= 1 => Cardinality(Present') <= PageSize BY <1>2, <1>6 DEF n
<1> QED BY <1>0, <1>1, <1>3, <1>6, <1>8, <1>9, <1>10 DEF RemovalInv

\* The first page of one page takes everything.
LEMMA PageKeepsRemoval ==
  ASSUME RemovalInv, FilesInv, RemovePage PROVE RemovalInv'
<1>0. /\ UNCHANGED <<sourceRow, excuse>> /\ removal.pc = "paging"
      /\ removal.page <= removal.pages
  BY DEF RemovePage
<1> SUFFICES ASSUME excuse = {} PROVE RemovalInv' BY <1>0 DEF RemovalInv
<1>1. sourceRow = "archived" /\ ChunksHeld BY <1>0 DEF RemovalInv
<1>2. DOMAIN removal = {"pc", "pages", "page"} BY DEF FilesInv, ShapesKept
<1>3. removal' = [removal EXCEPT !.page = @ + 1] BY DEF RemovePage
<1>4. removal'.pc = "paging" /\ removal'.pages = removal.pages /\ removal'.page = removal.page + 1
  BY <1>0, <1>2, <1>3
<1> DEFINE left == Cardinality(Present) - Offset(removal.page)
           size == IF left <= 0 THEN 0 ELSE IF left < PageSize THEN left ELSE PageSize
<1>5. PICK page \in SUBSET Present : Cardinality(page) = size /\ Delete(page)
  BY DEF RemovePage
<1> HIDE DEF size
<1>6. ChunksHeld' /\ Present' = Present \ page
  BY <1>1, <1>2, <1>3, <1>5, DeleteHolds DEF FilesInv
<1>7. ASSUME removal.pages <= 1
      PROVE  removal'.page \in Nat \ {0} /\ removal.pages \in Nat /\ removal'.page > removal.pages
             /\ Present' = {}
  <2>1. /\ removal.page \in Nat \ {0} /\ removal.pages \in Nat
        /\ Cardinality(Present) <= PageSize
    BY <1>0, <1>7 DEF RemovalInv
  <2>2. removal.page = 1 /\ removal.pages = 1 BY <1>0, <1>7, <2>1
  <2>3. Offset(removal.page) = 0 BY <2>2, DocumentBounds DEF Offset
  <2>4. left = Cardinality(Present) BY <2>3, PresentIsFinite
  <2>5. size = Cardinality(Present) BY <2>1, <2>4, PresentIsFinite, DocumentBounds DEF size
  <2>6. page = Present BY <1>5, <2>5, PresentIsFinite, FS_Subset
  <2> QED BY <1>4, <1>6, <2>2, <2>6
<1> HIDE DEF ChunksHeld
<1> QED BY <1>0, <1>1, <1>4, <1>6, <1>7 DEF RemovalInv

LEMMA FinishKeepsRemoval ==
  ASSUME RemovalInv, FilesInv, FinishRemoval PROVE RemovalInv'
<1>0. /\ UNCHANGED <<excuse, chunks>> /\ removal.pc = "paging" /\ FileIds' = FileIds
      /\ removal.page > removal.pages /\ sourceRow' = "deleted"
      /\ removal' = [removal EXCEPT !.pc = "done"] /\ files' = [f \in FileIds |-> NoFile]
  BY DEF FinishRemoval, FileIds
<1> SUFFICES ASSUME excuse = {} PROVE RemovalInv' BY <1>0 DEF RemovalInv
<1>1. removal'.pc = "done" /\ removal'.pages = removal.pages
  BY <1>0 DEF FilesInv, ShapesKept
<1>2. Present' = {} BY <1>0 DEF Present, NoFile
<1>3. ASSUME removal.pages <= 1 PROVE ChunksHeld'
  <2>1. Present = {} /\ ChunksHeld BY <1>0, <1>3 DEF RemovalInv
  <2> QED BY <1>0, <2>1 DEF ChunksHeld
<1> QED BY <1>0, <1>1, <1>2, <1>3 DEF RemovalInv

LEMMA StepKeepsRemoval ==
  LockInv /\ FilesInv /\ IndexInv /\ RemovalInv /\ [DocsNext]_docsVars => RemovalInv'
<1> SUFFICES ASSUME LockInv, FilesInv, IndexInv, RemovalInv, [DocsNext]_docsVars
             PROVE  RemovalInv'
  OBVIOUS
<1>q. ASSUME UNCHANGED <<files, chunks>> PROVE Present' = Present /\ (ChunksHeld => ChunksHeld')
  BY <1>q DEF Present, ChunksHeld, FileIds
<1>1. CASE \E t \in Syncs : SyncStep(t) BY <1>1, SyncStepKeepsRemoval
<1>2. CASE IndexStep BY <1>2, IndexStepKeepsRemoval
<1>3. CASE LockAges \/ EditLoads \/ UNCHANGED docsVars
  BY <1>q, <1>3, QuietKeepsRemoval DEF LockAges, EditLoads, docsVars
<1>4. CASE EditSaves
  <2>1. UNCHANGED <<files, chunks, removal>> BY <1>4 DEF EditSaves
  <2>2. excuse' = {} => excuse = {} /\ sourceRow = "live" /\ sourceRow' = "live"
    BY <1>4 DEF EditSaves
  <2>3. CASE excuse' = {} BY <1>q, <2>1, <2>2, <2>3, QuietKeepsRemoval
  <2>4. CASE excuse' # {} BY <2>4 DEF RemovalInv
  <2> QED BY <2>3, <2>4
<1>5. CASE ArchiveSource
  <2>1. UNCHANGED <<files, chunks, excuse>> /\ sourceRow' = "archived" /\ sourceRow = "live"
    BY <1>5 DEF ArchiveSource
  <2>2. removal'.pc = "queued" BY <1>5 DEF ArchiveSource, FilesInv, ShapesKept
  <2>3. excuse = {} => ChunksHeld BY <2>1 DEF RemovalInv
  <2> QED BY <1>q, <2>1, <2>2, <2>3 DEF RemovalInv
<1>6. CASE StartRemoval BY <1>6, StartKeepsRemoval
<1>7. CASE RemovePage BY <1>7, PageKeepsRemoval
<1>8. CASE FinishRemoval BY <1>8, FinishKeepsRemoval
<1>9. CASE KillRemoval
  <2>1. UNCHANGED <<files, chunks, excuse, sourceRow>> /\ removal.pc = "paging"
    BY <1>9 DEF KillRemoval
  <2>2. removal'.pc = "queued" /\ removal'.pages = removal.pages
    BY <1>9 DEF KillRemoval, FilesInv, ShapesKept
  <2> QED BY <1>q, <2>1, <2>2 DEF RemovalInv
<1>10. CASE \E d \in Docs : SourceChanges(d) BY <1>q, <1>10, QuietKeepsRemoval DEF SourceChanges
<1> QED
  BY <1>1, <1>2, <1>3, <1>4, <1>5, <1>6, <1>7, <1>8, <1>9, <1>10 DEF DocsNext, RemovalStep

\* For any number of files and any page size, a source whose files fit one page leaves no chunk
\* behind, unless an edit brought it back while it was deleted
\* (delete_document_source_task, documents/tasks.py:351).
THEOREM NothingIsLeft == DocsSpec => []DeletedIsNotFound
<1>1. DocsInit => LockInv /\ FilesInv /\ IndexInv /\ RemovalInv
  BY InitLock, InitFiles, InitIndex, InitRemoval
<1>2. LockInv /\ FilesInv /\ IndexInv /\ RemovalInv /\ [DocsNext]_docsVars
        => (LockInv /\ FilesInv /\ IndexInv /\ RemovalInv)'
  BY StepKeepsLock, StepKeepsFiles, StepKeepsIndex, StepKeepsRemoval
<1>3. RemovalInv => DeletedIsNotFound
  <2> SUFFICES ASSUME RemovalInv, sourceRow = "deleted", removal.pages <= 1, excuse = {},
                      NEW f \in FileIds
               PROVE  chunks[f] = {}
    BY DEF DeletedIsNotFound
  <2>1. Present = {} /\ ChunksHeld BY DEF RemovalInv
  <2> QED BY <2>1 DEF ChunksHeld
<1> QED BY <1>1, <1>2, <1>3, PTL DEF DocsSpec
=============================================================================
