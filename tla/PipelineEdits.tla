--------------------------- MODULE PipelineEdits ---------------------------
(***************************************************************************)
(* Saving a pipeline: the editors of apps/pipeline (javascript), each with *)
(* a debounced autosave that sends the difference to what it knows as a    *)
(* PATCH with the revision that is based on, and a full save (POST); the   *)
(* views that take them; and reverts to a published version.               *)
(*                                                                         *)
(* A graph is the content of its nodes and the set of its edges.  Every    *)
(* edge leads from the Start node, which stays, to the node that names it. *)
(* Ids of nodes are random and never used twice.  A PATCH is one           *)
(* transaction under the row lock; a POST and a revert load the row        *)
(* without it, and save it later under the lock of their UPDATE.           *)
(***************************************************************************)
EXTENDS Naturals, FiniteSets

CONSTANTS
  Editors,     \* browser tabs
  MaxSaves,    \* a bound of the requests that save, of all editors and reverts
  Nodes,       \* ids of nodes besides Start and End
  FirstNodes,  \* those of the published version, each with its edge
  Contents,    \* what a node's params, label and position can be
  MaxDrawings,    \* a bound of the changes users draw
  MaxLosses,   \* a bound of the requests or answers that are lost
  Nobody       \* who reverts is no editor

ASSUME EditsAssumption ==
  /\ FirstNodes \subseteq Nodes /\ Contents # {} /\ "absent" \notin Contents
  /\ MaxSaves \in Nat /\ MaxDrawings \in Nat /\ MaxLosses \in Nat /\ Nobody \notin Editors

VARIABLES
  stored,  \* the row with its nodes
  editor,  \* the store of each tab
  save,    \* the requests under way
  asked,    \* how many were sent
  used,    \* ids given to nodes so far
  drawings, losses,
  reused   \* history: a POST or revert has saved a row that was no longer the one it loaded

editVars == <<stored, editor, save, asked, used, drawings, losses, reused>>

Slots == 1..MaxSaves

\* What a new node says.
Fresh == CHOOSE v \in Contents : TRUE
Published == [nodes |-> [n \in Nodes |-> IF n \in FirstNodes THEN Fresh ELSE "absent"],
              edges |-> FirstNodes]
Present(graph) == {n \in Nodes : graph.nodes[n] # "absent"}

-----------------------------------------------------------------------------
(* The patch engine. *)

Deleted(from, to) == Present(from) \ Present(to)

\* An update puts the node back if it has gone, an add never changes a node that is there.
PatchedNodes(graph, from, to) ==
  [n \in Nodes |->
     CASE n \in Deleted(from, to) -> "absent"
       [] n \in Present(to) /\ from.nodes[n] \notin {"absent", to.nodes[n]} -> to.nodes[n]
       [] n \in Present(to) \ Present(from) /\ n \notin Present(graph) -> to.nodes[n]
       [] OTHER -> graph.nodes[n]]

\* Edges of deleted nodes go with them.
PatchedEdges(graph, from, to) ==
  ((graph.edges \ Deleted(from, to)) \ (from.edges \ to.edges)) \cup (to.edges \ from.edges)

Patched(graph, from, to) ==
  [nodes |-> PatchedNodes(graph, from, to), edges |-> PatchedEdges(graph, from, to)]

-----------------------------------------------------------------------------
(* The store of an editor.  known and rev are currentPipeline.data and     *)
(* currentRevision, drawn is what it shows; stale, failed and crossed are  *)
(* history: rev is from a refusal, the last save failed, two requests were *)
(* under way at once.                                                      *)

Loaded == [rev |-> 0, known |-> Published, drawn |-> Published,
           timer |-> FALSE, saving |-> FALSE, pending |-> FALSE, conflict |-> FALSE,
           load |-> "none", found |-> [rev |-> 0, graph |-> Published],
           stale |-> FALSE, failed |-> FALSE, crossed |-> FALSE]

Unused == [stage |-> "unused", by |-> Nobody, kind |-> "none", rev |-> 0,
           from |-> Published, to |-> Published, stale |-> FALSE]

Busy(e) == editor[e].load # "none" \/ \E c \in Slots : save[c].by = e

\* A request takes the first place that is free.
Sending(c, requests) ==
  /\ asked < MaxSaves /\ asked' = asked + 1
  /\ requests[c].stage = "unused" /\ \A d \in 1..(c - 1) : requests[d].stage # "unused"

\* The difference of what e draws to what it knows goes out as request c.
WithPatch(after, c, e, now) ==
  [after EXCEPT ![c] =
    [stage |-> "sent", by |-> e, kind |-> "patch", rev |-> now.rev,
     from |-> now.known, to |-> now.drawn, stale |-> now.stale]]
WhileSaving(e, now, after) ==
  [now EXCEPT !.saving = TRUE,
              !.crossed = @ \/ now.stale \/ now.load # "none" \/ \E c \in Slots : after[c].by = e]

\* Mutant: a change during a save is not deferred.
FlushedNow(e, now, after) ==
  \/ /\ now.conflict \/ now.saving \/ now.drawn = now.known
     /\ editor' = [editor EXCEPT ![e] = now]
     /\ save' = after /\ UNCHANGED asked
  \/ /\ ~now.conflict /\ ~now.saving /\ now.drawn # now.known
     /\ \E c \in Slots : Sending(c, after) /\ save' = WithPatch(after, c, e, now)
     /\ editor' = [editor EXCEPT ![e] = WhileSaving(e, now, after)]

\* The store `now` of e is flushed: nothing in a conflict, later if a save is under way,
\* else the difference goes out, if there is one.  `after` are the requests as they are by then.
Flushed(e, now, after) ==
  \/ /\ now.conflict \/ (~now.saving /\ now.drawn = now.known)
     /\ editor' = [editor EXCEPT ![e] = now]
     /\ save' = after /\ UNCHANGED asked
  \/ /\ ~now.conflict /\ now.saving
     /\ editor' = [editor EXCEPT ![e] = [now EXCEPT !.pending = TRUE]]
     /\ save' = after /\ UNCHANGED asked
  \/ /\ ~now.conflict /\ ~now.saving /\ now.drawn # now.known
     /\ \E c \in Slots : Sending(c, after) /\ save' = WithPatch(after, c, e, now)
     /\ editor' = [editor EXCEPT ![e] = WhileSaving(e, now, after)]

\* What follows an answer: deferred changes go out, or wait for the timer after a failure.
Settled(e, now, succeeded, after) ==
  LET rested == [now EXCEPT !.saving = FALSE, !.pending = FALSE]
      retried == [rested EXCEPT !.timer = TRUE]
  IN  IF ~rested.conflict /\ now.pending /\ succeeded THEN Flushed(e, rested, after)
      ELSE /\ editor' = [editor EXCEPT ![e] = IF rested.conflict \/ ~now.pending THEN rested ELSE retried]
           /\ save' = after /\ UNCHANGED asked

-----------------------------------------------------------------------------
(* Users. *)

\* A change of the drawing starts the timer anew, except in a conflict.
Draws(e, graph) ==
  /\ drawings < MaxDrawings /\ drawings' = drawings + 1
  /\ editor' = [editor EXCEPT ![e] =
       [@ EXCEPT !.drawn = graph, !.timer = editor[e].timer \/ ~editor[e].conflict]]
  /\ UNCHANGED <<stored, save, asked, losses, reused>>

AddsNode(e, n) ==
  /\ n \notin used /\ used' = used \cup {n}
  /\ Draws(e, [editor[e].drawn EXCEPT !.nodes[n] = Fresh])

ChangesNode(e, n, v) ==
  /\ n \in Present(editor[e].drawn) /\ v # editor[e].drawn.nodes[n]
  /\ UNCHANGED used
  /\ Draws(e, [editor[e].drawn EXCEPT !.nodes[n] = v])

DeletesNode(e, n) ==
  /\ n \in Present(editor[e].drawn)
  /\ UNCHANGED used
  /\ Draws(e, [nodes |-> [editor[e].drawn.nodes EXCEPT ![n] = "absent"],
               edges |-> editor[e].drawn.edges \ {n}])

Connects(e, n) ==
  /\ n \in Present(editor[e].drawn) \ editor[e].drawn.edges
  /\ UNCHANGED used
  /\ Draws(e, [editor[e].drawn EXCEPT !.edges = @ \cup {n}])

Disconnects(e, n) ==
  /\ n \in editor[e].drawn.edges
  /\ UNCHANGED used
  /\ Draws(e, [editor[e].drawn EXCEPT !.edges = @ \ {n}])

\* Ctrl+S or a new name: the whole graph is sent, whatever is under way.
SavesAll(e) ==
  \E c \in Slots :
    /\ Sending(c, save)
    /\ save' = [save EXCEPT ![c] =
         [stage |-> "sent", by |-> e, kind |-> "post", rev |-> 0,
          from |-> Published, to |-> editor[e].drawn, stale |-> FALSE]]
    /\ editor' = [editor EXCEPT ![e] =
         [@ EXCEPT !.saving = TRUE, !.conflict = FALSE, !.timer = FALSE,
                 !.crossed = editor[e].crossed \/ Busy(e)]]
    /\ UNCHANGED <<stored, used, drawings, losses, reused>>

\* The banner of a conflict: dismiss it and ask for the pipeline.
Reloads(e) ==
  /\ editor[e].conflict /\ editor[e].load = "none"
  /\ editor' = [editor EXCEPT ![e] =
       [@ EXCEPT !.conflict = FALSE, !.load = "sent", !.crossed = editor[e].crossed \/ Busy(e)]]
  /\ UNCHANGED <<stored, save, asked, used, drawings, losses, reused>>

\* A chatbot is reverted to the published version.
RevertsToPublished ==
  \E c \in Slots :
    /\ Sending(c, save)
    /\ save' = [save EXCEPT ![c] = [Unused EXCEPT !.stage = "sent", !.kind = "revert"]]
    /\ UNCHANGED <<stored, editor, used, drawings, losses, reused>>

-----------------------------------------------------------------------------
(* The timer, and the answers. *)

TimerFires(e) ==
  /\ editor[e].timer
  /\ Flushed(e, [editor[e] EXCEPT !.timer = FALSE], save)
  /\ UNCHANGED <<stored, used, drawings, losses, reused>>

\* The editor takes over what the server has, the edges into the drawing as well.
PatchAnswered(c) ==
  LET e == save[c].by IN
  /\ save[c].stage = "answered" /\ save[c].kind = "patch"
  /\ Settled(e, [editor[e] EXCEPT !.rev = save[c].rev, !.known = save[c].to,
                                  !.drawn.edges = save[c].to.edges,
                                  !.stale = FALSE, !.failed = FALSE],
             TRUE, [save EXCEPT ![c] = Unused])
  /\ UNCHANGED <<stored, used, drawings, losses, reused>>

PostAnswered(c) ==
  LET e == save[c].by IN
  /\ save[c].stage = "answered" /\ save[c].kind = "post"
  /\ Settled(e, [editor[e] EXCEPT !.rev = save[c].rev, !.known = save[c].to,
                                  !.stale = FALSE, !.failed = FALSE],
             TRUE, [save EXCEPT ![c] = Unused])
  /\ UNCHANGED <<stored, used, drawings, losses, reused>>

\* 409: the revision of the server is taken over, its graph is not.
PatchRefused(c) ==
  LET e == save[c].by IN
  /\ save[c].stage = "refused"
  /\ Settled(e, [editor[e] EXCEPT !.conflict = TRUE, !.rev = save[c].rev, !.stale = TRUE],
             FALSE, [save EXCEPT ![c] = Unused])
  /\ UNCHANGED <<stored, used, drawings, losses, reused>>

\* The request did not arrive, or its answer does not come back.
SaveLost(c) ==
  LET e == save[c].by IN
  /\ save[c].stage \in {"sent", "answered"} /\ e \in Editors
  /\ losses < MaxLosses /\ losses' = losses + 1
  /\ Settled(e, [editor[e] EXCEPT !.failed = TRUE], FALSE, [save EXCEPT ![c] = Unused])
  /\ UNCHANGED <<stored, used, drawings, reused>>

LoadAnswered(e) ==
  /\ editor[e].load = "answered"
  /\ editor' = [editor EXCEPT ![e] =
       [@ EXCEPT !.rev = editor[e].found.rev, !.known = editor[e].found.graph,
                 !.drawn = editor[e].found.graph, !.load = "none",
                 !.found = Loaded.found,
                 !.stale = FALSE, !.failed = FALSE]]
  /\ UNCHANGED <<stored, save, asked, used, drawings, losses, reused>>

-----------------------------------------------------------------------------
(* The server. *)

\* Mutant: the revision is not compared.
TakesAnyPatch(c) ==
  /\ save[c].stage = "sent" /\ save[c].kind = "patch"
  /\ LET graph == Patched(stored.graph, save[c].from, save[c].to) IN
       /\ stored' = [rev |-> stored.rev + 1, graph |-> graph]
       /\ save' = [save EXCEPT ![c] =
            [@ EXCEPT !.stage = "answered", !.rev = stored.rev + 1, !.to = graph,
                      !.from = Published]]
  /\ UNCHANGED <<editor, asked, used, drawings, losses, reused>>

TakesPatch(c) ==
  /\ save[c].stage = "sent" /\ save[c].kind = "patch"
  /\ IF save[c].rev # stored.rev
     THEN /\ save' = [save EXCEPT ![c] = [@ EXCEPT !.stage = "refused", !.rev = stored.rev]]
          /\ UNCHANGED stored
     ELSE LET graph == Patched(stored.graph, save[c].from, save[c].to) IN
          /\ stored' = [rev |-> stored.rev + 1, graph |-> graph]
          /\ save' = [save EXCEPT ![c] =
               [@ EXCEPT !.stage = "answered", !.rev = stored.rev + 1, !.to = graph,
                         !.from = Published]]
  /\ UNCHANGED <<editor, asked, used, drawings, losses, reused>>

\* A POST or a revert reads the row, without a lock and without looking at its revision.
LoadsRow(c) ==
  /\ save[c].stage = "sent" /\ save[c].kind \in {"post", "revert"}
  /\ save' = [save EXCEPT ![c] = [@ EXCEPT !.stage = "loaded", !.rev = stored.rev]]
  /\ UNCHANGED <<stored, editor, asked, used, drawings, losses, reused>>

SavesRow(c) ==
  /\ save[c].stage = "loaded"
  /\ stored' = [rev |-> save[c].rev + 1, graph |-> save[c].to]
  /\ reused' = (reused \/ save[c].rev # stored.rev)
  /\ save' = [save EXCEPT ![c] =
       IF save[c].by = Nobody THEN Unused ELSE [@ EXCEPT !.stage = "answered", !.rev = save[c].rev + 1]]
  /\ UNCHANGED <<editor, asked, used, drawings, losses>>

ReadsPipeline(e) ==
  /\ editor[e].load = "sent"
  /\ editor' = [editor EXCEPT ![e] = [@ EXCEPT !.load = "answered", !.found = stored]]
  /\ UNCHANGED <<stored, save, asked, used, drawings, losses, reused>>

-----------------------------------------------------------------------------
EditsInit ==
  /\ stored = [rev |-> 0, graph |-> Published]
  /\ editor = [e \in Editors |-> Loaded]
  /\ save = [c \in Slots |-> Unused]
  /\ asked = 0 /\ used = FirstNodes /\ drawings = 0 /\ losses = 0 /\ reused = FALSE

EditorStep(e) ==
  \/ \E n \in Nodes : \/ AddsNode(e, n) \/ (\E v \in Contents : ChangesNode(e, n, v))
                      \/ DeletesNode(e, n) \/ Connects(e, n) \/ Disconnects(e, n)
  \/ SavesAll(e) \/ Reloads(e) \/ TimerFires(e) \/ ReadsPipeline(e) \/ LoadAnswered(e)

SaveStep(c) ==
  \/ TakesPatch(c) \/ LoadsRow(c) \/ SavesRow(c)
  \/ PatchAnswered(c) \/ PostAnswered(c) \/ PatchRefused(c) \/ SaveLost(c)

EditsNext == (\E e \in Editors : EditorStep(e)) \/ (\E c \in Slots : SaveStep(c)) \/ RevertsToPublished
EditsSpec == EditsInit /\ [][EditsNext]_editVars

-----------------------------------------------------------------------------
(* Properties. *)

\* A difference is only applied to the graph it was computed from, so that nobody's change is
\* undone unseen: unless a POST or a revert has overwritten what others saved after it had loaded
\* the row, which uses a revision for two graphs, or the editor was refused and has autosaved
\* before the answer of its reload.
PatchesFit ==
  [][\A c \in Slots :
       /\ save[c].stage = "sent" /\ save[c].kind = "patch" /\ save'[c].stage = "answered"
       /\ ~reused /\ ~save[c].stale
       => save[c].from = stored.graph]_editVars

\* An editor that waits for nothing and says "Saved" draws what the server has answered: changes
\* drawn during a save are neither forgotten by the timer nor by the save they were deferred for,
\* provided the last save did not fail and the requests of the editor did not cross.
QuietIsSaved ==
  \A e \in Editors :
    /\ ~editor[e].timer /\ ~Busy(e) /\ ~editor[e].conflict
    /\ ~editor[e].failed /\ ~editor[e].crossed /\ ~reused
    => editor[e].drawn = editor[e].known

\* The comment of the store: changes deferred during a save go out when it has succeeded.
DeferredEdgesGoOut ==
  [][\A c \in Slots :
       LET e == save[c].by
           deferred == editor[e].drawn.edges \ save[c].to.edges
       IN  /\ save[c].stage = "answered" /\ save'[c] # save[c] /\ save[c].kind = "patch"
           /\ ~editor'[e].failed /\ editor[e].pending /\ deferred # {}
           => asked' > asked /\ \E d \in Slots : save'[d].by = e /\ deferred \subseteq save'[d].to.edges
    ]_editVars
=============================================================================
