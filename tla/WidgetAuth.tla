------------------------------ MODULE WidgetAuth ------------------------------
(***************************************************************************)
(* How the level of authentication that an embedded widget channel requires*)
(* is raised when its widget is upgraded (apps/channels): a beat task tells*)
(* the team, waits for the grace period and raises the level, while        *)
(* widgets report versions and a form saves the channel.                   *)
(***************************************************************************)
EXTENDS Integers

CONSTANTS
  Ratchets,    \* ids of ratchet_widget_auth_levels tasks
  MaxReports,  \* bound: changes of the reported version
  MaxForms     \* bound: saves of the form of the channel

ASSUME RatchetBounds == MaxReports \in Nat /\ MaxForms \in Nat

VARIABLES
  channel,  \* widget_version, required and pending level, age of auth_level_notified_at
  ratchet,  \* tasks: progress, the row they have loaded and the level they announce
  edit,     \* the row a form has loaded
  due,      \* history: levels the team was told of, a grace period ago
  told,     \* history: levels it was told of
  withdrawn,  \* history: a raise was abandoned while another task was about to apply it
  reports, formSaves

widgetVars == <<channel, ratchet, edit, due, told, withdrawn, reports, formSaves>>

WidgetAuthLevel == 0 .. 2
NotPending == -1
NoRow == [version |-> "none"]
WidgetVersions == {"never", "unknown", "0.5.1", "0.9.0"}

\* level_for_version
LevelForVersion(version) ==
  CASE version = "unknown" -> 0
    [] version = "0.5.1" -> 1
    [] version \in {"never", "0.9.0"} -> 2

WidgetStart(version, level) ==
  /\ channel = [version |-> version, level |-> level, pending |-> NotPending, notified |-> "no"]
  /\ ratchet = [k \in Ratchets |-> [pc |-> "idle", row |-> NoRow, target |-> 0]]
  /\ edit = NoRow
  /\ due = {} /\ told = {} /\ withdrawn = FALSE
  /\ reports = 0 /\ formSaves = 0

\* Channels start at the level of their version, new ones at the highest.
WidgetInit ==
  \E version \in WidgetVersions :
    \E level \in {LevelForVersion(version), 2} : WidgetStart(version, level)

RatchetMoves(k, pc) == ratchet' = [ratchet EXCEPT ![k].pc = pc]

-----------------------------------------------------------------------------
\* The task.

LoadChannel(k) ==
  /\ ratchet[k].pc = "idle"
  /\ ratchet' = [ratchet EXCEPT ![k].pc = "loaded", ![k].row = channel,
                                ![k].target = LevelForVersion(channel.version)]
  /\ UNCHANGED <<channel, edit, due, told, withdrawn, reports, formSaves>>

\* Mutant: any change of the level is announced.
Differs(target, row) == target # row.level

\* The widget satisfies more than is required.
Upgraded(target, row) == target > row.level

\* Nothing is pending and the widget was upgraded: the team will be told.
DecideToTell(k) ==
  /\ ratchet[k].pc = "loaded" /\ ratchet[k].row.notified = "no"
  /\ RatchetMoves(k, IF Upgraded(ratchet[k].target, ratchet[k].row) THEN "telling" ELSE "done")
  /\ UNCHANGED <<channel, edit, due, told, withdrawn, reports, formSaves>>

\* The level becomes pending only when the team was told; a failure is retried by a
\* later task.
Tell(k, notified) ==
  /\ ratchet[k].pc = "telling"
  /\ IF notified
     THEN /\ channel' = [channel EXCEPT !.pending = ratchet[k].target, !.notified = "fresh"]
          /\ told' = told \union {ratchet[k].target}
     ELSE UNCHANGED <<channel, told>>
  /\ RatchetMoves(k, "done")
  /\ UNCHANGED <<edit, due, withdrawn, reports, formSaves>>

\* A task has loaded a row whose grace period is over.
AboutToApply(k) == ratchet[k].pc = "loaded" /\ ratchet[k].row.notified = "due"

\* _clear_pending_auth_level: the widget was downgraded below the pending level.
AbandonRaise(k) ==
  /\ ratchet[k].pc = "loaded" /\ ratchet[k].row.notified # "no"
  /\ ratchet[k].target < ratchet[k].row.pending
  /\ channel' = [channel EXCEPT !.pending = NotPending, !.notified = "no"]
  /\ withdrawn' = (withdrawn \/ \E i \in Ratchets \ {k} : AboutToApply(i))
  /\ RatchetMoves(k, "done")
  /\ UNCHANGED <<edit, due, told, reports, formSaves>>

\* Mutant: the level the widget has now.
LevelOfWidget(k) == ratchet[k].target

\* What was announced.
RaisedLevel(k) == ratchet[k].row.pending

\* The grace period is over.
ApplyRaise(k) ==
  /\ AboutToApply(k)
  /\ ratchet[k].target >= ratchet[k].row.pending
  /\ channel' = [channel EXCEPT !.level = RaisedLevel(k), !.pending = NotPending,
                                !.notified = "no"]
  /\ RatchetMoves(k, "done")
  /\ UNCHANGED <<edit, due, told, withdrawn, reports, formSaves>>

\* It is not over, or the task dies.
RatchetStops(k) ==
  /\ ratchet[k].pc \in {"loaded", "telling"}
  /\ RatchetMoves(k, "done")
  /\ UNCHANGED <<channel, edit, due, told, withdrawn, reports, formSaves>>

-----------------------------------------------------------------------------
\* What happens around it.

\* Two weeks pass: tasks of the time before are over.
GracePasses ==
  /\ told # due
  /\ \A k \in Ratchets : ratchet[k].pc \in {"idle", "done"}
  /\ due' = told
  /\ channel' = [channel EXCEPT !.notified = IF @ = "fresh" THEN "due" ELSE @]
  /\ UNCHANGED <<ratchet, edit, told, withdrawn, reports, formSaves>>

\* record_widget_version: no header does not overwrite a version.
ReportVersion(version) ==
  /\ reports < MaxReports /\ reports' = reports + 1
  /\ version \in WidgetVersions \ {"never", channel.version}
  /\ version = "unknown" => channel.version = "never"
  /\ channel' = [channel EXCEPT !.version = version]
  /\ UNCHANGED <<ratchet, edit, due, told, withdrawn, formSaves>>

\* ChannelForm.save saves the whole row.
LoadForm ==
  /\ edit = NoRow /\ formSaves < MaxForms
  /\ edit' = channel
  /\ UNCHANGED <<channel, ratchet, due, told, withdrawn, reports, formSaves>>

SaveForm ==
  /\ edit # NoRow
  /\ channel' = edit /\ edit' = NoRow
  /\ formSaves' = formSaves + 1
  /\ UNCHANGED <<ratchet, due, told, withdrawn, reports>>

WidgetNext ==
  \/ \E k \in Ratchets :
       \/ LoadChannel(k) \/ DecideToTell(k) \/ (\E notified \in BOOLEAN : Tell(k, notified))
       \/ AbandonRaise(k) \/ ApplyRaise(k) \/ RatchetStops(k)
  \/ GracePasses \/ LoadForm \/ SaveForm
  \/ \E version \in WidgetVersions : ReportVersion(version)

WidgetSpec == WidgetInit /\ [][WidgetNext]_widgetVars

-----------------------------------------------------------------------------
RaisedAsAnnounced == channel'.level > channel.level => channel'.level \in due
NeverLowered == formSaves' = 0 /\ ~withdrawn' => channel'.level >= channel.level

\* The required level is raised only to one the team was told of, a grace period
\* ago, also when the widget is upgraded again meanwhile, a raise is abandoned or a
\* task works on an old copy of the channel.  It is never lowered, unless the form
\* saved an old copy of the channel, or a raise was abandoned while another task was
\* about to apply it (channels/tasks.py:308).
LevelRatchets == [][RaisedAsAnnounced /\ NeverLowered]_widgetVars
=============================================================================
