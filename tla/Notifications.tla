---------------------------- MODULE Notifications ----------------------------
(***************************************************************************)
(* Notifications of one type of event (apps/ocs_notifications): several    *)
(* are created at once, users open, toggle and mute them, and the number of*)
(* unread ones is cached.                                                  *)
(***************************************************************************)
EXTENDS Integers

CONSTANTS
  Notices,     \* ids of create_notification calls
  Members,       \* members of the team that are to be notified
  MaxClicks    \* bound: toggles and mutes

ASSUME NoticeBound == MaxClicks \in Nat

VARIABLES
  row,      \* EventUser: there is one, it is read, it is muted
  notice,   \* calls: progress and the rows they have fetched
  copy,     \* rows that a toggle has loaded, and what the user had not seen then
  cache,    \* cached number of unread notifications
  count,    \* a number that was counted and not yet cached
  clicks,
  unseen,   \* history: notices a user was not muted for and has not looked at
  aside,    \* history: users who have toggled an old row or muted the event
  early     \* history: users whose number was cached before all was written

noticeVars == <<row, notice, copy, cache, count, clicks, unseen, aside, early>>

NoCount == -1
NoCopy == [made |-> FALSE]

NoticeInit ==
  /\ row = [u \in Members |-> [made |-> FALSE, read |-> FALSE, muted |-> FALSE]]
  /\ notice = [n \in Notices |-> [pc |-> "idle", rows |-> row]]
  /\ copy = [u \in Members |-> NoCopy]
  /\ cache = [u \in Members |-> NoCount] /\ count = cache
  /\ clicks = 0
  /\ unseen = [u \in Members |-> {}]
  /\ aside = {} /\ early = {}

NoticeMoves(n, pc) == notice' = [notice EXCEPT ![n].pc = pc]
Unread(u) == IF row[u].made /\ ~row[u].read THEN 1 ELSE 0

-----------------------------------------------------------------------------
\* create_notification.

CreateEvent(n) ==
  /\ notice[n].pc = "idle"
  /\ NoticeMoves(n, "created")
  /\ unseen' = [u \in Members |-> unseen[u] \union {n}]
  /\ UNCHANGED <<row, copy, cache, count, clicks, aside, early>>

ToInsert(rows) == {u \in Members : ~rows[u].made}

\* Mutant: the row of a user who has been told before is left as it is.
ToldOnce(rows) == {}

\* Read notifications become unread again, unless they are muted.
ToUpdate(rows) == {u \in Members : rows[u].made /\ ~rows[u].muted /\ rows[u].read}

\* Mutant: the number is dropped for new rows alone.
NewRows(rows) == ToInsert(rows)

\* Members whose number will change.
Notified(rows) == ToInsert(rows) \union ToUpdate(rows)

\* The rows are fetched, and the cached numbers dropped before anything is written.
FetchRows(n) ==
  /\ notice[n].pc = "created"
  /\ notice' = [notice EXCEPT ![n] = [pc |-> "fetched", rows |-> row]]
  /\ cache' = [u \in Members |-> IF u \in Notified(row) THEN NoCount ELSE cache[u]]
  /\ unseen' = [u \in Members |-> IF row[u].muted THEN unseen[u] \ {n} ELSE unseen[u]]
  /\ early' = early \union {u \in ToInsert(row) \union ToUpdate(row) : count[u] # NoCount}
  /\ UNCHANGED <<row, copy, count, clicks, aside>>

\* bulk_create: a row that another call has inserted meanwhile makes it fail.
InsertRows(n) ==
  LET new == ToInsert(notice[n].rows)
  IN /\ notice[n].pc = "fetched"
     /\ IF \E u \in new : row[u].made
        THEN NoticeMoves(n, "refused") /\ UNCHANGED <<row, early>>
        ELSE /\ NoticeMoves(n, "inserted")
             /\ row' = [u \in Members |-> IF u \in new THEN [made |-> TRUE, read |-> FALSE, muted |-> FALSE]
                                        ELSE row[u]]
             /\ early' = early \union {u \in new : count[u] # NoCount}
     /\ UNCHANGED <<copy, cache, count, clicks, unseen, aside>>

\* bulk_update
UpdateRows(n) ==
  LET old == ToUpdate(notice[n].rows)
  IN /\ notice[n].pc = "inserted"
     /\ NoticeMoves(n, "done")
     /\ row' = [u \in Members |-> IF u \in old THEN [row[u] EXCEPT !.read = FALSE] ELSE row[u]]
     /\ early' = early \union {u \in old : count[u] # NoCount}
     /\ UNCHANGED <<copy, cache, count, clicks, unseen, aside>>

NoticeDies(n) ==
  /\ notice[n].pc \in {"created", "fetched", "inserted"}
  /\ NoticeMoves(n, "died")
  /\ UNCHANGED <<row, copy, cache, count, clicks, unseen, aside, early>>

-----------------------------------------------------------------------------
\* Users.

\* The page of the event marks it as read and shows all of its notifications.
OpenEvent(u) ==
  /\ row[u].made /\ (~row[u].read \/ unseen[u] # {})
  /\ row' = [row EXCEPT ![u].read = TRUE]
  /\ cache' = [cache EXCEPT ![u] = NoCount]
  /\ early' = IF count[u] # NoCount THEN early \union {u} ELSE early \ {u}
  /\ unseen' = [unseen EXCEPT ![u] = {}]
  /\ UNCHANGED <<notice, copy, count, clicks, aside>>

LoadToggle(u) ==
  /\ row[u].made /\ copy[u] = NoCopy /\ clicks < MaxClicks
  /\ clicks' = clicks + 1
  /\ copy' = [copy EXCEPT ![u] = [made |-> TRUE, row |-> row[u], unseen |-> unseen[u]]]
  /\ UNCHANGED <<row, notice, cache, count, unseen, aside, early>>

\* toggle_notification_read saves the whole row.
SaveToggled(u) ==
  LET old == copy[u].row
  IN /\ copy[u].made
     /\ row' = [row EXCEPT ![u] = [old EXCEPT !.read = ~old.read]]
     /\ cache' = [cache EXCEPT ![u] = NoCount]
     /\ early' = IF count[u] # NoCount THEN early \union {u} ELSE early \ {u}
     /\ unseen' = IF old.read THEN unseen ELSE [unseen EXCEPT ![u] = @ \ copy[u].unseen]
     /\ aside' = IF old # row[u] \/ unseen[u] # copy[u].unseen THEN aside \union {u} ELSE aside
     /\ copy' = [copy EXCEPT ![u] = NoCopy]
     /\ UNCHANGED <<notice, count, clicks>>

\* mute_notification, unmute_notification
MuteEvent(u) ==
  /\ row[u].made /\ clicks < MaxClicks
  /\ clicks' = clicks + 1
  /\ row' = [row EXCEPT ![u].muted = ~@]
  /\ aside' = aside \union {u}
  /\ UNCHANGED <<notice, copy, cache, count, unseen, early>>

\* The number of unread notifications is counted when it is not cached, ...
CountUnread(u) ==
  /\ cache[u] = NoCount /\ count[u] = NoCount
  /\ count' = [count EXCEPT ![u] = Unread(u)]
  /\ early' = IF \E n \in Notices : /\ notice[n].pc \in {"fetched", "inserted"}
                                    /\ u \in ToInsert(notice[n].rows) \union ToUpdate(notice[n].rows)
              THEN early \union {u} ELSE early
  /\ UNCHANGED <<row, notice, copy, cache, clicks, unseen, aside>>

\* ... and cached.
CacheCount(u) ==
  /\ count[u] # NoCount
  /\ cache' = [cache EXCEPT ![u] = count[u]]
  /\ count' = [count EXCEPT ![u] = NoCount]
  /\ UNCHANGED <<row, notice, copy, clicks, unseen, aside, early>>

\* After five minutes.
CacheExpires(u) ==
  /\ cache[u] # NoCount
  /\ cache' = [cache EXCEPT ![u] = NoCount]
  /\ early' = IF count[u] # NoCount THEN early ELSE early \ {u}
  /\ UNCHANGED <<row, notice, copy, count, clicks, unseen, aside>>

NoticeNext ==
  \/ \E n \in Notices :
       \/ CreateEvent(n) \/ FetchRows(n) \/ InsertRows(n) \/ UpdateRows(n) \/ NoticeDies(n)
  \/ \E u \in Members :
       \/ OpenEvent(u) \/ LoadToggle(u) \/ SaveToggled(u) \/ MuteEvent(u)
       \/ CountUnread(u) \/ CacheCount(u) \/ CacheExpires(u)

NoticeSpec == NoticeInit /\ [][NoticeNext]_noticeVars

-----------------------------------------------------------------------------
\* Everybody is told of every notification: when all calls are over, what a user has
\* not looked at is unread, also when calls insert the same rows, one of them is
\* refused, or the user opens the event meanwhile; except for a call that has died,
\* and users who have muted the event or toggled an old row
\* (ocs_notifications/utils.py:115).
EverybodyIsTold ==
  (\A n \in Notices : notice[n].pc \in {"idle", "done", "refused"}) =>
    \A u \in Members \ aside : unseen[u] # {} => row[u].made /\ ~row[u].read

\* The cached number is that of the rows, unless it was counted before a call or a
\* click had written all (ocs_notifications/utils.py:128).
CachedCountIsRight ==
  \A u \in Members \ early : cache[u] \in {NoCount, Unread(u)}

\* Users learn of every notification, from the rows and from the number.
NoticesArrive == EverybodyIsTold /\ CachedCountIsRight
=============================================================================
