------------------------------ MODULE RateLimit ------------------------------
(***************************************************************************)
(* The fixed-window rate limiter of one scope (apps/utils/rate_limit.py):  *)
(* requests that count one or more identities add and increment cache      *)
(* entries that may be lost in between, and keep one result for the headers*)
(* of their response.                                                      *)
(***************************************************************************)
EXTENDS Integers, FiniteSets

CONSTANTS
  Visits,      \* ids of requests
  Identities,  \* identities that are counted
  Limit,       \* the count of the rate
  MaxWindows,  \* bound: windows
  MaxLosses    \* bound: entries the cache loses, or errors of the cache

ASSUME RateBounds ==
  Limit \in Nat \ {0} /\ MaxWindows \in Nat \ {0} /\ MaxLosses \in Nat

VARIABLES
  policy,    \* RATE_LIMIT_ENFORCE, refuse and fail_open
  window,    \* the window of the clock
  entry,     \* cached count of each window and identity
  visit,     \* requests: identities to count, progress, the window they have read, their results
  lost,      \* history: how often each entry was lost
  allowed,   \* history: requests that were counted and allowed, by window and identity
  overLimit,   \* history: and refused
  losses

rateVars == <<policy, window, entry, visit, lost, allowed, overLimit, losses>>

Windows == 1 .. MaxWindows
Absent == -1
PerEntry(value) == [w \in Windows |-> [i \in Identities |-> value]]
NoResult == "none"

RateStart(setting, wanted) ==
  /\ policy = setting
  /\ window = 1
  /\ entry = PerEntry(Absent)
  /\ visit = [v \in Visits |-> [todo |-> wanted[v], pc |-> "idle", at |-> 1,
                                recorded |-> NoResult, denied |-> FALSE]]
  /\ lost = PerEntry(0) /\ allowed = PerEntry(0) /\ overLimit = PerEntry(0)
  /\ losses = 0

\* RATE_LIMIT_ENFORCE and the configuration of the scope, and what requests count.
Policies == [enforce : BOOLEAN, refuse : BOOLEAN, failOpen : BOOLEAN]

RateInit ==
  \E setting \in Policies, wanted \in [Visits -> SUBSET Identities \ {{}}] :
    RateStart(setting, wanted)

FirstOf(todo) == CHOOSE i \in todo : TRUE
Current(v) == FirstOf(visit[v].todo)

-----------------------------------------------------------------------------
\* A refusal stands when over the limit, or when uncounted and the scope fails closed.
RefusesOver(count) == count > Limit /\ policy.enforce /\ policy.refuse
RefusesUncounted == ~policy.failOpen /\ policy.refuse /\ policy.enforce

\* Mutant: the last result is kept.
LastResult(v, isAllowed) == IF isAllowed THEN "allowed" ELSE "refused"

\* count_request: a refusal is not overwritten.
Recorded(v, isAllowed) ==
  IF visit[v].recorded = "refused" THEN "refused" ELSE IF isAllowed THEN "allowed" ELSE "refused"

Answer(v, isAllowed) ==
  visit' = [visit EXCEPT ![v].todo = @ \ {Current(v)},
                         ![v].pc = "idle",
                         ![v].recorded = Recorded(v, isAllowed),
                         ![v].denied = @ \/ ~isAllowed]

\* check reads the clock, then the cache.
ReadClock(v) ==
  /\ visit[v].pc = "idle" /\ visit[v].todo # {}
  /\ visit' = [visit EXCEPT ![v].pc = "adding", ![v].at = window]
  /\ UNCHANGED <<policy, window, entry, lost, allowed, overLimit, losses>>

\* Mutant: an entry that is there is overwritten.
SetEntry(count) == 0

\* cache.add
AddedEntry(count) == IF count = Absent THEN 0 ELSE count

AddEntry(v) ==
  /\ visit[v].pc \in {"adding", "again"}
  /\ entry' = [entry EXCEPT ![visit[v].at][Current(v)] = AddedEntry(@)]
  /\ visit' = [visit EXCEPT ![v].pc = IF @ = "adding" THEN "counting" ELSE "recounting"]
  /\ UNCHANGED <<policy, window, lost, allowed, overLimit, losses>>

\* cache.incr is atomic, and raises when the entry is gone: it is added once more.
Increment(v) ==
  LET w == visit[v].at
      i == Current(v)
      count == entry[w][i] + 1
  IN /\ visit[v].pc \in {"counting", "recounting"} /\ entry[w][i] # Absent
     /\ entry' = [entry EXCEPT ![w][i] = count]
     /\ IF RefusesOver(count)
        THEN overLimit' = [overLimit EXCEPT ![w][i] = @ + 1] /\ UNCHANGED allowed
        ELSE allowed' = [allowed EXCEPT ![w][i] = @ + 1] /\ UNCHANGED overLimit
     /\ Answer(v, ~RefusesOver(count))
     /\ UNCHANGED <<policy, window, lost, losses>>

EntryGone(v) ==
  /\ entry[visit[v].at][Current(v)] = Absent
  /\ \/ /\ visit[v].pc = "counting"
        /\ visit' = [visit EXCEPT ![v].pc = "again"]
     \/ /\ visit[v].pc = "recounting"
        /\ Answer(v, ~RefusesUncounted)
  /\ UNCHANGED <<policy, window, entry, lost, allowed, overLimit, losses>>

\* The cache does not answer, whether or not it has counted: _degraded_result.
CacheFails(v) ==
  LET w == visit[v].at
      i == Current(v)
  IN /\ visit[v].pc # "idle" /\ losses < MaxLosses
     /\ losses' = losses + 1
     /\ \/ UNCHANGED entry
        \/ /\ visit[v].pc \in {"counting", "recounting"} /\ entry[w][i] # Absent
           /\ entry' = [entry EXCEPT ![w][i] = @ + 1]
     /\ Answer(v, ~RefusesUncounted)
     /\ UNCHANGED <<policy, window, lost, allowed, overLimit>>

-----------------------------------------------------------------------------
\* The entry is evicted; its timeout is longer than its window.
LoseEntry(w, i) ==
  /\ entry[w][i] # Absent /\ losses < MaxLosses
  /\ losses' = losses + 1
  /\ entry' = [entry EXCEPT ![w][i] = Absent]
  /\ lost' = [lost EXCEPT ![w][i] = @ + 1]
  /\ UNCHANGED <<policy, window, visit, allowed, overLimit>>

WindowEnds ==
  /\ window < MaxWindows
  /\ window' = window + 1
  /\ UNCHANGED <<policy, entry, visit, lost, allowed, overLimit, losses>>

RateNext ==
  \/ \E v \in Visits :
       ReadClock(v) \/ (visit[v].todo # {} /\ (AddEntry(v) \/ Increment(v) \/ EntryGone(v) \/ CacheFails(v)))
  \/ \E w \in Windows, i \in Identities : LoseEntry(w, i)
  \/ WindowEnds

RateSpec == RateInit /\ [][RateNext]_rateVars

-----------------------------------------------------------------------------
\* While a scope refuses, an identity is allowed no more than the limit in a window,
\* however its requests interleave and though they may still count in a window that
\* has ended, and once more the limit for each time its entry is lost; nobody is
\* refused before the limit is used up, except by requests that the cache has counted
\* without an answer (utils/rate_limit.py:86).
AllowedUpToLimit ==
  \A w \in Windows, i \in Identities :
    /\ policy.enforce /\ policy.refuse => allowed[w][i] <= Limit * (1 + lost[w][i])
    /\ overLimit[w][i] > 0 => allowed[w][i] + losses >= Limit

\* A request that was refused for any of its identities reports a refusal, though
\* others were counted after it (utils/rate_limit.py:226).
RefusalReported ==
  \A v \in Visits : visit[v].denied => visit[v].recorded = "refused"

\* The limit is kept, and its refusals are reported.
LimitIsKept == AllowedUpToLimit /\ RefusalReported
=============================================================================
