--------------------------- MODULE ChatbotProofs ---------------------------
(***************************************************************************)
(* A chatbot, for any numbers of triggers, operations, editors and         *)
(* requests: its timeout and static triggers act as often as they should   *)
(* and compose without disturbing each other, its versions are kept        *)
(* whatever operations and forms overlap, and what is drawn in the editors *)
(* of its pipeline is saved, and nobody's change undone unseen.  The build *)
(* of a pipeline decides what it should about every graph, and in a run of *)
(* one it accepts the nodes find the inputs routed to them and reach End.  *)
(***************************************************************************)
EXTENDS EventTriggers, ChatbotVersions, PipelineEdits, PipelineRun,
        FiniteSetTheorems, SequenceTheorems, WellFoundedInduction, TLAPS

-----------------------------------------------------------------------------
(* Timeout and static triggers: counts.                                    *)

PerMessage == [Timeouts -> [SessionMessages -> Nat]]

TimeoutTyped ==
  /\ humans \in 0 .. MaxHumans
  /\ success \in PerMessage /\ failure \in PerMessage
  /\ running \in PerMessage /\ logged \in PerMessage /\ lasts \in PerMessage
  /\ allSuccess \in [SessionMessages -> Nat] /\ allFailure \in [SessionMessages -> Nat]
  /\ queued \in [Timeouts -> Nat] /\ extra \in [Timeouts -> Nat]
  /\ open \in BOOLEAN /\ kills \in Nat

\* A task that waits may still act for the message its trigger counts from now, or a
\* later one.
Waiting(t, m) == IF m >= Reference(t) THEN queued[t] ELSE 0
Tasks(t, m) == running[t][m] + logged[t][m] + Waiting(t, m)

\* What holds of one trigger and one message: it has not acted for a message that it
\* does not count from yet, its logs are among those of the message, its attempts
\* include those that wait, and each of its outstanding tasks can raise the last
\* timeout.
PairInv(t, m) ==
  /\ m > Reference(t) =>
       success[t][m] = 0 /\ failure[t][m] = 0 /\ running[t][m] = 0 /\ logged[t][m] = 0
  /\ success[t][m] <= allSuccess[m] /\ failure[t][m] <= allFailure[m]
  /\ success[t][m] + running[t][m] + Waiting(t, m) <= Total + extra[t]
  /\ Tasks(t, m) <= 1 + extra[t]
  /\ Exhausted(t, m) => lasts[t][m] + Tasks(t, m) <= 1 + extra[t]
  /\ ~Exhausted(t, m) => lasts[t][m] = 0
  /\ kills = 0 /\ Exhausted(t, m) => lasts[t][m] > 0 \/ logged[t][m] > 0

PairsInv == \A t \in Timeouts, m \in SessionMessages : PairInv(t, m)

\* Only a session with messages is enqueued.
QueuedAfterMessage == \A t \in Timeouts : queued[t] > 0 => humans > 0

TimeoutInv == TimeoutTyped /\ QueuedAfterMessage /\ PairsInv
StaticInv == StaticTypeOK /\ EveryRaiseFires
EventInv == TimeoutInv /\ StaticInv

-----------------------------------------------------------------------------
(* Tables of counts.                                                       *)

\* The new table g is f with n at one place.
Places(f, g, t, m, n) ==
  /\ g \in PerMessage
  /\ g[t][m] = n
  /\ \A u \in Timeouts, k \in SessionMessages : <<u, k>> # <<t, m>> => g[u][k] = f[u][k]

LEMMA Placed ==
  ASSUME NEW f \in PerMessage, NEW g, NEW t \in Timeouts, NEW m \in SessionMessages,
         NEW n \in Nat, g = [f EXCEPT ![t][m] = n]
  PROVE  Places(f, g, t, m, n)
BY DEF PerMessage, Places

LEMMA CountedUp ==
  ASSUME NEW f \in PerMessage, NEW g, NEW t \in Timeouts, NEW m \in SessionMessages,
         g = [f EXCEPT ![t][m] = f[t][m] + 1]
  PROVE  Places(f, g, t, m, f[t][m] + 1) /\ f[t][m] \in Nat
<1>1. f[t][m] \in Nat BY DEF PerMessage
<1>2. f[t][m] + 1 \in Nat BY <1>1
<1> QED BY <1>1, <1>2, Placed

LEMMA CountedDown ==
  ASSUME NEW f \in PerMessage, NEW g, NEW t \in Timeouts, NEW m \in SessionMessages,
         f[t][m] > 0, g = [f EXCEPT ![t][m] = f[t][m] - 1]
  PROVE  Places(f, g, t, m, f[t][m] - 1) /\ f[t][m] \in Nat
<1>1. f[t][m] \in Nat /\ f[t][m] - 1 \in Nat BY DEF PerMessage
<1> QED BY <1>1, Placed

\* The counts of one trigger and message are numbers.
LEMMA PairTyped ==
  ASSUME TimeoutTyped, NEW t \in Timeouts, NEW m \in SessionMessages
  PROVE  /\ success[t][m] \in Nat /\ failure[t][m] \in Nat
         /\ running[t][m] \in Nat /\ logged[t][m] \in Nat /\ lasts[t][m] \in Nat
         /\ allSuccess[m] \in Nat /\ allFailure[m] \in Nat
         /\ queued[t] \in Nat /\ extra[t] \in Nat
         /\ m \in Nat /\ humans \in Nat /\ Reference(t) \in Nat /\ kills \in Nat
         /\ Total \in Nat /\ TotalFailures \in Nat /\ Total > 0 /\ TotalFailures > 0
         /\ Waiting(t, m) \in Nat
BY TimeoutCounts DEF TimeoutTyped, PerMessage, SessionMessages, Reference, Waiting

LEMMA TimeoutInitInv == TimeoutInit => TimeoutInv
<1> SUFFICES ASSUME TimeoutInit PROVE TimeoutInv OBVIOUS
<1>1. NoCounts \in PerMessage BY DEF NoCounts, PerMessage
<1>2. TimeoutTyped
  BY <1>1, TimeoutCounts DEF TimeoutInit, TimeoutTyped
<1>3. QueuedAfterMessage BY DEF TimeoutInit, QueuedAfterMessage
<1>4. ASSUME NEW t \in Timeouts, NEW m \in SessionMessages PROVE PairInv(t, m)
  <2>1. /\ success[t][m] = 0 /\ failure[t][m] = 0 /\ running[t][m] = 0 /\ logged[t][m] = 0
        /\ lasts[t][m] = 0 /\ allSuccess[m] = 0 /\ allFailure[m] = 0
        /\ queued[t] = 0 /\ extra[t] = 0
    BY DEF TimeoutInit, NoCounts
  <2>2. Waiting(t, m) = 0 BY <2>1 DEF Waiting
  <2>3. ~Exhausted(t, m) BY <2>1, TimeoutCounts DEF Exhausted, AttemptsLeft
  <2> QED BY <2>1, <2>2, <2>3, TimeoutCounts DEF PairInv, Tasks
<1> QED BY <1>2, <1>3, <1>4 DEF TimeoutInv, PairsInv

-----------------------------------------------------------------------------
(* One step of a timeout trigger.                                          *)

\* A trigger is enqueued: it has attempts left, or its task was outstanding.
LEMMA PollStep ==
  ASSUME TimeoutInv, NEW t \in Timeouts, Poll(t) PROVE TimeoutInv'
<1>0. TimeoutTyped BY DEF TimeoutInv
<1>1. /\ queued' \in [Timeouts -> Nat] /\ queued'[t] = queued[t] + 1
      /\ \A u \in Timeouts \ {t} : queued'[u] = queued[u]
  BY <1>0 DEF Poll, TimeoutTyped
<1>2. /\ extra' \in [Timeouts -> Nat]
      /\ extra'[t] = (IF Outstanding(t) THEN extra[t] + 1 ELSE extra[t])
      /\ \A u \in Timeouts \ {t} : extra'[u] = extra[u]
  BY <1>0 DEF Poll, TimeoutTyped
<1>3. UNCHANGED <<humans, logVars, running, logged, open, lasts, kills>> BY DEF Poll
<1>4. TimeoutTyped' BY <1>0, <1>1, <1>2, <1>3 DEF TimeoutTyped, logVars
<1>5. QueuedAfterMessage'
  BY <1>1, <1>3 DEF TimeoutInv, QueuedAfterMessage, Poll, TimedOut
<1>6. ASSUME NEW u \in Timeouts, NEW k \in SessionMessages PROVE PairInv(u, k)'
  <2>1. PairInv(u, k) BY DEF TimeoutInv, PairsInv
  <2>2. CASE u # t
    BY <1>1, <1>2, <1>3, <2>1, <2>2
       DEF PairInv, Waiting, Tasks, Reference, Exhausted, AttemptsLeft, logVars
  <2>3. CASE u = t /\ Outstanding(t)
    BY <1>0, <1>1, <1>2, <1>3, <2>1, <2>3, PairTyped
       DEF PairInv, Waiting, Tasks, Reference, Exhausted, AttemptsLeft, logVars
  <2>4. CASE u = t /\ ~Outstanding(t)
    <3>1. queued[t] = 0 /\ running[t][k] = 0 /\ logged[t][k] = 0
      BY <1>0, <2>4, PairTyped DEF Outstanding
    <3>2. k >= Reference(t) => ~Exhausted(t, k)
      <4>1. CASE k = Reference(t)
        <5>1. AttemptsLeft(allSuccess[k], allFailure[k]) BY <4>1 DEF Poll, TimedOut
        <5> QED BY <1>0, <2>1, <2>4, <5>1, PairTyped DEF Exhausted, AttemptsLeft, PairInv
      <4>2. CASE k > Reference(t)
        BY <1>0, <2>1, <2>4, <4>2, PairTyped DEF Exhausted, AttemptsLeft, PairInv
      <4> QED BY <1>0, <4>1, <4>2, PairTyped
    <3>3. extra'[t] = extra[t] BY <1>2, <2>4
    <3> QED BY <1>0, <1>1, <1>3, <2>1, <2>4, <3>1, <3>2, <3>3, PairTyped
            DEF PairInv, Waiting, Tasks, Reference, Exhausted, AttemptsLeft, logVars
  <2> QED BY <2>2, <2>3, <2>4
<1> QED BY <1>4, <1>5, <1>6 DEF TimeoutInv, PairsInv

\* A waiting task starts, for the message its trigger counts from now.
LEMMA StartFireStep ==
  ASSUME TimeoutInv, NEW t \in Timeouts, StartFire(t) PROVE TimeoutInv'
<1> DEFINE m == Reference(t)
<1>0. TimeoutTyped BY DEF TimeoutInv
<1>1. m \in SessionMessages
  <2>1. humans > 0 /\ humans \in 0 .. MaxHumans /\ MaxHumans \in Nat
    BY <1>0, TimeoutCounts DEF StartFire, TimeoutInv, QueuedAfterMessage, TimeoutTyped
  <2>2. 1 \in SessionMessages /\ humans \in SessionMessages BY <2>1 DEF SessionMessages
  <2> QED BY <2>2 DEF Reference
<1>2. /\ queued' \in [Timeouts -> Nat] /\ queued'[t] = queued[t] - 1 /\ queued[t] > 0
      /\ \A u \in Timeouts \ {t} : queued'[u] = queued[u]
  BY <1>0 DEF StartFire, TimeoutTyped
<1>3. running' = [running EXCEPT ![t][m] = running[t][m] + 1] BY Zenon DEF StartFire
<1>4. Places(running, running', t, m, running[t][m] + 1)
  <2>1. running \in PerMessage BY <1>0 DEF TimeoutTyped
  <2> HIDE DEF m
  <2> QED BY <1>1, <1>3, <2>1, CountedUp
<1>5. UNCHANGED <<humans, logVars, logged, open, extra, lasts, kills>> BY DEF StartFire
<1>6. TimeoutTyped' BY <1>0, <1>2, <1>4, <1>5 DEF TimeoutTyped, logVars, Places
<1>7. QueuedAfterMessage'
  BY <1>0, <1>2, <1>5 DEF TimeoutInv, QueuedAfterMessage, TimeoutTyped
<1>8. ASSUME NEW u \in Timeouts, NEW k \in SessionMessages PROVE PairInv(u, k)'
  <2>1. PairInv(u, k) BY DEF TimeoutInv, PairsInv
  <2>2. CASE u # t
    <3>1. running'[u][k] = running[u][k] BY <1>4, <2>2 DEF Places
    <3> QED BY <1>2, <1>5, <2>1, <2>2, <3>1
            DEF PairInv, Waiting, Tasks, Reference, Exhausted, AttemptsLeft, logVars
  <2>3. CASE u = t /\ k # m
    <3>1. running'[u][k] = running[u][k] BY <1>4, <2>3 DEF Places
    <3> QED BY <1>0, <1>2, <1>5, <2>1, <2>3, <3>1, PairTyped
            DEF PairInv, Waiting, Tasks, Reference, Exhausted, AttemptsLeft, logVars
  <2>4. CASE u = t /\ k = m
    <3>1. running'[u][k] = running[u][k] + 1 BY <1>4, <2>4 DEF Places
    <3>2. UNCHANGED Reference(u) BY <1>5 DEF Reference
    <3>3. Waiting(u, k) = queued[u] /\ Waiting(u, k)' = queued[u] - 1
      BY <1>0, <1>2, <2>4, <3>2, PairTyped DEF Waiting
    <3>4. Exhausted(u, k)' = Exhausted(u, k)
      BY <1>5 DEF Exhausted, AttemptsLeft, logVars
    <3>5. Tasks(u, k)' = Tasks(u, k)
      BY <1>0, <1>2, <1>5, <2>4, <3>1, <3>3, PairTyped DEF Tasks
    <3>6. ~(k > Reference(u)) BY <1>0, <2>4, PairTyped
    <3>7. /\ success'[u][k] = success[u][k] /\ failure'[u][k] = failure[u][k]
          /\ logged'[u][k] = logged[u][k] /\ lasts'[u][k] = lasts[u][k]
          /\ extra'[u] = extra[u] /\ kills' = kills
          /\ allSuccess'[k] = allSuccess[k] /\ allFailure'[k] = allFailure[k]
      BY <1>5 DEF logVars
    <3> HIDE DEF m
    <3> QED BY <1>0, <2>1, <3>1, <3>2, <3>3, <3>4, <3>5, <3>6, <3>7, PairTyped DEF PairInv
  <2> QED BY <2>2, <2>3, <2>4
<1> QED BY <1>6, <1>7, <1>8 DEF TimeoutInv, PairsInv

\* An action is logged: its task turns from one that runs to one that has logged.
LEMMA LogFireStep ==
  ASSUME TimeoutInv, NEW t \in Timeouts, NEW m \in SessionMessages,
         NEW ok \in BOOLEAN, NEW ends \in BOOLEAN, LogFire(t, m, ok, ends)
  PROVE  TimeoutInv'
<1>0. TimeoutTyped BY DEF TimeoutInv
<1>1. Places(running, running', t, m, running[t][m] - 1) /\ running[t][m] > 0
  <2>1. running' = [running EXCEPT ![t][m] = running[t][m] - 1] /\ running[t][m] > 0
    BY DEF LogFire
  <2> QED BY <1>0, <2>1, CountedDown DEF TimeoutTyped
<1>2. Places(logged, logged', t, m, logged[t][m] + 1)
  <2>1. logged' = [logged EXCEPT ![t][m] = logged[t][m] + 1] BY DEF LogFire
  <2> QED BY <1>0, <2>1, CountedUp DEF TimeoutTyped
<1>3. UNCHANGED <<humans, queued, extra, lasts, kills>> /\ open' \in BOOLEAN
  BY <1>0 DEF LogFire, TimeoutTyped
<1>4. \/ /\ Places(success, success', t, m, success[t][m] + 1)
         /\ allSuccess' \in [SessionMessages -> Nat] /\ allSuccess'[m] = allSuccess[m] + 1
         /\ \A k \in SessionMessages \ {m} : allSuccess'[k] = allSuccess[k]
         /\ UNCHANGED <<failure, allFailure>>
      \/ /\ Places(failure, failure', t, m, failure[t][m] + 1)
         /\ allFailure' \in [SessionMessages -> Nat] /\ allFailure'[m] = allFailure[m] + 1
         /\ \A k \in SessionMessages \ {m} : allFailure'[k] = allFailure[k]
         /\ UNCHANGED <<success, allSuccess>>
  <2>1. CASE ok
    <3>1. /\ success' = [success EXCEPT ![t][m] = success[t][m] + 1]
          /\ allSuccess' = [allSuccess EXCEPT ![m] = allSuccess[m] + 1]
          /\ UNCHANGED <<failure, allFailure>>
      BY <2>1 DEF LogFire
    <3>2. Places(success, success', t, m, success[t][m] + 1)
      BY <1>0, <3>1, CountedUp DEF TimeoutTyped
    <3> QED BY <1>0, <3>1, <3>2 DEF TimeoutTyped
  <2>2. CASE ~ok
    <3>1. /\ failure' = [failure EXCEPT ![t][m] = failure[t][m] + 1]
          /\ allFailure' = [allFailure EXCEPT ![m] = allFailure[m] + 1]
          /\ UNCHANGED <<success, allSuccess>>
      BY <2>2 DEF LogFire
    <3>2. Places(failure, failure', t, m, failure[t][m] + 1)
      BY <1>0, <3>1, CountedUp DEF TimeoutTyped
    <3> QED BY <1>0, <3>1, <3>2 DEF TimeoutTyped
  <2> QED BY <2>1, <2>2
<1>5. TimeoutTyped'
  BY <1>0, <1>1, <1>2, <1>3, <1>4 DEF TimeoutTyped, Places
<1>6. QueuedAfterMessage' BY <1>3 DEF TimeoutInv, QueuedAfterMessage
<1>7. ASSUME NEW u \in Timeouts, NEW k \in SessionMessages PROVE PairInv(u, k)'
  <2>1. PairInv(u, k) /\ PairInv(t, m) BY DEF TimeoutInv, PairsInv
  <2>2. CASE <<u, k>> # <<t, m>>
    <3>1. /\ running'[u][k] = running[u][k] /\ logged'[u][k] = logged[u][k]
          /\ success'[u][k] = success[u][k] /\ failure'[u][k] = failure[u][k]
      BY <1>1, <1>2, <1>4, <2>2 DEF Places
    <3>2. allSuccess'[k] >= allSuccess[k] /\ allFailure'[k] >= allFailure[k]
      BY <1>0, <1>4, PairTyped
    <3>3. success[u][k] <= allSuccess'[k] /\ failure[u][k] <= allFailure'[k]
      <4>1. allSuccess'[k] \in Nat /\ allFailure'[k] \in Nat BY <1>5 DEF TimeoutTyped
      <4> QED BY <1>0, <2>1, <3>2, <4>1, PairTyped DEF PairInv
    <3> QED BY <1>3, <2>1, <3>1, <3>3
            DEF PairInv, Waiting, Tasks, Reference, Exhausted, AttemptsLeft
  <2>3. CASE u = t /\ k = m
    <3>1. /\ running'[t][m] = running[t][m] - 1 /\ running[t][m] > 0
          /\ logged'[t][m] = logged[t][m] + 1
      BY <1>1, <1>2 DEF Places
    <3>2. \/ /\ success'[t][m] = success[t][m] + 1 /\ allSuccess'[m] = allSuccess[m] + 1
             /\ failure'[t][m] = failure[t][m] /\ allFailure'[m] = allFailure[m]
          \/ /\ failure'[t][m] = failure[t][m] + 1 /\ allFailure'[m] = allFailure[m] + 1
             /\ success'[t][m] = success[t][m] /\ allSuccess'[m] = allSuccess[m]
      BY <1>4 DEF Places
    <3>3. Exhausted(t, m) => Exhausted(t, m)'
      BY <1>0, <3>2, PairTyped DEF Exhausted, AttemptsLeft
    <3>4. Waiting(t, m)' = Waiting(t, m) BY <1>3 DEF Waiting, Reference
    <3> HIDE DEF Waiting, Exhausted
    <3>5. Tasks(t, m)' = Tasks(t, m) BY <1>0, <3>1, <3>4, PairTyped DEF Tasks
    <3>6. lasts'[t][m] = lasts[t][m] /\ extra'[t] = extra[t] BY <1>3
    <3>7. m <= Reference(t) /\ UNCHANGED Reference(t)
      BY <1>0, <1>3, <2>1, <3>1, PairTyped DEF PairInv, Reference
    <3>8. Tasks(t, m) \in Nat BY <1>0, PairTyped DEF Tasks
    <3> QED BY <1>0, <2>1, <2>3, <3>1, <3>2, <3>3, <3>4, <3>5, <3>6, <3>7, <3>8, PairTyped
            DEF PairInv
  <2> QED BY <2>2, <2>3
<1> QED BY <1>5, <1>6, <1>7 DEF TimeoutInv, PairsInv

\* A task that has logged ends, and raises the last timeout if no attempt is left.
LEMMA CheckFireStep ==
  ASSUME TimeoutInv, NEW t \in Timeouts, NEW m \in SessionMessages, CheckFire(t, m)
  PROVE  TimeoutInv'
<1>0. TimeoutTyped BY DEF TimeoutInv
<1>1. Places(logged, logged', t, m, logged[t][m] - 1) /\ logged[t][m] > 0
  <2>1. logged' = [logged EXCEPT ![t][m] = logged[t][m] - 1] /\ logged[t][m] > 0
    BY DEF CheckFire
  <2> QED BY <1>0, <2>1, CountedDown DEF TimeoutTyped
<1>2. IF Exhausted(t, m) THEN Places(lasts, lasts', t, m, lasts[t][m] + 1) ELSE UNCHANGED lasts
  <2>1. CASE Exhausted(t, m)
    <3>1. lasts' = [lasts EXCEPT ![t][m] = lasts[t][m] + 1] BY <2>1 DEF CheckFire
    <3> QED BY <1>0, <2>1, <3>1, CountedUp DEF TimeoutTyped
  <2> QED BY <2>1 DEF CheckFire
<1>3. UNCHANGED <<humans, logVars, queued, running, open, extra, kills>> BY DEF CheckFire
<1>4. TimeoutTyped' BY <1>0, <1>1, <1>2, <1>3 DEF TimeoutTyped, logVars, Places
<1>5. QueuedAfterMessage' BY <1>3 DEF TimeoutInv, QueuedAfterMessage
<1>6. ASSUME NEW u \in Timeouts, NEW k \in SessionMessages PROVE PairInv(u, k)'
  <2>1. PairInv(u, k) BY DEF TimeoutInv, PairsInv
  <2>2. Exhausted(u, k)' = Exhausted(u, k) BY <1>3 DEF Exhausted, AttemptsLeft, logVars
  <2>3. Waiting(u, k)' = Waiting(u, k) BY <1>3 DEF Waiting, Reference
  <2>4. UNCHANGED Reference(u) BY <1>3 DEF Reference
  <2>5. /\ success'[u][k] = success[u][k] /\ failure'[u][k] = failure[u][k]
        /\ running'[u][k] = running[u][k] /\ extra'[u] = extra[u] /\ kills' = kills
        /\ allSuccess'[k] = allSuccess[k] /\ allFailure'[k] = allFailure[k]
    BY <1>3 DEF logVars
  <2>6. CASE <<u, k>> # <<t, m>>
    <3>1. logged'[u][k] = logged[u][k] /\ lasts'[u][k] = lasts[u][k]
      BY <1>1, <1>2, <2>6 DEF Places
    <3> QED BY <2>1, <2>2, <2>3, <2>4, <2>5, <3>1 DEF PairInv, Tasks
  <2>7. CASE u = t /\ k = m
    <3>1. logged'[u][k] = logged[u][k] - 1 /\ logged[u][k] > 0 BY <1>1, <2>7 DEF Places
    <3>2. IF Exhausted(u, k) THEN lasts'[u][k] = lasts[u][k] + 1
          ELSE lasts'[u][k] = lasts[u][k]
      BY <1>2, <2>7 DEF Places
    <3> QED BY <1>0, <2>1, <2>2, <2>3, <2>4, <2>5, <3>1, <3>2, PairTyped DEF PairInv, Tasks
  <2> QED BY <2>6, <2>7
<1> QED BY <1>4, <1>5, <1>6 DEF TimeoutInv, PairsInv

\* A task is lost.
LEMMA KillFireStep ==
  ASSUME TimeoutInv, NEW t \in Timeouts, NEW m \in SessionMessages, KillFire(t, m)
  PROVE  TimeoutInv'
<1>0. TimeoutTyped BY DEF TimeoutInv
<1>1. \/ /\ Places(running, running', t, m, running[t][m] - 1) /\ running[t][m] > 0
         /\ UNCHANGED logged
      \/ /\ Places(logged, logged', t, m, logged[t][m] - 1) /\ logged[t][m] > 0
         /\ UNCHANGED running
  <2>1. CASE /\ running[t][m] > 0 /\ UNCHANGED logged
             /\ running' = [running EXCEPT ![t][m] = running[t][m] - 1]
    BY <1>0, <2>1, CountedDown DEF TimeoutTyped
  <2>2. CASE /\ logged[t][m] > 0 /\ UNCHANGED running
             /\ logged' = [logged EXCEPT ![t][m] = logged[t][m] - 1]
    BY <1>0, <2>2, CountedDown DEF TimeoutTyped
  <2> QED BY <2>1, <2>2 DEF KillFire
<1>2. UNCHANGED <<humans, logVars, queued, extra, lasts>> BY DEF KillFire
<1>3. kills' = kills + 1 /\ open' \in BOOLEAN BY <1>0 DEF KillFire, TimeoutTyped
<1>4. TimeoutTyped' BY <1>0, <1>1, <1>2, <1>3 DEF TimeoutTyped, logVars, Places
<1>5. QueuedAfterMessage' BY <1>2 DEF TimeoutInv, QueuedAfterMessage
<1>6. ASSUME NEW u \in Timeouts, NEW k \in SessionMessages PROVE PairInv(u, k)'
  <2>1. PairInv(u, k) BY DEF TimeoutInv, PairsInv
  <2>2. /\ Exhausted(u, k)' = Exhausted(u, k) /\ Waiting(u, k)' = Waiting(u, k)
        /\ UNCHANGED Reference(u)
    BY <1>2 DEF Exhausted, AttemptsLeft, Waiting, Reference, logVars
  <2>3. /\ success'[u][k] = success[u][k] /\ failure'[u][k] = failure[u][k]
        /\ lasts'[u][k] = lasts[u][k] /\ extra'[u] = extra[u]
        /\ allSuccess'[k] = allSuccess[k] /\ allFailure'[k] = allFailure[k]
    BY <1>2 DEF logVars
  <2>4. /\ running'[u][k] \in Nat /\ logged'[u][k] \in Nat
        /\ running'[u][k] <= running[u][k] /\ logged'[u][k] <= logged[u][k]
    <3>1. running'[u][k] \in Nat /\ logged'[u][k] \in Nat
      BY <1>4 DEF TimeoutTyped, PerMessage
    <3>2. CASE u = t /\ k = m BY <1>0, <1>1, <3>1, <3>2, PairTyped DEF Places
    <3>3. CASE <<u, k>> # <<t, m>>
      <4>1. running'[u][k] = running[u][k] /\ logged'[u][k] = logged[u][k]
        BY <1>1, <3>3 DEF Places
      <4> QED BY <1>0, <3>1, <4>1, PairTyped
    <3> QED BY <3>2, <3>3
  <2>5. ~(kills' = 0) BY <1>0, <1>3 DEF TimeoutTyped
  <2>6. Tasks(u, k)' \in Nat /\ Tasks(u, k) \in Nat /\ Tasks(u, k)' <= Tasks(u, k)
    BY <1>0, <2>2, <2>4, PairTyped DEF Tasks
  <2>7. k > Reference(u) => running'[u][k] = 0 /\ logged'[u][k] = 0
    BY <1>0, <2>1, <2>4, PairTyped DEF PairInv
  <2>8. success[u][k] + running'[u][k] + Waiting(u, k) <= Total + extra[u]
    BY <1>0, <2>1, <2>4, PairTyped DEF PairInv
  <2>9. Tasks(u, k)' <= 1 + extra[u] BY <1>0, <2>1, <2>6, PairTyped DEF PairInv
  <2>10. Exhausted(u, k) => lasts[u][k] + Tasks(u, k)' <= 1 + extra[u]
    BY <1>0, <2>1, <2>6, PairTyped DEF PairInv
  <2> QED BY <2>1, <2>2, <2>3, <2>5, <2>7, <2>8, <2>9, <2>10 DEF PairInv
<1> QED BY <1>4, <1>5, <1>6 DEF TimeoutInv, PairsInv

\* The participant writes: triggers count from a later message, or from the same.
LEMMA HumanMessageStep ==
  ASSUME TimeoutInv, HumanMessage PROVE TimeoutInv'
<1>0. TimeoutTyped BY DEF TimeoutInv
<1>1. /\ humans' = humans + 1 /\ humans' \in 0 .. MaxHumans
      /\ UNCHANGED <<logVars, queued, running, logged, open, extra, lasts, kills>>
  BY <1>0, TimeoutCounts DEF HumanMessage, TimeoutTyped
<1>2. TimeoutTyped' BY <1>0, <1>1 DEF TimeoutTyped, logVars
<1>3. QueuedAfterMessage' BY <1>0, <1>1 DEF TimeoutInv, QueuedAfterMessage, TimeoutTyped
<1>4. ASSUME NEW u \in Timeouts, NEW k \in SessionMessages PROVE PairInv(u, k)'
  <2>1. PairInv(u, k) BY DEF TimeoutInv, PairsInv
  <2>2. Reference(u)' \in Nat /\ Reference(u)' >= Reference(u)
    BY <1>0, <1>1 DEF Reference, TimeoutTyped
  <2>3. Waiting(u, k)' \in Nat /\ Waiting(u, k)' <= Waiting(u, k)
    BY <1>0, <1>1, <2>2, PairTyped DEF Waiting
  <2>4. Exhausted(u, k)' = Exhausted(u, k) BY <1>1 DEF Exhausted, AttemptsLeft, logVars
  <2>5. /\ success'[u][k] = success[u][k] /\ failure'[u][k] = failure[u][k]
        /\ running'[u][k] = running[u][k] /\ logged'[u][k] = logged[u][k]
        /\ lasts'[u][k] = lasts[u][k] /\ extra'[u] = extra[u] /\ kills' = kills
        /\ allSuccess'[k] = allSuccess[k] /\ allFailure'[k] = allFailure[k]
    BY <1>1 DEF logVars
  <2>6. Tasks(u, k)' \in Nat /\ Tasks(u, k) \in Nat /\ Tasks(u, k)' <= Tasks(u, k)
    BY <1>0, <2>3, <2>5, PairTyped DEF Tasks
  <2>7. k > Reference(u)' => k > Reference(u) BY <1>0, <2>2, PairTyped
  <2>8. success[u][k] + running[u][k] + Waiting(u, k)' <= Total + extra[u]
    BY <1>0, <2>1, <2>3, PairTyped DEF PairInv
  <2>9. Tasks(u, k)' <= 1 + extra[u] BY <1>0, <2>1, <2>6, PairTyped DEF PairInv
  <2>10. Exhausted(u, k) => lasts[u][k] + Tasks(u, k)' <= 1 + extra[u]
    BY <1>0, <2>1, <2>6, PairTyped DEF PairInv
  <2> QED BY <2>1, <2>4, <2>5, <2>7, <2>8, <2>9, <2>10 DEF PairInv
<1> QED BY <1>2, <1>3, <1>4 DEF TimeoutInv, PairsInv

\* Time, edits and ends of the session change no count.
LEMMA QuietStep ==
  ASSUME TimeoutInv, open' \in BOOLEAN,
         UNCHANGED <<humans, logVars, queued, running, logged, extra, lasts, kills>>
  PROVE  TimeoutInv'
BY DEF TimeoutInv, TimeoutTyped, QueuedAfterMessage, PairsInv, PairInv, Tasks, Waiting,
       Reference, Exhausted, AttemptsLeft, logVars

-----------------------------------------------------------------------------
(* Static triggers.                                                        *)

\* The raises of the types that a static trigger waits for.
WaitedFor(counts, s) ==
  IF s \in ConversationEnds THEN counts["ended_by_user"] + counts["ended_by_event"]
  ELSE counts[TypeOf(s)]

LEMMA RaisesFire ==
  EveryRaiseFires <=>
    \A s \in Statics : fired[s] + fires[s] + WaitedFor(raised, s) = WaitedFor(happened, s)
BY DEF EveryRaiseFires, WaitedFor

\* What one more raise of a type adds for a trigger.
Adds(type, s) == IF s \in Matching(type) THEN 1 ELSE 0

LEMMA TypesOfStatics ==
  ASSUME NEW s \in Statics
  PROVE  /\ s \in ConversationEnds => TypeOf(s) = "conversation_end"
         /\ s \notin ConversationEnds => TypeOf(s) \in {"last_timeout", "ended_by_event"}
BY StaticSubsets DEF TypeOf

\* One type is raised more or less often.
Differ(f, g, type) ==
  /\ f \in [TriggerTypes -> Nat] /\ g \in [TriggerTypes -> Nat]
  /\ \A other \in TriggerTypes \ {type} : g[other] = f[other]

LEMMA AddedCount ==
  ASSUME NEW f, NEW g, NEW type \in TriggerTypes, Differ(f, g, type), NEW s \in Statics
  PROVE  /\ WaitedFor(f, s) \in Nat
         /\ WaitedFor(g, s) = WaitedFor(f, s) + (IF s \in Matching(type) THEN g[type] - f[type] ELSE 0)
<1>1. /\ f \in [TriggerTypes -> Nat] /\ g \in [TriggerTypes -> Nat]
      /\ \A other \in TriggerTypes \ {type} : g[other] = f[other]
  BY DEF Differ
<1>2. CASE s \in ConversationEnds
  <2>1. s \in Matching(type) <=> type \in EndTypes
    BY <1>2, TypesOfStatics DEF Matching, TriggerTypes, EndTypes
  <2>2. CASE type = "ended_by_user"
    BY <1>1, <1>2, <2>1, <2>2 DEF WaitedFor, Adds, TriggerTypes, EndTypes
  <2>3. CASE type = "ended_by_event"
    BY <1>1, <1>2, <2>1, <2>3 DEF WaitedFor, Adds, TriggerTypes, EndTypes
  <2>4. CASE type = "last_timeout"
    BY <1>1, <1>2, <2>1, <2>4 DEF WaitedFor, Adds, TriggerTypes, EndTypes
  <2> QED BY <2>2, <2>3, <2>4 DEF TriggerTypes, EndTypes
<1>3. CASE s \notin ConversationEnds
  <2>1. TypeOf(s) \in TriggerTypes /\ TypeOf(s) # "conversation_end"
    BY <1>3, TypesOfStatics DEF TriggerTypes, EndTypes
  <2>2. s \in Matching(type) <=> type = TypeOf(s) BY <2>1 DEF Matching
  <2>3. CASE type = TypeOf(s) BY <1>1, <1>3, <2>1, <2>2, <2>3 DEF WaitedFor, Adds
  <2>4. CASE type # TypeOf(s) BY <1>1, <1>3, <2>1, <2>2, <2>4 DEF WaitedFor, Adds
  <2> QED BY <2>3, <2>4
<1> QED BY <1>1, <1>2, <1>3

LEMMA StaticInitInv == StaticInit => StaticInv
<1> SUFFICES ASSUME StaticInit PROVE StaticInv OBVIOUS
<1>1. StaticTypeOK BY DEF StaticInit, StaticTypeOK
<1>2. ASSUME NEW s \in Statics
      PROVE  fired[s] + fires[s] + WaitedFor(raised, s) = WaitedFor(happened, s)
  BY TypesOfStatics DEF StaticInit, WaitedFor, TriggerTypes, EndTypes
<1> QED BY <1>1, <1>2, RaisesFire DEF StaticInv

\* Something happens: it is raised.
LEMMA RaiseStep ==
  ASSUME StaticInv, NEW type \in TriggerTypes, Raise(type) PROVE StaticInv'
<1>1. /\ raised' = [raised EXCEPT ![type] = raised[type] + 1]
      /\ happened' = [happened EXCEPT ![type] = happened[type] + 1]
      /\ UNCHANGED <<fires, fired>>
  BY DEF Raise
<1>2. /\ raised \in [TriggerTypes -> Nat] /\ happened \in [TriggerTypes -> Nat]
      /\ fires \in [Statics -> Nat] /\ fired \in [Statics -> Nat]
  BY DEF StaticInv, StaticTypeOK
<1>3. raised[type] + 1 \in Nat /\ happened[type] + 1 \in Nat BY <1>2
<1>4. StaticTypeOK' /\ Differ(raised, raised', type) /\ Differ(happened, happened', type)
  BY <1>1, <1>2, <1>3 DEF StaticTypeOK, Differ
<1>5. ASSUME NEW s \in Statics
      PROVE  fired'[s] + fires'[s] + WaitedFor(raised', s) = WaitedFor(happened', s)
  <2>1. fired[s] + fires[s] + WaitedFor(raised, s) = WaitedFor(happened, s)
    BY RaisesFire DEF StaticInv
  <2>2. /\ WaitedFor(raised, s) \in Nat
        /\ WaitedFor(raised', s) = WaitedFor(raised, s) + (IF s \in Matching(type) THEN 1 ELSE 0)
    <3>1. raised'[type] - raised[type] = 1 BY <1>1, <1>2, <1>3
    <3>2. /\ WaitedFor(raised, s) \in Nat
          /\ WaitedFor(raised', s) = WaitedFor(raised, s)
               + (IF s \in Matching(type) THEN raised'[type] - raised[type] ELSE 0)
      BY <1>4, AddedCount
    <3> QED BY <3>1, <3>2
  <2>3. /\ WaitedFor(happened, s) \in Nat
        /\ WaitedFor(happened', s) = WaitedFor(happened, s) + (IF s \in Matching(type) THEN 1 ELSE 0)
    <3>1. happened'[type] - happened[type] = 1 BY <1>1, <1>2, <1>3
    <3>2. /\ WaitedFor(happened, s) \in Nat
          /\ WaitedFor(happened', s) = WaitedFor(happened, s)
               + (IF s \in Matching(type) THEN happened'[type] - happened[type] ELSE 0)
      BY <1>4, AddedCount
    <3> QED BY <3>1, <3>2
  <2>4. fired[s] \in Nat /\ fires[s] \in Nat BY <1>2
  <2> QED BY <1>1, <2>1, <2>2, <2>3, <2>4
<1>6. EveryRaiseFires' BY <1>5 DEF EveryRaiseFires, WaitedFor
<1> QED BY <1>4, <1>6 DEF StaticInv

\* The triggers that match are enqueued.
LEMMA EnqueueStaticsStep ==
  ASSUME StaticInv, NEW type \in TriggerTypes, EnqueueStatics(type) PROVE StaticInv'
<1>1. /\ raised' = [raised EXCEPT ![type] = raised[type] - 1] /\ raised[type] > 0
      /\ fires' = [s \in Statics |-> fires[s] + Adds(type, s)]
      /\ UNCHANGED <<fired, happened>>
  BY DEF EnqueueStatics, Adds
<1>2. /\ raised \in [TriggerTypes -> Nat] /\ happened \in [TriggerTypes -> Nat]
      /\ fires \in [Statics -> Nat] /\ fired \in [Statics -> Nat]
  BY DEF StaticInv, StaticTypeOK
<1>3. raised[type] + (-1) \in Nat /\ raised[type] - 1 = raised[type] + (-1) BY <1>1, <1>2
<1>4. raised' = [raised EXCEPT ![type] = raised[type] + (-1)] BY <1>1, <1>3
<1>5. \A s \in Statics : Adds(type, s) \in Nat BY DEF Adds
<1>6. raised' \in [TriggerTypes -> Nat] /\ Differ(raised, raised', type)
  BY <1>2, <1>3, <1>4 DEF Differ
<1>7. fires' \in [Statics -> Nat] BY <1>1, <1>2, <1>5
<1>8. StaticTypeOK' BY <1>1, <1>2, <1>6, <1>7 DEF StaticTypeOK
<1>9. ASSUME NEW s \in Statics
      PROVE  fired'[s] + fires'[s] + WaitedFor(raised', s) = WaitedFor(happened', s)
  <2>1. fired[s] + fires[s] + WaitedFor(raised, s) = WaitedFor(happened, s)
    BY RaisesFire DEF StaticInv
  <2>2. /\ WaitedFor(raised, s) \in Nat
        /\ WaitedFor(raised', s) = WaitedFor(raised, s) + (IF s \in Matching(type) THEN -1 ELSE 0)
    <3>1. raised'[type] - raised[type] = -1 BY <1>2, <1>3, <1>4
    <3>2. /\ WaitedFor(raised, s) \in Nat
          /\ WaitedFor(raised', s) = WaitedFor(raised, s)
               + (IF s \in Matching(type) THEN raised'[type] - raised[type] ELSE 0)
      BY <1>6, AddedCount
    <3> QED BY <3>1, <3>2
  <2>3. fires'[s] = fires[s] + Adds(type, s) /\ fired'[s] = fired[s] /\ happened' = happened
    BY <1>1
  <2>4. Adds(type, s) \in Nat /\ fired[s] \in Nat /\ fires[s] \in Nat BY <1>2 DEF Adds
  <2> QED BY <2>1, <2>2, <2>3, <2>4 DEF Adds
<1>10. EveryRaiseFires' BY <1>9 DEF EveryRaiseFires, WaitedFor
<1> QED BY <1>8, <1>10 DEF StaticInv

\* A static trigger fires, and its action may raise the end of the conversation.
LEMMA FireStaticStep ==
  ASSUME StaticInv, NEW t \in Statics, NEW ends \in BOOLEAN, FireStatic(t, ends)
  PROVE  StaticInv'
<1> DEFINE type == "ended_by_event"
<1> DEFINE d == IF ends THEN 1 ELSE 0
<1>1. /\ raised \in [TriggerTypes -> Nat] /\ happened \in [TriggerTypes -> Nat]
      /\ fires \in [Statics -> Nat] /\ fired \in [Statics -> Nat]
  BY DEF StaticInv, StaticTypeOK
<1>2. type \in TriggerTypes /\ d \in Nat BY DEF TriggerTypes, EndTypes
<1>3. /\ raised' = [raised EXCEPT ![type] = raised[type] + d]
      /\ happened' = [happened EXCEPT ![type] = happened[type] + d]
  <2>1. raised[type] \in Nat /\ happened[type] \in Nat BY <1>1, <1>2
  <2>2. CASE ends BY <2>2 DEF FireStatic
  <2>3. CASE ~ends
    <3>1. raised' = raised /\ happened' = happened /\ d = 0 BY <2>3 DEF FireStatic
    <3> QED BY <1>1, <2>1, <3>1
  <2> QED BY <2>2, <2>3
<1>4. /\ fires[t] > 0 /\ fires' = [fires EXCEPT ![t] = fires[t] - 1]
      /\ fired' = [fired EXCEPT ![t] = fired[t] + 1]
  BY DEF FireStatic
<1> HIDE DEF type, d
<1>5. raised[type] + d \in Nat /\ happened[type] + d \in Nat /\ d \in Int BY <1>1, <1>2
<1>6. StaticTypeOK' /\ Differ(raised, raised', type) /\ Differ(happened, happened', type)
  BY <1>1, <1>2, <1>3, <1>4, <1>5 DEF StaticTypeOK, Differ
<1>7. ASSUME NEW s \in Statics
      PROVE  fired'[s] + fires'[s] + WaitedFor(raised', s) = WaitedFor(happened', s)
  <2>1. fired[s] + fires[s] + WaitedFor(raised, s) = WaitedFor(happened, s)
    BY RaisesFire DEF StaticInv
  <2>2. /\ WaitedFor(raised, s) \in Nat
        /\ WaitedFor(raised', s) = WaitedFor(raised, s) + (IF s \in Matching(type) THEN d ELSE 0)
    <3>1. raised'[type] - raised[type] = d BY <1>1, <1>2, <1>3, <1>5
    <3>2. /\ WaitedFor(raised, s) \in Nat
          /\ WaitedFor(raised', s) = WaitedFor(raised, s)
               + (IF s \in Matching(type) THEN raised'[type] - raised[type] ELSE 0)
      BY <1>6, AddedCount, <1>2
    <3> QED BY <3>1, <3>2
  <2>3. /\ WaitedFor(happened, s) \in Nat
        /\ WaitedFor(happened', s) = WaitedFor(happened, s) + (IF s \in Matching(type) THEN d ELSE 0)
    <3>1. happened'[type] - happened[type] = d BY <1>1, <1>2, <1>3, <1>5
    <3>2. /\ WaitedFor(happened, s) \in Nat
          /\ WaitedFor(happened', s) = WaitedFor(happened, s)
               + (IF s \in Matching(type) THEN happened'[type] - happened[type] ELSE 0)
      BY <1>6, AddedCount, <1>2
    <3> QED BY <3>1, <3>2
  <2>4. fired'[s] + fires'[s] = fired[s] + fires[s] BY <1>1, <1>4
  <2>6. fired[s] \in Nat /\ fires[s] \in Nat /\ fired'[s] \in Nat /\ fires'[s] \in Nat
    BY <1>1, <1>6 DEF StaticTypeOK
  <2> QED BY <1>2, <2>1, <2>2, <2>3, <2>4, <2>6
<1>8. EveryRaiseFires' BY <1>7 DEF EveryRaiseFires, WaitedFor
<1> QED BY <1>6, <1>8 DEF StaticInv

-----------------------------------------------------------------------------
(* Both together.                                                          *)

LEMMA EventStep == EventInv /\ [EventNext]_eventVars => EventInv'
<1> SUFFICES ASSUME EventInv, [EventNext]_eventVars PROVE EventInv' OBVIOUS
<1>0. TimeoutInv /\ StaticInv /\ open \in BOOLEAN BY DEF EventInv, TimeoutInv, TimeoutTyped
<1>1. UNCHANGED staticVars => StaticInv'
  BY <1>0 DEF staticVars, StaticInv, StaticTypeOK, EveryRaiseFires
<1>2. ASSUME NEW type \in TriggerTypes, Raise(type) PROVE StaticInv' BY <1>0, <1>2, RaiseStep
<1>3. {"ended_by_user", "ended_by_event", "last_timeout"} \subseteq TriggerTypes
  BY DEF TriggerTypes, EndTypes
<1>4. ASSUME NEW t \in Timeouts, Poll(t), UNCHANGED staticVars PROVE EventInv'
  BY <1>0, <1>1, <1>4, PollStep DEF EventInv
<1>5. ASSUME NEW t \in Timeouts, TimePasses(t), UNCHANGED staticVars PROVE EventInv'
  BY <1>0, <1>1, <1>5, QuietStep DEF EventInv, TimePasses
<1>6. ASSUME NEW t \in Timeouts, StartFire(t), UNCHANGED staticVars PROVE EventInv'
  BY <1>0, <1>1, <1>6, StartFireStep DEF EventInv
<1>7. ASSUME NEW t \in Timeouts, Reconfigure(t), UNCHANGED staticVars PROVE EventInv'
  BY <1>0, <1>1, <1>7, QuietStep DEF EventInv, Reconfigure
<1>8. ASSUME NEW t \in Timeouts, NEW m \in SessionMessages, NEW ok \in BOOLEAN,
             NEW ends \in BOOLEAN, TimeoutActs(t, m, ok, ends)
      PROVE  EventInv'
  <2>1. LogFire(t, m, ok, ends) /\ (Raise("ended_by_event") \/ UNCHANGED staticVars)
    BY <1>8 DEF TimeoutActs
  <2> QED BY <1>0, <1>1, <1>2, <1>3, <2>1, LogFireStep DEF EventInv
<1>9. ASSUME NEW t \in Timeouts, NEW m \in SessionMessages, TimeoutChecks(t, m) PROVE EventInv'
  <2>1. CheckFire(t, m) /\ (Raise("last_timeout") \/ UNCHANGED staticVars)
    BY <1>9 DEF TimeoutChecks
  <2> QED BY <1>0, <1>1, <1>2, <1>3, <2>1, CheckFireStep DEF EventInv
<1>10. ASSUME NEW t \in Timeouts, NEW m \in SessionMessages, TimeoutDies(t, m) PROVE EventInv'
  <2>1. KillFire(t, m) /\ (Raise("ended_by_event") \/ UNCHANGED staticVars)
    BY <1>10 DEF TimeoutDies
  <2> QED BY <1>0, <1>1, <1>2, <1>3, <2>1, KillFireStep DEF EventInv
<1>11. CASE HumanMessage /\ UNCHANGED staticVars
  BY <1>0, <1>1, <1>11, HumanMessageStep DEF EventInv
<1>12. CASE UserEnds
  <2>1. TimeoutInv' BY <1>0, <1>12, QuietStep DEF UserEnds, SessionEnds
  <2> QED BY <1>2, <1>3, <1>12, <2>1 DEF UserEnds, EventInv
<1>13. CASE StaticActs
  <2>1. PICK ends \in BOOLEAN :
          /\ StaticStep(ends) /\ open' = OpenAfter(ends)
          /\ UNCHANGED <<humans, since, silent, logVars, queued, running, logged, extra,
                         lasts, kills>>
    BY <1>13 DEF StaticActs
  <2>2. open' \in BOOLEAN BY <1>0, <2>1 DEF OpenAfter
  <2>3. TimeoutInv' BY <1>0, <2>1, <2>2, QuietStep
  <2>4. StaticInv' BY <1>0, <2>1, EnqueueStaticsStep, FireStaticStep DEF StaticStep
  <2> QED BY <2>3, <2>4 DEF EventInv
<1>14. CASE UNCHANGED eventVars
  <2>1. TimeoutInv' BY <1>0, <1>14, QuietStep DEF eventVars, timeoutVars
  <2> QED BY <1>1, <1>14, <2>1 DEF eventVars, EventInv
<1> QED BY <1>4, <1>5, <1>6, <1>7, <1>8, <1>9, <1>10, <1>11, <1>12, <1>13, <1>14
        DEF EventNext

LEMMA EventInvImplies == EventInv => TriggersCounted
<1> SUFFICES ASSUME EventInv PROVE TriggersCounted OBVIOUS
<1>1. ASSUME NEW t \in Timeouts, NEW m \in SessionMessages
      PROVE  /\ success[t][m] <= Total + extra[t]
             /\ lasts[t][m] <= 1 + extra[t]
             /\ kills = 0 => (~AttemptsLeft(success[t][m], failure[t][m])
                                => lasts[t][m] > 0 \/ logged[t][m] > 0)
  <2>1. TimeoutTyped /\ PairInv(t, m) BY DEF EventInv, TimeoutInv, PairsInv
  <2>2. Exhausted(t, m) <=> ~AttemptsLeft(success[t][m], failure[t][m]) BY DEF Exhausted
  <2> QED BY <2>1, <2>2, PairTyped DEF PairInv, Tasks
<1> QED BY <1>1 DEF TriggersCounted, ActsAtMost, LastTimeoutAtMost, LastTimeoutRaised,
                    EventInv, StaticInv

\* For any numbers of triggers, messages, tasks and lost tasks, triggers act neither
\* too often nor too rarely, timeouts and static ones.
THEOREM TriggersAct == EventSpec => []TriggersCounted
<1>1. EventInit => EventInv
  BY TimeoutInitInv, StaticInitInv DEF EventInit, EventInv
<1> QED BY <1>1, EventStep, EventInvImplies, PTL DEF EventSpec

-----------------------------------------------------------------------------
\* To the timeout triggers, static triggers are nothing but other ways to end the
\* session.
LEMMA EventImplementsTimeout ==
  EventInv /\ [EventNext]_eventVars => [TimeoutNext]_timeoutVars
<1> SUFFICES ASSUME EventInv, [EventNext]_eventVars PROVE [TimeoutNext]_timeoutVars OBVIOUS
<1>0. open \in BOOLEAN BY DEF EventInv, TimeoutInv, TimeoutTyped
<1>1. ASSUME NEW t \in Timeouts, Poll(t) \/ TimePasses(t) \/ StartFire(t) \/ Reconfigure(t)
      PROVE  TimeoutNext
  BY <1>1 DEF TimeoutNext, TimeoutStep
<1>2. ASSUME NEW t \in Timeouts, NEW m \in SessionMessages,
             (\E ok, ends \in BOOLEAN : LogFire(t, m, ok, ends)) \/ CheckFire(t, m) \/ KillFire(t, m)
      PROVE  TimeoutNext
  BY <1>2 DEF TimeoutNext, TimeoutStep
<1>3. CASE HumanMessage \/ SessionEnds BY <1>3 DEF TimeoutNext
<1>4. CASE StaticActs
  <2>1. PICK ends \in BOOLEAN :
          /\ open' = OpenAfter(ends)
          /\ UNCHANGED <<humans, since, silent, logVars, queued, running, logged, extra,
                         lasts, kills>>
    BY <1>4 DEF StaticActs
  <2>2. CASE open /\ ends
    BY <2>1, <2>2 DEF OpenAfter, SessionEnds, TimeoutNext
  <2>3. CASE ~(open /\ ends)
    <3>1. open' = open BY <1>0, <2>1, <2>3 DEF OpenAfter
    <3> QED BY <2>1, <3>1 DEF timeoutVars
  <2> QED BY <2>2, <2>3
<1>5. CASE UNCHANGED eventVars BY <1>5 DEF eventVars
<1> QED BY <1>1, <1>2, <1>3, <1>4, <1>5
        DEF EventNext, TimeoutActs, TimeoutChecks, TimeoutDies, UserEnds

\* To the static triggers, timeouts are nothing but things that happen.
LEMMA EventImplementsStatic ==
  [EventNext]_eventVars => [StaticNext]_staticVars
<1> SUFFICES ASSUME [EventNext]_eventVars PROVE [StaticNext]_staticVars OBVIOUS
<1>1. \A type \in TriggerTypes : Raise(type) => StaticNext BY DEF StaticNext
<1>2. {"ended_by_user", "ended_by_event", "last_timeout"} \subseteq TriggerTypes
  BY DEF TriggerTypes, EndTypes
<1>3. CASE StaticActs BY <1>3 DEF StaticActs, StaticNext
<1>4. CASE UNCHANGED eventVars BY <1>4 DEF eventVars
<1>5. CASE /\ ~StaticActs /\ ~UNCHANGED eventVars
  BY <1>1, <1>2, <1>5 DEF EventNext, TimeoutActs, TimeoutChecks, TimeoutDies, UserEnds
<1> QED BY <1>3, <1>4, <1>5

\* The composition implements each of its parts: with the others, timeout triggers
\* and static triggers take only the steps they take alone, and a session that has
\* ended is never open again.
THEOREM EventsImplementParts == EventSpec => TimeoutsAlone /\ StaticSpec
<1>1. EventInit => EventInv /\ TimeoutInit /\ StaticInit
  BY TimeoutInitInv, StaticInitInv DEF EventInit, EventInv
<1> QED BY <1>1, EventStep, EventImplementsTimeout, EventImplementsStatic, PTL
        DEF EventSpec, TimeoutsAlone, TimeoutSpec, StaticSpec

-----------------------------------------------------------------------------
(* Versions: who works owns the lock, numbers only grow, and the default   *)
(* is never taken away, unless an old copy of a row was saved.             *)

Pages ==
  [kind : {"none", "done"}]
    \union [kind : {"settings"}, number : 1 .. MaxVersions + 1, owner : Operations \union {NoOperation}]
    \union [kind : {"default", "describe", "archive"}, version : Numbers, default : BOOLEAN]

\* Rows and requests have their types.
RowsTyped == VersionTypeOK /\ page \in [VersionRequests -> Pages]

\* Who has read the number has read one.
Read(o) == operation[o].pc \in {"loaded", "publishing", "reverting"}
NumbersRead == \A o \in Operations : Read(o) => operation[o].number >= 1

\* Requests are about versions that exist.
PagesExist ==
  \A r \in VersionRequests :
    page[r].kind \in {"default", "describe", "archive"} => page[r].version \in published

\* An operation that works owns the lock.
WorkersOwn ==
  stale \intersect {"sent", "settings"} = {} => \A o \in Operations : Working(o) => owner = o

\* The working version is ahead of all others, and a publish works with its number.
NumberIsAhead ==
  stale \intersect {"sent", "settings", "revert"} = {} =>
    /\ \A v \in published : v < number
    /\ \A o \in Operations : At(o, "publishing") => operation[o].number = number

\* Before anything is published, every copy of the number is 1, and no revert works.
FirstIsOne ==
  published = {} =>
    /\ number = 1
    /\ \A o \in Operations :
         /\ At(o, "publishing") => operation[o].number = 1
         /\ operation[o].pc \notin {"loaded", "reverting"}
    /\ \A r \in VersionRequests : page[r].kind = "settings" => page[r].number = 1

VersionInv ==
  RowsTyped /\ NumbersRead /\ PagesExist /\ WorkersOwn /\ NumberIsAhead /\ FirstIsOne /\ PublishedHasDefault

\* The invariant says more than what it is for.
LEMMA VersionInvImplies == VersionInv => VersionsAreKept
<1> SUFFICES ASSUME VersionInv PROVE VersionsAreKept
  OBVIOUS
<1>1. OneOperation BY DEF VersionInv, WorkersOwn, OneOperation
<1>2. NumberIsFree
  BY DEF VersionInv, NumberIsAhead, NumberIsFree, RowsTyped, VersionTypeOK, Numbers
<1> QED BY <1>1, <1>2 DEF VersionInv, VersionsAreKept

LEMMA VersionInitInv == VersionInit => VersionInv
BY VersionBounds
   DEF VersionInit, VersionInv, RowsTyped, VersionTypeOK, NumbersRead, Read, Pages, PagesExist, WorkersOwn,
       NumberIsAhead, FirstIsOne, PublishedHasDefault, At, Working, Operations, Numbers

-----------------------------------------------------------------------------
\* What the steps do to operations.

OperationPcs == {"idle", "loaded", "queued", "publishing", "reverting", "releasing", "done"}
OneMoves(o, to) ==
  /\ operation' \in [Operations -> [pc : OperationPcs, number : 0 .. MaxVersions + 1]]
  /\ operation'[o].pc = to
  /\ \A p \in Operations \ {o} : operation'[p] = operation[p]

LEMMA MoveKeepsNumber ==
  ASSUME RowsTyped, NEW o \in Operations, NEW to \in OperationPcs, MovesTo(o, to)
  PROVE  OneMoves(o, to) /\ operation'[o].number = operation[o].number
BY DEF RowsTyped, VersionTypeOK, MovesTo, OneMoves, OperationPcs

LEMMA ReadTakesNumber ==
  ASSUME RowsTyped, NEW o \in Operations, NEW to \in OperationPcs, Reads(o, to)
  PROVE  OneMoves(o, to) /\ operation'[o].number = number
BY DEF RowsTyped, VersionTypeOK, Reads, OneMoves, OperationPcs

-----------------------------------------------------------------------------
\* Operations.

OperationRows == <<number, published, default, archived, page, stale>>

\* A step that changes one operation, and perhaps the lock, keeps the rest.
LEMMA QuietOperation ==
  ASSUME VersionInv, NEW o \in Operations, NEW to \in OperationPcs, OneMoves(o, to),
         UNCHANGED <<number, published, default, archived, page>>,
         stale \subseteq stale', stale' \subseteq {"sent", "killed", "revert", "settings", "page"},
         faults' \in 0 .. MaxVersionFaults,
         owner' \in Operations \union {NoOperation},
         Read(o)' => operation'[o].number >= 1,
         to = "publishing" => operation'[o].number = number,
         to \in {"loaded", "reverting"} => published # {},
         WorkersOwn'
  PROVE  VersionInv'
<1>1. RowsTyped'
  BY DEF VersionInv, RowsTyped, VersionTypeOK, OneMoves, OperationPcs
<1>2. PagesExist' /\ NumbersRead' BY DEF VersionInv, PagesExist, NumbersRead, Read, OneMoves
<1>3. NumberIsAhead' BY DEF VersionInv, NumberIsAhead, OneMoves, At
<1>4. FirstIsOne' BY DEF VersionInv, FirstIsOne, OneMoves, At
<1>5. PublishedHasDefault' BY DEF VersionInv, PublishedHasDefault
<1> QED BY <1>1, <1>2, <1>3, <1>4, <1>5 DEF VersionInv

\* An operation that takes the free lock, gives it back or ends keeps the others out.
LEMMA LockMoves ==
  ASSUME VersionInv, NEW o \in Operations, NEW to \in OperationPcs, OneMoves(o, to),
         stale \subseteq stale',
         \/ owner = NoOperation /\ owner' = o
         \/ Working(o) /\ owner' = o
         \/ UNCHANGED owner /\ (Working(o) \/ to \in {"idle", "loaded", "done"})
         \/ Working(o) /\ owner' = NoOperation /\ to = "done"
  PROVE  WorkersOwn'
BY OperationNames DEF VersionInv, WorkersOwn, Working, OneMoves

LEMMA PcsOf == ASSUME RowsTyped, NEW o \in Operations PROVE operation[o].pc \in OperationPcs
BY DEF RowsTyped, VersionTypeOK, OperationPcs

LEMMA TypesOfRows ==
  ASSUME VersionInv
  PROVE  /\ RowsTyped
         /\ stale \subseteq {"sent", "killed", "revert", "settings", "page"}
         /\ faults \in 0 .. MaxVersionFaults
         /\ owner \in Operations \union {NoOperation}
         /\ number \in 1 .. MaxVersions + 1
BY DEF VersionInv, RowsTyped, VersionTypeOK

\* Claims, releases and failures move one operation and the lock.
LEMMA LockStep ==
  ASSUME VersionInv, NEW o \in Operations,
         \/ ClaimPublish(o) \/ SendFails(o) \/ LoadRevert(o) \/ ClaimRevert(o)
         \/ Fail(o) \/ Release(o) \/ Kill(o) \/ StartPublish(o)
  PROVE  VersionInv'
<1>0. RowsTyped BY TypesOfRows
<1>1. CASE ClaimPublish(o)
  <2>1. CASE LockIsFree
    <3>1. OneMoves(o, "queued")
      BY <1>0, <1>1, <2>1, MoveKeepsNumber DEF ClaimPublish, OperationPcs
    <3>2. WorkersOwn' BY <1>1, <2>1, <3>1, LockMoves DEF ClaimPublish, LockIsFree, OperationPcs
    <3> QED BY <1>1, <2>1, <3>1, <3>2, QuietOperation, TypesOfRows DEF Read, OneMoves, ClaimPublish, OperationPcs
  <2>2. CASE ~LockIsFree
    <3>1. OneMoves(o, "done")
      BY <1>0, <1>1, <2>2, MoveKeepsNumber DEF ClaimPublish, OperationPcs
    <3>2. WorkersOwn' BY <1>1, <2>2, <3>1, LockMoves DEF ClaimPublish, OperationPcs
    <3> QED BY <1>1, <2>2, <3>1, <3>2, QuietOperation, TypesOfRows DEF Read, OneMoves, ClaimPublish, OperationPcs
  <2> QED BY <2>1, <2>2
<1>2. CASE SendFails(o)
  <2>0. faults' \in 0 .. MaxVersionFaults /\ owner' = NoOperation
    BY <1>2, TypesOfRows, VersionBounds DEF SendFails
  <2>1. CASE MovesTo(o, "done") /\ UNCHANGED stale
    <3>1. OneMoves(o, "done")
      BY <1>0, <2>1, MoveKeepsNumber DEF OperationPcs
    <3>2. WorkersOwn'
      BY <1>2, <2>0, <2>1, <3>1, LockMoves DEF SendFails, OperationPcs, At, Working
    <3> QED BY <1>2, <2>0, <2>1, <3>1, <3>2, QuietOperation, TypesOfRows DEF Read, OneMoves, SendFails, OperationPcs
  <2>2. CASE UNCHANGED operation /\ stale' = stale \union {"sent"}
    <3>1. OneMoves(o, "queued") /\ operation'[o] = operation[o]
      BY <1>0, <1>2, <2>2 DEF SendFails, At, OneMoves, RowsTyped, VersionTypeOK, OperationPcs
    <3>2. WorkersOwn' BY <2>2 DEF WorkersOwn
    <3> QED BY <1>2, <2>0, <2>2, <3>1, <3>2, QuietOperation, TypesOfRows DEF Read, OneMoves, SendFails, OperationPcs
  <2> QED BY <1>2, <2>1, <2>2 DEF SendFails
<1>3. CASE LoadRevert(o)
  <2>1. OneMoves(o, "loaded") /\ operation'[o].number = number
    BY <1>0, <1>3, ReadTakesNumber DEF LoadRevert, OperationPcs
  <2>2. WorkersOwn' BY <1>3, <2>1, LockMoves DEF LoadRevert, OperationPcs
  <2> QED BY <1>3, <2>1, <2>2, QuietOperation, TypesOfRows DEF Read, OneMoves, LoadRevert, OperationPcs
<1>4. CASE ClaimRevert(o)
  <2>0. published # {} BY <1>4 DEF VersionInv, FirstIsOne, ClaimRevert, At
  <2>1. CASE LockIsFree
    <3>1. OneMoves(o, "reverting") /\ operation'[o].number >= 1
      BY <1>0, <1>4, <2>1, MoveKeepsNumber
         DEF ClaimRevert, OperationPcs, At, VersionInv, NumbersRead, Read
    <3>2. WorkersOwn' BY <1>4, <2>1, <3>1, LockMoves DEF ClaimRevert, LockIsFree, OperationPcs
    <3> QED BY <1>4, <2>0, <2>1, <3>1, <3>2, QuietOperation, TypesOfRows DEF Read, OneMoves, ClaimRevert, OperationPcs
  <2>2. CASE ~LockIsFree
    <3>1. OneMoves(o, "done")
      BY <1>0, <1>4, <2>2, MoveKeepsNumber DEF ClaimRevert, OperationPcs
    <3>2. WorkersOwn' BY <1>4, <2>2, <3>1, LockMoves DEF ClaimRevert, OperationPcs
    <3> QED BY <1>4, <2>2, <3>1, <3>2, QuietOperation, TypesOfRows DEF Read, OneMoves, ClaimRevert, OperationPcs
  <2> QED BY <2>1, <2>2
<1>5. CASE Fail(o)
  <2>1. OneMoves(o, "releasing")
    BY <1>0, <1>5, MoveKeepsNumber DEF Fail, Afterwards, OperationPcs
  <2>2. WorkersOwn' BY <1>5, <2>1, LockMoves DEF Fail, OperationPcs, Working
  <2> QED BY <1>5, <2>1, <2>2, QuietOperation, TypesOfRows DEF Read, OneMoves, Fail, OperationPcs
<1>6. CASE Release(o)
  <2>1. OneMoves(o, "done")
    BY <1>0, <1>6, MoveKeepsNumber DEF Release, OperationPcs
  <2>2. WorkersOwn' BY <1>6, <2>1, LockMoves DEF Release, OperationPcs, At, Working
  <2> QED BY <1>6, <2>1, <2>2, QuietOperation, TypesOfRows DEF Read, OneMoves, Release, OperationPcs
<1>7. CASE Kill(o)
  <2>0. faults' \in 0 .. MaxVersionFaults
    BY <1>7, TypesOfRows, VersionBounds DEF Kill
  <2>1. OneMoves(o, "done")
    BY <1>0, <1>7, MoveKeepsNumber DEF Kill, OperationPcs
  <2>2. WorkersOwn' BY <1>7, <2>1, LockMoves DEF Kill, OperationPcs
  <2> QED BY <1>7, <2>0, <2>1, <2>2, QuietOperation, TypesOfRows DEF Read, OneMoves, Kill, OperationPcs
<1>8. CASE StartPublish(o)
  <2>1. OneMoves(o, "publishing") /\ operation'[o].number = number
    BY <1>0, <1>8, ReadTakesNumber DEF StartPublish, OperationPcs
  <2>2. WorkersOwn' BY <1>8, <2>1, LockMoves DEF StartPublish, OperationPcs, At, Working
  <2> QED BY <1>8, <2>1, <2>2, QuietOperation, TypesOfRows DEF Read, OneMoves, StartPublish, OperationPcs
<1> QED BY <1>1, <1>2, <1>3, <1>4, <1>5, <1>6, <1>7, <1>8

-----------------------------------------------------------------------------
\* A publish takes the next number, which it alone works with, and leaves a default.
LEMMA PublishStep ==
  ASSUME VersionInv, NEW o \in Operations, NEW makeDefault \in BOOLEAN,
         Publish(o, makeDefault)
  PROVE  VersionInv'
<1> DEFINE n == operation[o].number
<1>0. RowsTyped BY TypesOfRows
<1>1. OneMoves(o, "releasing")
  BY <1>0, MoveKeepsNumber DEF Publish, Afterwards, OperationPcs
<1>2. WorkersOwn'
  BY <1>1, LockMoves DEF Publish, OperationPcs, At, Working
<1>3. CASE ~(n \notin published /\ AtMostOne(DefaultsAfter(n, makeDefault)))
  <2>1. UNCHANGED <<number, published, default, archived, page, stale, faults, owner>>
    BY <1>3 DEF Publish
  <2> QED BY <1>1, <1>2, <2>1, QuietOperation, TypesOfRows DEF Read, OneMoves, OperationPcs
<1>4. CASE n \notin published /\ AtMostOne(DefaultsAfter(n, makeDefault))
  <2>1. /\ n \in Numbers
        /\ number' = n + 1 /\ published' = published \union {n}
        /\ default' = DefaultsAfter(n, makeDefault)
        /\ UNCHANGED <<owner, archived, page, stale, faults>>
    BY <1>4 DEF Publish, NextNumber
  <2>2. /\ default \intersect archived \subseteq default'
        /\ default' \subseteq published'
        /\ makeDefault \/ n = 1 => n \in default'
        /\ ~makeDefault => default \subseteq default'
    BY <1>0, <2>1 DEF DefaultsAfter, RowsTyped, VersionTypeOK
  <2>3. RowsTyped'
    <3>1. number' \in 1 .. MaxVersions + 1 /\ published' \subseteq Numbers
      <4>1. n \in 1 .. MaxVersions BY <2>1 DEF Numbers
      <4>2. number' = n + 1 BY <2>1
      <4>3. number' \in 1 .. MaxVersions + 1
        <5> HIDE DEF n
        <5> QED BY <4>1, <4>2, VersionBounds
      <4>4. published' \subseteq Numbers BY <1>0, <2>1 DEF RowsTyped, VersionTypeOK
      <4> QED BY <4>3, <4>4
    <3>2. archived' \subseteq published' BY <1>0, <2>1 DEF RowsTyped, VersionTypeOK
    <3>3. page' \in [VersionRequests -> Pages] /\ \A r \in VersionRequests :
            page'[r].kind \in {"none", "settings", "default", "describe", "archive", "done"}
      BY <1>0, <2>1 DEF RowsTyped, VersionTypeOK
    <3> QED BY <1>0, <1>1, <2>1, <2>2, <3>1, <3>2, <3>3
            DEF RowsTyped, VersionTypeOK, OneMoves, OperationPcs
  <2>4. PagesExist' /\ NumbersRead'
    BY <1>1, <2>1 DEF VersionInv, PagesExist, NumbersRead, Read, OneMoves
  <2>5. NumberIsAhead'
    <3> SUFFICES ASSUME stale \intersect {"sent", "settings", "revert"} = {}
                 PROVE  /\ \A v \in published' : v < number'
                        /\ \A p \in Operations : At(p, "publishing")' => operation'[p].number = number'
      BY <2>1 DEF NumberIsAhead
    <3>1. n = number /\ \A v \in published : v < number
      BY DEF VersionInv, NumberIsAhead, Publish
    <3>2. owner = o /\ \A p \in Operations : Working(p) => owner = p
      BY DEF VersionInv, WorkersOwn, Publish, At, Working
    <3>3. \A p \in Operations : ~At(p, "publishing")'
      BY <1>1, <3>2 DEF OneMoves, At, Working
    <3> QED BY <1>0, <2>1, <3>1, <3>3 DEF RowsTyped, VersionTypeOK, Numbers
  <2>6. FirstIsOne' BY <2>1 DEF FirstIsOne
  <2>7. PublishedHasDefault'
    <3> SUFFICES ASSUME "page" \notin stale PROVE default' \ archived' # {}
      BY <2>1 DEF PublishedHasDefault
    <3>1. n \notin archived BY <1>0, <1>4 DEF RowsTyped, VersionTypeOK
    <3>2. published = {} => n = 1 BY DEF VersionInv, FirstIsOne, Publish
    <3>3. published # {} => default \ archived # {} BY DEF VersionInv, PublishedHasDefault
    <3> QED BY <2>1, <2>2, <3>1, <3>2, <3>3
  <2> QED BY <1>2, <2>3, <2>4, <2>5, <2>6, <2>7 DEF VersionInv
<1> QED BY <1>3, <1>4

\* A revert puts back the number it has read, which is noticed when it has changed.
LEMMA RevertStep == ASSUME VersionInv, NEW o \in Operations, Revert(o) PROVE VersionInv'
<1>0. RowsTyped BY TypesOfRows
<1>1. OneMoves(o, "releasing") /\ operation'[o].number = operation[o].number
  BY <1>0, MoveKeepsNumber DEF Revert, Afterwards, OperationPcs
<1>2. WorkersOwn'
  BY <1>1, LockMoves DEF Revert, OperationPcs, At, Working
<1>3. published # {} BY DEF VersionInv, FirstIsOne, Revert, At
<1>4. operation[o].number # number => "revert" \in stale' BY DEF Revert
<1>5. number' \in 1 .. MaxVersions + 1
  BY <1>0 DEF VersionInv, NumbersRead, Read, Revert, At, RowsTyped, VersionTypeOK
<1>6. RowsTyped'
  BY <1>0, <1>1, <1>5 DEF Revert, RowsTyped, VersionTypeOK, OneMoves, OperationPcs
<1>7. PagesExist' /\ NumbersRead'
  BY <1>1 DEF VersionInv, PagesExist, NumbersRead, Read, OneMoves, Revert
<1>8. NumberIsAhead'
  BY <1>1, <1>4 DEF VersionInv, NumberIsAhead, OneMoves, At, Revert
<1>9. FirstIsOne' BY <1>3 DEF FirstIsOne, Revert
<1>10. PublishedHasDefault' BY DEF VersionInv, PublishedHasDefault, Revert
<1> QED BY <1>2, <1>6, <1>7, <1>8, <1>9, <1>10 DEF VersionInv

-----------------------------------------------------------------------------
\* Requests.

\* A request that reads or ends, and writes at most versions.
LEMMA PageMoves ==
  ASSUME VersionInv, NEW r \in VersionRequests, NEW new \in Pages,
         page' = [page EXCEPT ![r] = new],
         new.kind \in {"default", "describe", "archive"} => new.version \in published,
         new.kind = "settings" => new.number = number,
         UNCHANGED <<number, owner, published, operation, faults>>,
         stale \subseteq stale', stale' \subseteq {"sent", "killed", "revert", "settings", "page"},
         default' \subseteq published, archived' \subseteq published,
         PublishedHasDefault'
  PROVE  VersionInv'
<1>0. RowsTyped BY TypesOfRows
<1>1. page' \in [VersionRequests -> Pages] BY <1>0 DEF RowsTyped
<1>2. \A q \in VersionRequests : page'[q] = IF q = r THEN new ELSE page[q]
  BY <1>0 DEF RowsTyped
<1>3. new.kind \in {"none", "settings", "default", "describe", "archive", "done"}
  BY DEF Pages
<1>4. RowsTyped' BY <1>0, <1>1, <1>2, <1>3 DEF RowsTyped, VersionTypeOK
<1>5. PagesExist' BY <1>2 DEF VersionInv, PagesExist
<1>6. NumbersRead' BY DEF VersionInv, NumbersRead, Read
<1>7. WorkersOwn' BY DEF VersionInv, WorkersOwn, Working
<1>8. NumberIsAhead' BY DEF VersionInv, NumberIsAhead, At
<1>9. FirstIsOne' BY <1>2 DEF VersionInv, FirstIsOne, At
<1> QED BY <1>4, <1>5, <1>6, <1>7, <1>8, <1>9 DEF VersionInv

LEMMA DonePage == [kind |-> "done"] \in Pages
BY DEF Pages

LEMMA LoadSettingsStep ==
  ASSUME VersionInv, NEW r \in VersionRequests, LoadSettings(r) PROVE VersionInv'
<1> DEFINE new == [kind |-> "settings", number |-> number, owner |-> owner]
<1>1. new \in Pages BY TypesOfRows DEF Pages
<1>2. page' = [page EXCEPT ![r] = new] BY DEF LoadSettings
<1>3. PublishedHasDefault' BY DEF VersionInv, PublishedHasDefault, LoadSettings
<1>4. UNCHANGED <<number, owner, published, default, archived, operation, stale, faults>>
  BY DEF LoadSettings
<1>5. new.kind = "settings" /\ new.number = number OBVIOUS
<1> HIDE DEF new
<1> QED BY <1>1, <1>2, <1>3, <1>4, <1>5, PageMoves, TypesOfRows
        DEF RowsTyped, VersionTypeOK

LEMMA LoadVersionStep ==
  ASSUME VersionInv, NEW r \in VersionRequests, NEW kind \in {"default", "describe", "archive"},
         NEW v \in Numbers, LoadVersion(r, kind, v)
  PROVE  VersionInv'
<1> DEFINE new == [kind |-> kind, version |-> v, default |-> v \in default]
<1>1. new \in Pages BY DEF Pages
<1>2. page' = [page EXCEPT ![r] = new] BY DEF LoadVersion
<1>3. PublishedHasDefault' BY DEF VersionInv, PublishedHasDefault, LoadVersion
<1>4. UNCHANGED <<number, owner, published, default, archived, operation, stale, faults>>
  BY DEF LoadVersion
<1>5. new.kind # "settings" /\ new.version \in published BY DEF LoadVersion
<1> HIDE DEF new
<1> QED BY <1>1, <1>2, <1>3, <1>4, <1>5, PageMoves, TypesOfRows
        DEF RowsTyped, VersionTypeOK

\* The form writes back the number and the lock it has read.
LEMMA SaveSettingsStep ==
  ASSUME VersionInv, NEW r \in VersionRequests, SaveSettings(r) PROVE VersionInv'
<1>0. RowsTyped BY TypesOfRows
<1>1. page[r] \in Pages /\ page[r].kind = "settings" BY <1>0 DEF RowsTyped, SaveSettings
<1>2. page[r].number \in 1 .. MaxVersions + 1 /\ page[r].owner \in Operations \union {NoOperation}
  BY <1>1 DEF Pages
<1>3. page' \in [VersionRequests -> Pages] /\ page'[r].kind = "done"
  BY <1>0, DonePage DEF RowsTyped, SaveSettings, Ends
<1>4. \A q \in VersionRequests \ {r} : page'[q] = page[q]
  BY <1>0 DEF RowsTyped, SaveSettings, Ends
<1>5. "settings" \in stale' \/ UNCHANGED <<number, owner, stale>> BY DEF SaveSettings
<1>6. UNCHANGED <<published, default, archived, operation, faults>> BY DEF SaveSettings
<1>7. stale \subseteq stale' /\ stale' \subseteq {"sent", "killed", "revert", "settings", "page"}
  BY TypesOfRows DEF SaveSettings
<1>8. RowsTyped'
  <2>1. \A q \in VersionRequests :
          page'[q].kind \in {"none", "settings", "default", "describe", "archive", "done"}
    BY <1>0, <1>3, <1>4 DEF RowsTyped, VersionTypeOK
  <2> QED BY <1>0, <1>2, <1>3, <1>6, <1>7, <2>1 DEF RowsTyped, VersionTypeOK, SaveSettings
<1>9. PagesExist' BY <1>3, <1>4, <1>6 DEF VersionInv, PagesExist
<1>10. NumbersRead' BY <1>6 DEF VersionInv, NumbersRead, Read
<1>11. WorkersOwn' BY <1>5, <1>6 DEF VersionInv, WorkersOwn, Working
<1>12. NumberIsAhead' BY <1>5, <1>6 DEF VersionInv, NumberIsAhead, At
<1>13. FirstIsOne' BY <1>1, <1>3, <1>4, <1>6 DEF VersionInv, FirstIsOne, At, SaveSettings
<1>14. PublishedHasDefault' BY <1>6, <1>7 DEF VersionInv, PublishedHasDefault
<1> QED BY <1>8, <1>9, <1>10, <1>11, <1>12, <1>13, <1>14 DEF VersionInv

\* A request that saves a version leaves the other defaults alone, or says so.
LEMMA SaveVersionStep ==
  ASSUME VersionInv, NEW r \in VersionRequests,
         SaveDefault(r) \/ SaveDescription(r) \/ ArchiveVersion(r)
  PROVE  VersionInv'
<1> DEFINE v == page[r].version
<1>0. RowsTyped BY TypesOfRows
<1>1. v \in published
  BY DEF VersionInv, PagesExist, SaveDefault, SaveDescription, ArchiveVersion
<1>2. page' = [page EXCEPT ![r] = [kind |-> "done"]]
  BY DEF SaveDefault, SaveDescription, ArchiveVersion, SaveVersion, Ends
<1>3. UNCHANGED <<number, owner, published, operation, faults>>
  BY DEF SaveDefault, SaveDescription, ArchiveVersion, SaveVersion
<1>4. stale \subseteq stale' /\ stale' \subseteq {"sent", "killed", "revert", "settings", "page"}
  BY TypesOfRows DEF SaveDefault, SaveDescription, ArchiveVersion
<1>5. default' \subseteq published /\ archived' \subseteq published
  BY <1>0, <1>1 DEF SaveDefault, SaveDescription, ArchiveVersion, SaveVersion, RowsTyped, VersionTypeOK
<1>6. PublishedHasDefault'
  <2> SUFFICES ASSUME published # {}, "page" \notin stale' PROVE default' \ archived' # {}
    BY <1>3 DEF PublishedHasDefault
  <2>1. default \ archived # {} BY <1>4 DEF VersionInv, PublishedHasDefault
  <2>2. CASE SaveDefault(r)
    BY <2>1, <2>2 DEF SaveDefault, SaveVersion
  <2>3. CASE SaveDescription(r)
    <3>1. v \notin archived /\ (page[r].default <=> v \in default)
      <4>1. page[r].default \in BOOLEAN BY <1>0, <2>3 DEF RowsTyped, Pages, SaveDescription
      <4> QED BY <2>3, <4>1 DEF SaveDescription
    <3> QED BY <2>1, <2>3, <3>1 DEF SaveDescription, SaveVersion
  <2>4. CASE ArchiveVersion(r)
    <3>1. MayArchive(r) => v \notin default
      <4>1. page[r].default \in BOOLEAN BY <1>0, <2>4 DEF RowsTyped, Pages, ArchiveVersion
      <4> QED BY <2>4, <4>1 DEF ArchiveVersion, MayArchive
    <3> QED BY <2>1, <2>4, <3>1 DEF ArchiveVersion
  <2> QED BY <2>2, <2>3, <2>4
<1> QED BY <1>2, <1>3, <1>4, <1>5, <1>6, DonePage, PageMoves

-----------------------------------------------------------------------------
LEMMA VersionStep == VersionInv /\ [VersionNext]_versionVars => VersionInv'
<1> SUFFICES ASSUME VersionInv, [VersionNext]_versionVars PROVE VersionInv'
  OBVIOUS
<1>1. CASE UNCHANGED versionVars
  BY <1>1 DEF versionVars, VersionInv, RowsTyped, VersionTypeOK, NumbersRead, Read, PagesExist,
     WorkersOwn, Working, NumberIsAhead, At, FirstIsOne, PublishedHasDefault
<1>2. ASSUME NEW o \in Operations,
             ClaimPublish(o) \/ SendFails(o) \/ LoadRevert(o) \/ OperationStep(o) \/ Kill(o)
      PROVE  VersionInv'
  <2>1. ASSUME NEW makeDefault \in BOOLEAN, Publish(o, makeDefault) PROVE VersionInv'
    BY <2>1, PublishStep
  <2>2. CASE Revert(o) BY <2>2, RevertStep
  <2> QED BY <1>2, <2>1, <2>2, LockStep DEF OperationStep
<1>3. ASSUME NEW r \in VersionRequests, PageStep(r) PROVE VersionInv'
  BY <1>3, LoadSettingsStep, LoadVersionStep, SaveSettingsStep, SaveVersionStep DEF PageStep
<1> QED BY <1>1, <1>2, <1>3 DEF VersionNext

\* Whatever overlaps, publishes and reverts exclude each other, the next number is
\* free and there is a default version, for any number of operations, requests and
\* versions, unless the history says which old copy of a row was saved.
THEOREM VersionSafety == VersionSpec => []VersionsAreKept
<1>1. VersionInit => VersionInv BY VersionInitInv
<1>2. VersionInv /\ [VersionNext]_versionVars => VersionInv' BY VersionStep
<1>3. VersionInv => VersionsAreKept BY VersionInvImplies
<1> QED BY <1>1, <1>2, <1>3, PTL DEF VersionSpec

-----------------------------------------------------------------------------
(* Saving a pipeline.                                                      *)

Graphs == [nodes : [Nodes -> Contents \union {"absent"}], edges : SUBSET Nodes]
Rows == [rev : Nat, graph : Graphs]

EditorStores ==
  [rev : Nat, known : Graphs, drawn : Graphs,
   timer : BOOLEAN, saving : BOOLEAN, pending : BOOLEAN, conflict : BOOLEAN,
   load : {"none", "sent", "answered"}, found : Rows,
   stale : BOOLEAN, failed : BOOLEAN, crossed : BOOLEAN]

SaveRequests ==
  [stage : {"unused", "sent", "loaded", "answered", "refused"}, by : Editors \union {Nobody},
   kind : {"none", "patch", "post", "revert"}, rev : Nat, from : Graphs, to : Graphs,
   stale : BOOLEAN]

EditsTyped ==
  /\ stored \in Rows
  /\ editor \in [Editors -> EditorStores]
  /\ save \in [Slots -> SaveRequests]
  /\ reused \in BOOLEAN

RequestShape(r) ==
  /\ r.stage = "unused" <=> r.kind = "none"
  /\ r.by \in Editors <=> r.kind \in {"patch", "post"}
  /\ r.stage = "refused" => r.kind = "patch"

\* A revision and a graph that somebody has, and what is stored.
Fits(rev, graph, row) == rev <= row.rev /\ (rev = row.rev => graph = row.graph)

EditorFits(now, row) ==
  /\ ~now.stale => Fits(now.rev, now.known, row)
  /\ now.load = "answered" => Fits(now.found.rev, now.found.graph, row)
RequestFits(r, row) ==
  /\ r.stage = "sent" /\ r.kind = "patch" /\ ~r.stale => Fits(r.rev, r.from, row)
  /\ r.stage = "answered" => Fits(r.rev, r.to, row)

RevisionsFit ==
  ~reused => /\ \A e \in Editors : EditorFits(editor[e], stored)
             /\ \A c \in Slots : RequestFits(save[c], stored)

\* An editor whose requests have not crossed has one of them under way at most, and says so.
InTurn(e, now, requests) ==
  /\ \A c \in Slots : requests[c].by = e =>
       /\ now.load = "none" /\ now.saving /\ ~now.conflict
       /\ \A d \in Slots : requests[d].by = e => d = c
       /\ requests[c].kind = "patch" => ~requests[c].stale
  /\ (\A c \in Slots : requests[c].by # e) => ~now.saving /\ ~now.pending

\* Until it knows what it draws, that is being sent or waits.
Deferred(now) == now.timer \/ now.pending
DrawnIsSent(e, now, requests) ==
  /\ \A c \in Slots : requests[c].by = e =>
       /\ requests[c].kind = "patch" => Deferred(now) \/ now.drawn.nodes = requests[c].to.nodes
       /\ requests[c].kind = "post" => Deferred(now) \/ now.drawn = requests[c].to
  /\ (\A c \in Slots : requests[c].by # e) =>
       (now.load = "none" /\ ~now.timer /\ ~now.conflict /\ ~now.failed => now.drawn = now.known)

EditorsInTurn ==
  \A e \in Editors : ~editor[e].crossed /\ ~reused =>
    InTurn(e, editor[e], save) /\ DrawnIsSent(e, editor[e], save)

EditsInv ==
  /\ EditsTyped /\ RevisionsFit /\ EditorsInTurn
  /\ \A c \in Slots : RequestShape(save[c])

LEMMA GraphFacts ==
  /\ Published \in Graphs
  /\ \A g \in Graphs : g.nodes \in [Nodes -> Contents \union {"absent"}] /\ g.edges \in SUBSET Nodes
  /\ \A g, h \in Graphs : g.nodes = h.nodes /\ g.edges = h.edges => g = h
<1>1. Fresh \in Contents BY EditsAssumption DEF Fresh
<1>2. Published \in Graphs BY <1>1, EditsAssumption DEF Published, Graphs
<1> QED BY <1>2 DEF Graphs

LEMMA UnusedFacts ==
  /\ Unused \in SaveRequests /\ RequestShape(Unused) /\ Unused.by \notin Editors
  /\ Unused.stage = "unused" /\ \A row : RequestFits(Unused, row)
<1>1. Published \in Graphs BY GraphFacts
<1>2. Unused \in SaveRequests BY <1>1 DEF Unused, SaveRequests
<1> QED BY <1>2, EditsAssumption DEF Unused, RequestShape, RequestFits

LEMMA EditsInitInv == EditsInit => EditsInv
<1> SUFFICES ASSUME EditsInit PROVE EditsInv OBVIOUS
<1>1. Published \in Graphs /\ [rev |-> 0, graph |-> Published] \in Rows
  BY GraphFacts DEF Rows
<1>2. Loaded \in EditorStores BY <1>1 DEF Loaded, EditorStores
<1>3. EditsTyped BY <1>1, <1>2, UnusedFacts DEF EditsInit, EditsTyped
<1>4. /\ \A e \in Editors : editor[e] = Loaded
      /\ \A c \in Slots : save[c] = Unused
      /\ stored.rev = 0 /\ stored.graph = Published
  BY DEF EditsInit
<1>5. EditorFits(Loaded, stored) BY <1>4 DEF EditorFits, Loaded, Fits
<1>6. RevisionsFit BY <1>4, <1>5, UnusedFacts DEF RevisionsFit
<1>7. EditorsInTurn
  BY <1>4, UnusedFacts DEF EditorsInTurn, InTurn, DrawnIsSent, Loaded
<1> QED BY <1>3, <1>4, <1>6, <1>7, UnusedFacts DEF EditsInv

LEMMA EditsInvImplies == EditsInv => QuietIsSaved
BY DEF EditsInv, EditorsInTurn, DrawnIsSent, QuietIsSaved, Busy

-----------------------------------------------------------------------------
\* An editor becomes `now`, and the requests become `after`.
Requested(e, after) ==
  /\ after \in [Slots -> SaveRequests]
  /\ \A c \in Slots : RequestShape(after[c])
  /\ ~reused => \A c \in Slots : RequestFits(after[c], stored)
  /\ \A f \in Editors \ {e}, c \in Slots :
       /\ after[c].by = f <=> save[c].by = f
       /\ save[c].by = f => after[c] = save[c]

Becomes(e, now, after) ==
  /\ now \in EditorStores
  /\ editor' = [editor EXCEPT ![e] = now] /\ save' = after
  /\ UNCHANGED <<stored, reused>>
  /\ ~reused => EditorFits(now, stored)
  /\ ~now.crossed /\ ~reused => InTurn(e, now, after) /\ DrawnIsSent(e, now, after)

LEMMA EditorBecomes ==
  ASSUME EditsInv, NEW e \in Editors, NEW now, NEW after,
         Requested(e, after), Becomes(e, now, after)
  PROVE  EditsInv'
<1>1. EditsTyped' BY DEF EditsInv, EditsTyped, Requested, Becomes
<1>2. editor'[e] = now /\ \A f \in Editors \ {e} : editor'[f] = editor[f]
  BY DEF EditsInv, EditsTyped, Becomes
<1>3. RevisionsFit' BY <1>2 DEF EditsInv, RevisionsFit, Requested, Becomes
<1>4. \A c \in Slots : RequestShape(save[c])' BY DEF Requested, Becomes, RequestShape
<1>5. ASSUME NEW f \in Editors \ {e}, ~editor'[f].crossed, ~reused'
      PROVE  InTurn(f, editor'[f], save') /\ DrawnIsSent(f, editor'[f], save')
  <2>1. InTurn(f, editor[f], save) /\ DrawnIsSent(f, editor[f], save)
    BY <1>2, <1>5 DEF EditsInv, EditorsInTurn, Becomes
  <2>2. \A c \in Slots : /\ save'[c].by = f <=> save[c].by = f
                         /\ save[c].by = f => save'[c] = save[c]
    BY DEF Requested, Becomes
  <2>3. InTurn(f, editor'[f], save') BY <1>2, <2>1, <2>2 DEF InTurn
  <2>4. DrawnIsSent(f, editor'[f], save') BY <1>2, <2>1, <2>2 DEF DrawnIsSent
  <2> QED BY <2>3, <2>4
<1>6. EditorsInTurn' BY <1>2, <1>5 DEF EditorsInTurn, Becomes
<1> QED BY <1>1, <1>3, <1>4, <1>6 DEF EditsInv

\* The requests as they are.
LEMMA SameRequests == ASSUME EditsInv, NEW e \in Editors PROVE Requested(e, save)
BY DEF EditsInv, EditsTyped, RevisionsFit, Requested

\* A request comes to its end.
LEMMA RequestEnds ==
  ASSUME EditsInv, NEW e \in Editors, NEW c \in Slots, save[c].by = e
  PROVE  /\ Requested(e, [save EXCEPT ![c] = Unused])
         /\ ~editor[e].crossed /\ ~reused =>
              \A d \in Slots : [save EXCEPT ![c] = Unused][d].by # e
<1> DEFINE after == [save EXCEPT ![c] = Unused]
<1>1. /\ after \in [Slots -> SaveRequests] /\ after[c] = Unused
      /\ \A d \in Slots \ {c} : after[d] = save[d]
  BY UnusedFacts DEF EditsInv, EditsTyped
<1> HIDE DEF after
<1>2. Requested(e, after)
  BY <1>1, UnusedFacts DEF EditsInv, RevisionsFit, Requested
<1>3. ~editor[e].crossed /\ ~reused => \A d \in Slots : after[d].by # e
  BY <1>1, UnusedFacts DEF EditsInv, EditorsInTurn, InTurn
<1> QED BY <1>2, <1>3 DEF after

-----------------------------------------------------------------------------
\* A request r goes out on its own.
LEMMA RequestSent ==
  ASSUME NEW e \in Editors, NEW after, Requested(e, after),
         NEW c \in Slots, after[c].stage = "unused",
         NEW r \in SaveRequests, RequestShape(r), r.by = e \/ r.by \notin Editors,
         ~reused => RequestFits(r, stored)
  PROVE  LET sent == [after EXCEPT ![c] = r]
         IN  /\ Requested(e, sent) /\ sent[c] = r
             /\ \A d \in Slots \ {c} : sent[d] = after[d]
<1> DEFINE sent == [after EXCEPT ![c] = r]
<1>1. /\ sent \in [Slots -> SaveRequests] /\ sent[c] = r
      /\ \A d \in Slots \ {c} : sent[d] = after[d]
  BY DEF Requested
<1> HIDE DEF sent
<1>2. after[c].by \notin Editors BY DEF Requested, RequestShape
<1>3. \A f \in Editors \ {e}, d \in Slots :
        /\ sent[d].by = f <=> save[d].by = f
        /\ save[d].by = f => sent[d] = save[d]
  BY <1>1, <1>2 DEF Requested
<1>4. Requested(e, sent) BY <1>1, <1>3 DEF Requested
<1> QED BY <1>1, <1>4 DEF sent

\* What a flush sets out from: it may have forgotten the timer.
Flushable(e, now, after) ==
  /\ now \in EditorStores /\ Requested(e, after)
  /\ ~reused => EditorFits(now, stored)
  /\ ~now.crossed /\ ~reused => InTurn(e, now, after)

LEMMA FlushKeeps ==
  ASSUME EditsInv, NEW e \in Editors, NEW now, NEW after,
         Flushable(e, now, after), Flushed(e, now, after),
         UNCHANGED <<stored, reused>>
  PROVE  EditsInv'
<1>1. CASE /\ now.conflict \/ (~now.saving /\ now.drawn = now.known)
           /\ editor' = [editor EXCEPT ![e] = now] /\ save' = after
  <2>1. ~now.crossed /\ ~reused => InTurn(e, now, after) /\ DrawnIsSent(e, now, after)
    BY <1>1 DEF Flushable, InTurn, DrawnIsSent
  <2> QED BY <1>1, <2>1, EditorBecomes DEF Flushable, Becomes
<1>2. CASE /\ ~now.conflict /\ now.saving
           /\ editor' = [editor EXCEPT ![e] = [now EXCEPT !.pending = TRUE]] /\ save' = after
  <2> DEFINE later == [now EXCEPT !.pending = TRUE]
  <2>1. /\ later \in EditorStores
        /\ later.rev = now.rev /\ later.known = now.known /\ later.drawn = now.drawn
        /\ later.saving = now.saving /\ later.pending /\ later.conflict = now.conflict
        /\ later.load = now.load /\ later.found = now.found /\ later.stale = now.stale
        /\ later.crossed = now.crossed
    BY DEF Flushable, EditorStores
  <2>2. editor' = [editor EXCEPT ![e] = later] BY <1>2
  <2> HIDE DEF later
  <2>3. ~later.crossed /\ ~reused => InTurn(e, later, after) /\ DrawnIsSent(e, later, after)
    BY <1>2, <2>1 DEF Flushable, InTurn, DrawnIsSent, Deferred
  <2>4. ~reused => EditorFits(later, stored) BY <2>1 DEF Flushable, EditorFits
  <2> QED BY <1>2, <2>1, <2>2, <2>3, <2>4, EditorBecomes DEF Flushable, Becomes
<1>3. CASE /\ ~now.conflict /\ ~now.saving
           /\ \E c \in Slots : Sending(c, after) /\ save' = WithPatch(after, c, e, now)
           /\ editor' = [editor EXCEPT ![e] = WhileSaving(e, now, after)]
  <2>1. PICK c \in Slots : Sending(c, after) /\ save' = WithPatch(after, c, e, now)
    BY <1>3
  <2> DEFINE r == [stage |-> "sent", by |-> e, kind |-> "patch", rev |-> now.rev,
                   from |-> now.known, to |-> now.drawn, stale |-> now.stale]
  <2> DEFINE saving == WhileSaving(e, now, after)
  <2> DEFINE sent == [after EXCEPT ![c] = r]
  <2>2. r \in SaveRequests /\ RequestShape(r) /\ r.by = e
    BY DEF Flushable, EditorStores, SaveRequests, RequestShape
  <2>3. /\ r.kind = "patch" /\ r.stage = "sent" /\ r.rev = now.rev /\ r.from = now.known
        /\ r.to = now.drawn /\ r.stale = now.stale
    OBVIOUS
  <2>4. save' = sent BY <2>1 DEF WithPatch
  <2> HIDE DEF r
  <2>5. ~reused => RequestFits(r, stored)
    BY <2>3 DEF Flushable, RequestFits, EditorFits
  <2>6. /\ Requested(e, sent) /\ sent[c] = r
        /\ \A d \in Slots \ {c} : sent[d] = after[d]
    BY <2>1, <2>2, <2>5, RequestSent DEF Flushable, Sending
  <2>7. /\ saving \in EditorStores
        /\ saving.rev = now.rev /\ saving.known = now.known /\ saving.drawn = now.drawn
        /\ saving.saving /\ saving.conflict = now.conflict
        /\ saving.load = now.load /\ saving.found = now.found /\ saving.stale = now.stale
        /\ ~saving.crossed => /\ ~now.crossed /\ ~now.stale /\ now.load = "none"
                              /\ \A d \in Slots : after[d].by # e
    <3> DEFINE cross == now.crossed \/ now.stale \/ now.load # "none"
                          \/ \E d \in Slots : after[d].by = e
    <3>1. cross \in BOOLEAN OBVIOUS
    <3>2. saving = [now EXCEPT !.saving = TRUE, !.crossed = cross]
      BY DEF WhileSaving, Flushable, EditorStores
    <3>3. ~cross => /\ ~now.crossed /\ ~now.stale /\ now.load = "none"
                    /\ \A d \in Slots : after[d].by # e
      OBVIOUS
    <3> HIDE DEF cross, saving
    <3>4. now \in EditorStores BY DEF Flushable
    <3>5. \A s \in EditorStores : [s EXCEPT !.saving = TRUE] \in EditorStores BY DEF EditorStores
    <3>6. \A s \in EditorStores : [s EXCEPT !.crossed = cross] \in EditorStores
      BY <3>1 DEF EditorStores
    <3>7. \A s \in EditorStores : [s EXCEPT !.saving = TRUE, !.crossed = cross] =
                                    [[s EXCEPT !.saving = TRUE] EXCEPT !.crossed = cross]
      BY DEF EditorStores
    <3>8. saving \in EditorStores BY <3>2, <3>4, <3>5, <3>6, <3>7
    <3>9. /\ saving.rev = now.rev /\ saving.known = now.known /\ saving.drawn = now.drawn
          /\ saving.saving = TRUE /\ saving.conflict = now.conflict
          /\ saving.load = now.load /\ saving.found = now.found /\ saving.stale = now.stale
          /\ saving.crossed = cross
      BY <3>2, <3>4 DEF EditorStores
    <3> QED BY <3>3, <3>8, <3>9
  <2>8. editor' = [editor EXCEPT ![e] = saving] BY <1>3
  <2> HIDE DEF saving, sent
  <2>9. ~reused => EditorFits(saving, stored) BY <2>7 DEF Flushable, EditorFits
  <2>10. ~saving.crossed /\ ~reused => InTurn(e, saving, sent) /\ DrawnIsSent(e, saving, sent)
    <3> SUFFICES ASSUME ~saving.crossed, ~reused
                 PROVE  InTurn(e, saving, sent) /\ DrawnIsSent(e, saving, sent)
      OBVIOUS
    <3>1. \A d \in Slots : sent[d].by = e => d = c BY <2>6, <2>7
    <3>2. InTurn(e, saving, sent) BY <1>3, <2>2, <2>3, <2>6, <2>7, <3>1 DEF InTurn
    <3>3. DrawnIsSent(e, saving, sent)
      BY <2>2, <2>3, <2>6, <2>7, <3>1 DEF DrawnIsSent
    <3> QED BY <3>2, <3>3
  <2> QED BY <2>4, <2>6, <2>7, <2>8, <2>9, <2>10, EditorBecomes DEF Becomes
<1> QED BY <1>1, <1>2, <1>3 DEF Flushed

\* What the end of a request sets out from.
LEMMA SettleKeeps ==
  ASSUME EditsInv, NEW e \in Editors, NEW now \in EditorStores, NEW after,
         NEW succeeded \in BOOLEAN,
         Requested(e, after), Settled(e, now, succeeded, after),
         ~reused => EditorFits(now, stored),
         ~now.crossed /\ ~reused =>
           /\ \A c \in Slots : after[c].by # e
           /\ ~now.timer /\ ~now.pending /\ ~now.conflict /\ ~now.failed => now.drawn = now.known,
         UNCHANGED <<stored, reused>>
  PROVE  EditsInv'
<1> DEFINE rested == [now EXCEPT !.saving = FALSE, !.pending = FALSE]
<1> DEFINE retried == [rested EXCEPT !.timer = TRUE]
<1>0. \A s \in EditorStores : /\ [s EXCEPT !.saving = FALSE] \in EditorStores
                              /\ [s EXCEPT !.pending = FALSE] \in EditorStores
                              /\ [s EXCEPT !.timer = TRUE] \in EditorStores
  BY DEF EditorStores
<1>1. /\ rested \in EditorStores
      /\ rested.rev = now.rev /\ rested.known = now.known /\ rested.drawn = now.drawn
      /\ rested.timer = now.timer /\ rested.saving = FALSE /\ rested.pending = FALSE
      /\ rested.conflict = now.conflict /\ rested.failed = now.failed
      /\ rested.load = now.load /\ rested.found = now.found /\ rested.stale = now.stale
      /\ rested.crossed = now.crossed
  <2>1. rested = [[now EXCEPT !.saving = FALSE] EXCEPT !.pending = FALSE] BY DEF EditorStores
  <2>2. rested \in EditorStores BY <1>0, <2>1
  <2> QED BY <2>2 DEF EditorStores
<1> HIDE DEF rested
<1>2. /\ retried \in EditorStores
      /\ retried.rev = now.rev /\ retried.known = now.known /\ retried.drawn = now.drawn
      /\ retried.timer = TRUE /\ retried.saving = FALSE /\ retried.pending = FALSE
      /\ retried.load = now.load /\ retried.found = now.found /\ retried.stale = now.stale
      /\ retried.crossed = now.crossed
  BY <1>0, <1>1 DEF EditorStores
<1> HIDE DEF retried
<1>3. CASE ~rested.conflict /\ now.pending /\ succeeded
  <2>1. Flushed(e, rested, after) BY <1>3 DEF Settled, rested
  <2>2. Flushable(e, rested, after) BY <1>1 DEF Flushable, EditorFits, InTurn
  <2> QED BY <2>1, <2>2, FlushKeeps
<1>4. CASE rested.conflict \/ ~now.pending
  <2>1. editor' = [editor EXCEPT ![e] = rested] /\ save' = after BY <1>4 DEF Settled, rested
  <2>2. ~reused => EditorFits(rested, stored) BY <1>1 DEF EditorFits
  <2>3. ~rested.crossed /\ ~reused => InTurn(e, rested, after) /\ DrawnIsSent(e, rested, after)
    BY <1>1, <1>4 DEF InTurn, DrawnIsSent
  <2> QED BY <1>1, <2>1, <2>2, <2>3, EditorBecomes DEF Becomes
<1>5. CASE ~rested.conflict /\ now.pending /\ ~succeeded
  <2>1. editor' = [editor EXCEPT ![e] = retried] /\ save' = after
    BY <1>5 DEF Settled, rested, retried
  <2>2. ~reused => EditorFits(retried, stored) BY <1>2 DEF EditorFits
  <2>3. ~retried.crossed /\ ~reused => InTurn(e, retried, after) /\ DrawnIsSent(e, retried, after)
    BY <1>2 DEF InTurn, DrawnIsSent
  <2> QED BY <1>2, <2>1, <2>2, <2>3, EditorBecomes DEF Becomes
<1> QED BY <1>3, <1>4, <1>5

-----------------------------------------------------------------------------
\* What is drawn waits for the timer, or is in a conflict.
LEMMA DrawKeeps ==
  ASSUME EditsInv, NEW e \in Editors, NEW graph \in Graphs, Draws(e, graph)
  PROVE  EditsInv'
<1> DEFINE waits == editor[e].timer \/ ~editor[e].conflict
<1> DEFINE now == [[editor[e] EXCEPT !.drawn = graph] EXCEPT !.timer = waits]
<1>1. editor[e] \in EditorStores /\ save' = save /\ UNCHANGED <<stored, reused>>
  BY DEF EditsInv, EditsTyped, Draws
<1>2. \A s \in EditorStores, b \in BOOLEAN : /\ [s EXCEPT !.drawn = graph] \in EditorStores
                                             /\ [s EXCEPT !.timer = b] \in EditorStores
  BY DEF EditorStores
<1>3. /\ waits \in BOOLEAN /\ waits = (editor[e].timer \/ ~editor[e].conflict)
      /\ editor' = [editor EXCEPT ![e] = [editor[e] EXCEPT !.drawn = graph, !.timer = waits]]
  BY DEF Draws
<1> HIDE DEF waits
<1>4. now \in EditorStores BY <1>1, <1>2, <1>3
<1>5. /\ now.rev = editor[e].rev /\ now.known = editor[e].known
      /\ now.timer = (editor[e].timer \/ ~editor[e].conflict) /\ now.saving = editor[e].saving
      /\ now.pending = editor[e].pending /\ now.conflict = editor[e].conflict
      /\ now.load = editor[e].load /\ now.found = editor[e].found /\ now.stale = editor[e].stale
      /\ now.crossed = editor[e].crossed
  BY <1>1, <1>3, <1>4 DEF EditorStores
<1>6. editor' = [editor EXCEPT ![e] = now] BY <1>1, <1>3 DEF EditorStores
<1> HIDE DEF now
<1>7. ~reused => EditorFits(now, stored) BY <1>5 DEF EditsInv, RevisionsFit, EditorFits
<1>8. ~now.crossed /\ ~reused => InTurn(e, now, save) /\ DrawnIsSent(e, now, save)
  <2> SUFFICES ASSUME ~now.crossed, ~reused
               PROVE  InTurn(e, now, save) /\ DrawnIsSent(e, now, save)
    OBVIOUS
  <2>1. InTurn(e, editor[e], save) BY <1>5 DEF EditsInv, EditorsInTurn
  <2>2. InTurn(e, now, save) BY <1>5, <2>1 DEF InTurn
  <2>3. DrawnIsSent(e, now, save) BY <1>5, <2>1 DEF InTurn, DrawnIsSent, Deferred
  <2> QED BY <2>2, <2>3
<1> QED BY <1>1, <1>4, <1>6, <1>7, <1>8, SameRequests, EditorBecomes DEF Becomes

LEMMA DrawStep ==
  ASSUME EditsInv, NEW e \in Editors, NEW n \in Nodes,
         \/ AddsNode(e, n) \/ (\E v \in Contents : ChangesNode(e, n, v))
         \/ DeletesNode(e, n) \/ Connects(e, n) \/ Disconnects(e, n)
  PROVE  EditsInv'
<1> DEFINE drawn == editor[e].drawn
<1>0. drawn \in Graphs BY DEF EditsInv, EditsTyped, EditorStores
<1>1. CASE AddsNode(e, n)
  <2>1. Fresh \in Contents BY EditsAssumption DEF Fresh
  <2>2. [drawn EXCEPT !.nodes[n] = Fresh] \in Graphs BY <1>0, <2>1 DEF Graphs
  <2> QED BY <1>1, <2>2, DrawKeeps DEF AddsNode
<1>2. CASE \E v \in Contents : ChangesNode(e, n, v)
  <2>1. PICK v \in Contents : ChangesNode(e, n, v) BY <1>2
  <2>2. [drawn EXCEPT !.nodes[n] = v] \in Graphs BY <1>0 DEF Graphs
  <2> QED BY <2>1, <2>2, DrawKeeps DEF ChangesNode
<1>3. CASE DeletesNode(e, n)
  <2>1. [nodes |-> [drawn.nodes EXCEPT ![n] = "absent"], edges |-> drawn.edges \ {n}] \in Graphs
    BY <1>0 DEF Graphs
  <2> QED BY <1>3, <2>1, DrawKeeps DEF DeletesNode
<1>4. CASE Connects(e, n)
  <2>1. [drawn EXCEPT !.edges = @ \cup {n}] \in Graphs BY <1>0 DEF Graphs
  <2> QED BY <1>4, <2>1, DrawKeeps DEF Connects
<1>5. CASE Disconnects(e, n)
  <2>1. [drawn EXCEPT !.edges = @ \ {n}] \in Graphs BY <1>0 DEF Graphs
  <2> QED BY <1>5, <2>1, DrawKeeps DEF Disconnects
<1> QED BY <1>1, <1>2, <1>3, <1>4, <1>5

\* Everything is sent, whatever is under way.
LEMMA SavesAllStep ==
  ASSUME EditsInv, NEW e \in Editors, SavesAll(e) PROVE EditsInv'
<1>0. editor[e] \in EditorStores /\ UNCHANGED <<stored, reused>>
  BY DEF EditsInv, EditsTyped, SavesAll
<1> DEFINE r == [stage |-> "sent", by |-> e, kind |-> "post", rev |-> 0,
                 from |-> Published, to |-> editor[e].drawn, stale |-> FALSE]
<1>1. PICK c \in Slots :
        /\ Sending(c, save)
        /\ save' = [save EXCEPT ![c] = r]
        /\ editor' = [editor EXCEPT ![e] =
             [@ EXCEPT !.saving = TRUE, !.conflict = FALSE, !.timer = FALSE,
                       !.crossed = editor[e].crossed \/ Busy(e)]]
  BY DEF SavesAll
<1> DEFINE sent == [save EXCEPT ![c] = r]
<1> DEFINE cross == editor[e].crossed \/ Busy(e)
<1> DEFINE now == [[[[editor[e] EXCEPT !.saving = TRUE] EXCEPT !.conflict = FALSE]
                      EXCEPT !.timer = FALSE] EXCEPT !.crossed = cross]
<1>2. /\ r \in SaveRequests /\ RequestShape(r) /\ r.by = e /\ r.kind = "post"
      /\ r.to = editor[e].drawn /\ \A row : RequestFits(r, row)
  BY <1>0, GraphFacts DEF SaveRequests, EditorStores, RequestShape, RequestFits
<1>3. save[c].stage = "unused" BY <1>1 DEF Sending
<1> HIDE DEF r
<1>4. /\ Requested(e, sent) /\ sent[c] = r /\ \A d \in Slots \ {c} : sent[d] = save[d]
  BY <1>2, <1>3, SameRequests, RequestSent
<1>5. save' = sent BY <1>1
<1> HIDE DEF sent
<1>6. cross \in BOOLEAN BY <1>0 DEF EditorStores, Busy
<1>7. ~cross => ~editor[e].crossed /\ editor[e].load = "none" /\ \A d \in Slots : save[d].by # e
  BY DEF Busy
<1>8. editor' = [editor EXCEPT ![e] =
        [editor[e] EXCEPT !.saving = TRUE, !.conflict = FALSE, !.timer = FALSE, !.crossed = cross]]
  BY <1>1
<1> HIDE DEF cross
<1>9. editor' = [editor EXCEPT ![e] = now] BY <1>0, <1>8 DEF EditorStores
<1>10. \A s \in EditorStores : /\ [s EXCEPT !.saving = TRUE] \in EditorStores
                              /\ [s EXCEPT !.conflict = FALSE] \in EditorStores
                              /\ [s EXCEPT !.timer = FALSE] \in EditorStores
                              /\ [s EXCEPT !.crossed = cross] \in EditorStores
  BY <1>6 DEF EditorStores
<1>11. now \in EditorStores BY <1>0, <1>10
<1>12. /\ now.rev = editor[e].rev /\ now.known = editor[e].known /\ now.drawn = editor[e].drawn
       /\ now.saving = TRUE /\ now.conflict = FALSE
       /\ now.load = editor[e].load /\ now.found = editor[e].found /\ now.stale = editor[e].stale
       /\ now.crossed = cross
  BY <1>0 DEF EditorStores
<1> HIDE DEF now
<1>13. ~reused => EditorFits(now, stored) BY <1>12 DEF EditsInv, RevisionsFit, EditorFits
<1>14. ~now.crossed /\ ~reused => InTurn(e, now, sent) /\ DrawnIsSent(e, now, sent)
  <2> SUFFICES ASSUME ~now.crossed, ~reused
               PROVE  InTurn(e, now, sent) /\ DrawnIsSent(e, now, sent)
    OBVIOUS
  <2>1. \A d \in Slots : sent[d].by = e => d = c BY <1>4, <1>7, <1>12
  <2>2. InTurn(e, now, sent) BY <1>2, <1>4, <1>7, <1>12, <2>1 DEF InTurn
  <2>3. DrawnIsSent(e, now, sent) BY <1>2, <1>4, <1>12, <2>1 DEF DrawnIsSent
  <2> QED BY <2>2, <2>3
<1> QED BY <1>0, <1>4, <1>5, <1>9, <1>11, <1>13, <1>14, EditorBecomes DEF Becomes

LEMMA ReloadsStep ==
  ASSUME EditsInv, NEW e \in Editors, Reloads(e) PROVE EditsInv'
<1>0. editor[e] \in EditorStores /\ UNCHANGED <<stored, save, reused>>
  BY DEF EditsInv, EditsTyped, Reloads
<1> DEFINE cross == editor[e].crossed \/ Busy(e)
<1> DEFINE now == [[[editor[e] EXCEPT !.conflict = FALSE] EXCEPT !.load = "sent"]
                     EXCEPT !.crossed = cross]
<1>1. cross \in BOOLEAN BY <1>0 DEF EditorStores, Busy
<1>2. ~cross => ~editor[e].crossed /\ \A d \in Slots : save[d].by # e BY DEF Busy
<1>3. editor' = [editor EXCEPT ![e] =
        [editor[e] EXCEPT !.conflict = FALSE, !.load = "sent", !.crossed = cross]]
  BY DEF Reloads
<1> HIDE DEF cross
<1>4. editor' = [editor EXCEPT ![e] = now] BY <1>0, <1>3 DEF EditorStores
<1>5. \A s \in EditorStores : /\ [s EXCEPT !.conflict = FALSE] \in EditorStores
                              /\ [s EXCEPT !.load = "sent"] \in EditorStores
                              /\ [s EXCEPT !.crossed = cross] \in EditorStores
  BY <1>1 DEF EditorStores
<1>6. now \in EditorStores BY <1>0, <1>5
<1>7. /\ now.rev = editor[e].rev /\ now.known = editor[e].known
      /\ now.saving = editor[e].saving /\ now.pending = editor[e].pending
      /\ now.load = "sent" /\ now.stale = editor[e].stale /\ now.crossed = cross
  BY <1>0 DEF EditorStores
<1> HIDE DEF now
<1>8. ~reused => EditorFits(now, stored) BY <1>7 DEF EditsInv, RevisionsFit, EditorFits
<1>9. ~now.crossed /\ ~reused => InTurn(e, now, save) /\ DrawnIsSent(e, now, save)
  <2> SUFFICES ASSUME ~now.crossed, ~reused
               PROVE  InTurn(e, now, save) /\ DrawnIsSent(e, now, save)
    OBVIOUS
  <2>1. InTurn(e, editor[e], save) BY <1>2, <1>7 DEF EditsInv, EditorsInTurn
  <2> QED BY <1>2, <1>7, <2>1 DEF InTurn, DrawnIsSent
<1> QED BY <1>0, <1>4, <1>6, <1>8, <1>9, SameRequests, EditorBecomes DEF Becomes

LEMMA TimerStep ==
  ASSUME EditsInv, NEW e \in Editors, TimerFires(e) PROVE EditsInv'
<1> DEFINE now == [editor[e] EXCEPT !.timer = FALSE]
<1>0. editor[e] \in EditorStores BY DEF EditsInv, EditsTyped
<1>1. /\ now \in EditorStores
      /\ now.rev = editor[e].rev /\ now.known = editor[e].known
      /\ now.saving = editor[e].saving /\ now.pending = editor[e].pending
      /\ now.conflict = editor[e].conflict /\ now.found = editor[e].found
      /\ now.load = editor[e].load /\ now.stale = editor[e].stale
      /\ now.crossed = editor[e].crossed
  BY <1>0 DEF EditorStores
<1>2. Flushed(e, now, save) /\ UNCHANGED <<stored, reused>> BY DEF TimerFires
<1> HIDE DEF now
<1>3. ~reused => EditorFits(now, stored) BY <1>1 DEF EditsInv, RevisionsFit, EditorFits
<1>4. ~now.crossed /\ ~reused => InTurn(e, now, save)
  BY <1>1 DEF EditsInv, EditorsInTurn, InTurn
<1> QED BY <1>1, <1>2, <1>3, <1>4, SameRequests, FlushKeeps DEF Flushable

LEMMA ReadsPipelineStep ==
  ASSUME EditsInv, NEW e \in Editors, ReadsPipeline(e) PROVE EditsInv'
<1>0. /\ editor[e] \in EditorStores /\ stored \in Rows /\ UNCHANGED <<stored, save, reused>>
      /\ editor[e].load = "sent"
  BY DEF EditsInv, EditsTyped, ReadsPipeline
<1> DEFINE now == [[editor[e] EXCEPT !.load = "answered"] EXCEPT !.found = stored]
<1>1. /\ now \in EditorStores
      /\ now.rev = editor[e].rev /\ now.known = editor[e].known
      /\ now.saving = editor[e].saving /\ now.pending = editor[e].pending
      /\ now.load = "answered" /\ now.found = stored /\ now.stale = editor[e].stale
      /\ now.crossed = editor[e].crossed
  BY <1>0 DEF EditorStores
<1>2. editor' = [editor EXCEPT ![e] = now]
  BY <1>0 DEF ReadsPipeline, EditsInv, EditsTyped, EditorStores
<1> HIDE DEF now
<1>3. ~reused => EditorFits(now, stored)
  BY <1>0, <1>1 DEF EditsInv, RevisionsFit, EditorFits, Fits, Rows
<1>4. ~now.crossed /\ ~reused => InTurn(e, now, save) /\ DrawnIsSent(e, now, save)
  <2> SUFFICES ASSUME ~now.crossed, ~reused
               PROVE  InTurn(e, now, save) /\ DrawnIsSent(e, now, save)
    OBVIOUS
  <2>1. InTurn(e, editor[e], save) BY <1>1 DEF EditsInv, EditorsInTurn
  <2>2. \A d \in Slots : save[d].by # e BY <1>0, <2>1 DEF InTurn
  <2> QED BY <1>1, <2>1, <2>2 DEF InTurn, DrawnIsSent
<1> QED BY <1>0, <1>1, <1>2, <1>3, <1>4, SameRequests, EditorBecomes DEF Becomes

LEMMA LoadAnsweredStep ==
  ASSUME EditsInv, NEW e \in Editors, LoadAnswered(e) PROVE EditsInv'
<1> DEFINE old == editor[e]
<1>0. /\ old \in EditorStores /\ old.load = "answered" /\ UNCHANGED <<stored, save, reused>>
      /\ old.found \in Rows /\ old.found.graph \in Graphs /\ old.found.rev \in Nat
      /\ Loaded.found \in Rows
  BY GraphFacts DEF EditsInv, EditsTyped, LoadAnswered, EditorStores, Rows, Loaded
<1> DEFINE now == [[[[[[[old EXCEPT !.rev = old.found.rev] EXCEPT !.known = old.found.graph]
                      EXCEPT !.drawn = old.found.graph] EXCEPT !.load = "none"]
                      EXCEPT !.found = Loaded.found] EXCEPT !.stale = FALSE]
                      EXCEPT !.failed = FALSE]
<1>1. \A s \in EditorStores :
        /\ [s EXCEPT !.rev = old.found.rev] \in EditorStores
        /\ [s EXCEPT !.known = old.found.graph] \in EditorStores
        /\ [s EXCEPT !.drawn = old.found.graph] \in EditorStores
        /\ [s EXCEPT !.load = "none"] \in EditorStores
        /\ [s EXCEPT !.found = Loaded.found] \in EditorStores
        /\ [s EXCEPT !.stale = FALSE] \in EditorStores
        /\ [s EXCEPT !.failed = FALSE] \in EditorStores
  BY <1>0 DEF EditorStores
<1>2. now \in EditorStores BY <1>0, <1>1
<1>3. /\ now.rev = old.found.rev /\ now.known = old.found.graph /\ now.drawn = old.found.graph
      /\ now.saving = old.saving /\ now.pending = old.pending
      /\ now.load = "none" /\ now.stale = FALSE /\ now.crossed = old.crossed
  BY <1>0 DEF EditorStores
<1>4. editor' = [editor EXCEPT ![e] = now]
  BY <1>0 DEF LoadAnswered, EditsInv, EditsTyped, EditorStores
<1> HIDE DEF now
<1>5. ~reused => EditorFits(now, stored) BY <1>0, <1>3 DEF EditsInv, RevisionsFit, EditorFits
<1>6. ~now.crossed /\ ~reused => InTurn(e, now, save) /\ DrawnIsSent(e, now, save)
  <2> SUFFICES ASSUME ~now.crossed, ~reused
               PROVE  InTurn(e, now, save) /\ DrawnIsSent(e, now, save)
    OBVIOUS
  <2>1. InTurn(e, old, save) BY <1>3 DEF EditsInv, EditorsInTurn
  <2>2. \A d \in Slots : save[d].by # e BY <1>0, <2>1 DEF InTurn
  <2> QED BY <1>3, <2>1, <2>2 DEF InTurn, DrawnIsSent
<1> QED BY <1>0, <1>2, <1>4, <1>5, <1>6, SameRequests, EditorBecomes DEF Becomes

-----------------------------------------------------------------------------
(* The answers. *)

LEMMA PatchAnsweredStep ==
  ASSUME EditsInv, NEW c \in Slots, PatchAnswered(c) PROVE EditsInv'
<1> DEFINE e == save[c].by
<1> DEFINE to == save[c].to
<1> DEFINE drawn == [editor[e].drawn EXCEPT !.edges = to.edges]
<1>0. /\ e \in Editors /\ editor[e] \in EditorStores /\ save[c] \in SaveRequests
      /\ save[c].stage = "answered" /\ save[c].kind = "patch"
      /\ to \in Graphs /\ editor[e].drawn \in Graphs /\ save[c].rev \in Nat
      /\ UNCHANGED <<stored, reused>>
  BY DEF EditsInv, EditsTyped, RequestShape, PatchAnswered, SaveRequests, EditorStores
<1>1. /\ drawn \in Graphs
      /\ editor[e].drawn.nodes = to.nodes => drawn = to
  <2>1. drawn \in Graphs /\ drawn.nodes = editor[e].drawn.nodes /\ drawn.edges = to.edges
    BY <1>0 DEF Graphs
  <2> QED BY <1>0, <2>1, GraphFacts
<1> DEFINE now == [[[[[editor[e] EXCEPT !.rev = save[c].rev] EXCEPT !.known = to]
                      EXCEPT !.drawn = drawn] EXCEPT !.stale = FALSE] EXCEPT !.failed = FALSE]
<1> DEFINE after == [save EXCEPT ![c] = Unused]
<1>2. Settled(e, now, TRUE, after)
  <2>1. now = [editor[e] EXCEPT !.rev = save[c].rev, !.known = to, !.drawn.edges = to.edges,
                                !.stale = FALSE, !.failed = FALSE]
    BY <1>0 DEF EditorStores
  <2> HIDE DEF now
  <2> QED BY <2>1 DEF PatchAnswered
<1> HIDE DEF drawn
<1>3. \A s \in EditorStores :
        /\ [s EXCEPT !.rev = save[c].rev] \in EditorStores
        /\ [s EXCEPT !.known = to] \in EditorStores
        /\ [s EXCEPT !.drawn = drawn] \in EditorStores
        /\ [s EXCEPT !.stale = FALSE] \in EditorStores
        /\ [s EXCEPT !.failed = FALSE] \in EditorStores
  BY <1>0, <1>1 DEF EditorStores
<1>4. now \in EditorStores BY <1>0, <1>3
<1>5. /\ now.rev = save[c].rev /\ now.known = to /\ now.drawn = drawn
      /\ now.timer = editor[e].timer /\ now.pending = editor[e].pending
      /\ now.load = editor[e].load /\ now.found = editor[e].found
      /\ now.crossed = editor[e].crossed
  BY <1>0 DEF EditorStores
<1> HIDE DEF now
<1>6. ~reused => EditorFits(now, stored)
  BY <1>0, <1>5 DEF EditsInv, RevisionsFit, EditorFits, RequestFits
<1>7. Requested(e, after) /\ (~now.crossed /\ ~reused => \A d \in Slots : after[d].by # e)
  BY <1>0, <1>5, RequestEnds
<1> HIDE DEF after
<1>8. ~now.crossed /\ ~reused /\ ~now.timer /\ ~now.pending => now.drawn = now.known
  <2> SUFFICES ASSUME ~now.crossed, ~reused, ~now.timer, ~now.pending
               PROVE  editor[e].drawn.nodes = to.nodes
    BY <1>1, <1>5
  <2> QED BY <1>0, <1>5 DEF EditsInv, EditorsInTurn, DrawnIsSent, Deferred
<1> QED BY <1>0, <1>2, <1>4, <1>6, <1>7, <1>8, SettleKeeps

LEMMA PostAnsweredStep ==
  ASSUME EditsInv, NEW c \in Slots, PostAnswered(c) PROVE EditsInv'
<1> DEFINE e == save[c].by
<1> DEFINE to == save[c].to
<1>0. /\ e \in Editors /\ editor[e] \in EditorStores /\ save[c] \in SaveRequests
      /\ save[c].stage = "answered" /\ save[c].kind = "post"
      /\ to \in Graphs /\ save[c].rev \in Nat
      /\ UNCHANGED <<stored, reused>>
  BY DEF EditsInv, EditsTyped, RequestShape, PostAnswered, SaveRequests, EditorStores
<1> DEFINE now == [[[[editor[e] EXCEPT !.rev = save[c].rev] EXCEPT !.known = to]
                      EXCEPT !.stale = FALSE] EXCEPT !.failed = FALSE]
<1> DEFINE after == [save EXCEPT ![c] = Unused]
<1>2. Settled(e, now, TRUE, after)
  <2>1. now = [editor[e] EXCEPT !.rev = save[c].rev, !.known = to,
                                !.stale = FALSE, !.failed = FALSE]
    BY <1>0 DEF EditorStores
  <2> HIDE DEF now
  <2> QED BY <2>1 DEF PostAnswered
<1>3. \A s \in EditorStores :
        /\ [s EXCEPT !.rev = save[c].rev] \in EditorStores
        /\ [s EXCEPT !.known = to] \in EditorStores
        /\ [s EXCEPT !.stale = FALSE] \in EditorStores
        /\ [s EXCEPT !.failed = FALSE] \in EditorStores
  BY <1>0 DEF EditorStores
<1>4. now \in EditorStores BY <1>0, <1>3
<1>5. /\ now.rev = save[c].rev /\ now.known = to /\ now.drawn = editor[e].drawn
      /\ now.timer = editor[e].timer /\ now.pending = editor[e].pending
      /\ now.load = editor[e].load /\ now.found = editor[e].found
      /\ now.crossed = editor[e].crossed
  BY <1>0 DEF EditorStores
<1> HIDE DEF now
<1>6. ~reused => EditorFits(now, stored)
  BY <1>0, <1>5 DEF EditsInv, RevisionsFit, EditorFits, RequestFits
<1>7. Requested(e, after) /\ (~now.crossed /\ ~reused => \A d \in Slots : after[d].by # e)
  BY <1>0, <1>5, RequestEnds
<1> HIDE DEF after
<1>8. ~now.crossed /\ ~reused /\ ~now.timer /\ ~now.pending => now.drawn = now.known
  BY <1>0, <1>5 DEF EditsInv, EditorsInTurn, DrawnIsSent, Deferred
<1> QED BY <1>0, <1>2, <1>4, <1>6, <1>7, <1>8, SettleKeeps

LEMMA PatchRefusedStep ==
  ASSUME EditsInv, NEW c \in Slots, PatchRefused(c) PROVE EditsInv'
<1> DEFINE e == save[c].by
<1>0. /\ e \in Editors /\ editor[e] \in EditorStores /\ save[c].rev \in Nat
      /\ UNCHANGED <<stored, reused>>
  BY DEF EditsInv, EditsTyped, RequestShape, PatchRefused, SaveRequests
<1> DEFINE now == [[[editor[e] EXCEPT !.conflict = TRUE] EXCEPT !.rev = save[c].rev]
                     EXCEPT !.stale = TRUE]
<1> DEFINE after == [save EXCEPT ![c] = Unused]
<1>2. Settled(e, now, FALSE, after)
  <2>1. now = [editor[e] EXCEPT !.conflict = TRUE, !.rev = save[c].rev, !.stale = TRUE]
    BY <1>0 DEF EditorStores
  <2> HIDE DEF now
  <2> QED BY <2>1 DEF PatchRefused
<1>3. \A s \in EditorStores :
        /\ [s EXCEPT !.conflict = TRUE] \in EditorStores
        /\ [s EXCEPT !.rev = save[c].rev] \in EditorStores
        /\ [s EXCEPT !.stale = TRUE] \in EditorStores
  BY <1>0 DEF EditorStores
<1>4. now \in EditorStores BY <1>0, <1>3
<1>5. /\ now.conflict = TRUE /\ now.stale = TRUE
      /\ now.load = editor[e].load /\ now.found = editor[e].found
      /\ now.crossed = editor[e].crossed
  BY <1>0 DEF EditorStores
<1> HIDE DEF now
<1>6. ~reused => EditorFits(now, stored) BY <1>0, <1>5 DEF EditsInv, RevisionsFit, EditorFits
<1>7. Requested(e, after) /\ (~now.crossed /\ ~reused => \A d \in Slots : after[d].by # e)
  BY <1>0, <1>5, RequestEnds
<1> HIDE DEF after
<1> QED BY <1>0, <1>2, <1>4, <1>5, <1>6, <1>7, SettleKeeps

LEMMA SaveLostStep ==
  ASSUME EditsInv, NEW c \in Slots, SaveLost(c) PROVE EditsInv'
<1> DEFINE e == save[c].by
<1>0. e \in Editors /\ editor[e] \in EditorStores /\ UNCHANGED <<stored, reused>>
  BY DEF EditsInv, EditsTyped, SaveLost
<1> DEFINE now == [editor[e] EXCEPT !.failed = TRUE]
<1> DEFINE after == [save EXCEPT ![c] = Unused]
<1>2. Settled(e, now, FALSE, after) BY DEF SaveLost
<1>3. /\ now \in EditorStores
      /\ now.rev = editor[e].rev /\ now.known = editor[e].known /\ now.failed = TRUE
      /\ now.load = editor[e].load /\ now.found = editor[e].found
      /\ now.stale = editor[e].stale /\ now.crossed = editor[e].crossed
  BY <1>0 DEF EditorStores
<1> HIDE DEF now
<1>4. ~reused => EditorFits(now, stored) BY <1>0, <1>3 DEF EditsInv, RevisionsFit, EditorFits
<1>5. Requested(e, after) /\ (~now.crossed /\ ~reused => \A d \in Slots : after[d].by # e)
  BY <1>0, <1>3, RequestEnds
<1> HIDE DEF after
<1> QED BY <1>0, <1>2, <1>3, <1>4, <1>5, SettleKeeps

-----------------------------------------------------------------------------
(* The server. *)

\* What is older than the row may be anything.
LEMMA OlderFits ==
  ASSUME NEW old \in Rows, NEW row \in Rows, row = old \/ row.rev > old.rev
  PROVE  /\ \A now \in EditorStores : EditorFits(now, old) => EditorFits(now, row)
         /\ \A r \in SaveRequests : RequestFits(r, old) => RequestFits(r, row)
<1>1. \A rev \in Nat : \A graph : Fits(rev, graph, old) => Fits(rev, graph, row)
  BY DEF Fits, Rows
<1>2. \A now \in EditorStores : now.rev \in Nat /\ now.found.rev \in Nat
  BY DEF EditorStores, Rows
<1>3. \A r \in SaveRequests : r.rev \in Nat BY DEF SaveRequests
<1>4. \A now \in EditorStores : EditorFits(now, old) => EditorFits(now, row)
  BY <1>1, <1>2 DEF EditorFits
<1>5. \A r \in SaveRequests : RequestFits(r, old) => RequestFits(r, row)
  BY <1>1, <1>3 DEF RequestFits
<1> QED BY <1>4, <1>5

\* The server goes on with request c, and may store something newer.
Serves(c, r) ==
  /\ r \in SaveRequests /\ RequestShape(r)
  /\ save' = [save EXCEPT ![c] = r] /\ editor' = editor
  /\ stored' \in Rows /\ reused' \in BOOLEAN
  /\ ~reused' => ~reused /\ (stored' = stored \/ stored'.rev > stored.rev) /\ RequestFits(r, stored')
  /\ r.by = save[c].by \/ (r.by \notin Editors /\ save[c].by \notin Editors)
  /\ \A e \in Editors : r.by = e /\ ~editor[e].crossed /\ ~reused =>
       /\ r.kind = save[c].kind /\ r.stale = save[c].stale
       /\ r.kind = "patch" => r.to.nodes = save[c].to.nodes
       /\ r.kind = "post" => r.to = save[c].to

LEMMA ServerKeeps ==
  ASSUME EditsInv, NEW c \in Slots, NEW r, Serves(c, r)
  PROVE  EditsInv'
<1>1. /\ save'[c] = r /\ \A d \in Slots \ {c} : save'[d] = save[d]
      /\ save' \in [Slots -> SaveRequests]
  BY DEF EditsInv, EditsTyped, Serves
<1>2. EditsTyped' BY <1>1 DEF EditsInv, EditsTyped, Serves
<1>3. \A d \in Slots : RequestShape(save'[d]) BY <1>1 DEF EditsInv, Serves
<1>4. RevisionsFit'
  <2> SUFFICES ASSUME ~reused'
               PROVE  /\ \A e \in Editors : EditorFits(editor[e], stored')
                      /\ \A d \in Slots : RequestFits(save'[d], stored')
    BY DEF RevisionsFit, Serves
  <2>1. ~reused /\ (stored' = stored \/ stored'.rev > stored.rev) /\ RequestFits(r, stored')
    BY DEF Serves
  <2>2. /\ \A e \in Editors : EditorFits(editor[e], stored) /\ editor[e] \in EditorStores
        /\ \A d \in Slots : RequestFits(save[d], stored) /\ save[d] \in SaveRequests
        /\ stored \in Rows /\ stored' \in Rows
    BY <2>1 DEF EditsInv, EditsTyped, RevisionsFit, Serves
  <2> QED BY <1>1, <2>1, <2>2, OlderFits
<1>5. ASSUME NEW e \in Editors, ~editor[e].crossed, ~reused'
      PROVE  InTurn(e, editor[e], save') /\ DrawnIsSent(e, editor[e], save')
  <2>1. ~reused BY <1>5 DEF Serves
  <2>2. InTurn(e, editor[e], save) /\ DrawnIsSent(e, editor[e], save)
    BY <1>5, <2>1 DEF EditsInv, EditorsInTurn
  <2>3. \A d \in Slots :
          /\ save'[d].by = e <=> save[d].by = e
          /\ save'[d].by = e =>
               /\ save'[d].kind = save[d].kind /\ save'[d].stale = save[d].stale
               /\ save[d].kind = "patch" => save'[d].to.nodes = save[d].to.nodes
               /\ save[d].kind = "post" => save'[d].to = save[d].to
    BY <1>1, <1>5, <2>1 DEF Serves
  <2>4. InTurn(e, editor[e], save') BY <2>2, <2>3 DEF InTurn
  <2>5. DrawnIsSent(e, editor[e], save') BY <2>2, <2>3 DEF DrawnIsSent
  <2> QED BY <2>4, <2>5
<1>6. EditorsInTurn' BY <1>5 DEF EditorsInTurn, Serves
<1> QED BY <1>2, <1>3, <1>4, <1>6 DEF EditsInv

\* A difference that is applied to the graph it was computed from gives the other graph.
LEMMA PatchedRight ==
  ASSUME NEW graph \in Graphs, NEW from \in Graphs, NEW to \in Graphs
  PROVE  /\ Patched(graph, from, to) \in Graphs
         /\ graph = from => Patched(graph, from, to).nodes = to.nodes
<1>1. /\ graph.nodes \in [Nodes -> Contents \union {"absent"}] /\ graph.edges \in SUBSET Nodes
      /\ from.nodes \in [Nodes -> Contents \union {"absent"}] /\ from.edges \in SUBSET Nodes
      /\ to.nodes \in [Nodes -> Contents \union {"absent"}] /\ to.edges \in SUBSET Nodes
  BY GraphFacts
<1>2. PatchedNodes(graph, from, to) \in [Nodes -> Contents \union {"absent"}]
  BY <1>1 DEF PatchedNodes, Present
<1>3. PatchedEdges(graph, from, to) \in SUBSET Nodes BY <1>1 DEF PatchedEdges, Deleted, Present
<1>4. Patched(graph, from, to) \in Graphs BY <1>2, <1>3 DEF Patched, Graphs
<1>5. ASSUME graph = from PROVE PatchedNodes(graph, from, to) = to.nodes
  <2>1. ASSUME NEW n \in Nodes PROVE PatchedNodes(graph, from, to)[n] = to.nodes[n]
    BY <1>1, <1>5 DEF PatchedNodes, Deleted, Present
  <2> QED BY <1>1, <1>2, <2>1
<1> QED BY <1>4, <1>5 DEF Patched

LEMMA TakesPatchStep ==
  ASSUME EditsInv, NEW c \in Slots, TakesPatch(c) PROVE EditsInv'
<1>0. /\ save[c] \in SaveRequests /\ RequestShape(save[c]) /\ stored \in Rows
      /\ save[c].stage = "sent" /\ save[c].kind = "patch" /\ save[c].by \in Editors
      /\ stored.rev \in Nat /\ stored.graph \in Graphs
      /\ save[c].from \in Graphs /\ save[c].to \in Graphs
      /\ UNCHANGED <<editor, reused>> /\ save \in [Slots -> SaveRequests] /\ reused \in BOOLEAN
  BY DEF EditsInv, EditsTyped, RequestShape, TakesPatch, SaveRequests, Rows
<1>1. CASE save[c].rev # stored.rev
  <2> DEFINE r == [save[c] EXCEPT !.stage = "refused", !.rev = stored.rev]
  <2>1. save' = [save EXCEPT ![c] = r] /\ UNCHANGED stored BY <1>1 DEF TakesPatch
  <2>2. /\ r \in SaveRequests /\ r.stage = "refused" /\ r.kind = "patch"
        /\ r.by = save[c].by /\ r.stale = save[c].stale /\ r.to = save[c].to
    BY <1>0 DEF SaveRequests
  <2> HIDE DEF r
  <2>3. RequestShape(r) /\ \A row : RequestFits(r, row)
    BY <1>0, <2>2 DEF RequestShape, RequestFits
  <2> QED BY <1>0, <2>1, <2>2, <2>3, ServerKeeps DEF Serves
<1>2. CASE save[c].rev = stored.rev
  <2> DEFINE graph == Patched(stored.graph, save[c].from, save[c].to)
  <2> DEFINE r == [[[[save[c] EXCEPT !.stage = "answered"] EXCEPT !.rev = stored.rev + 1]
                      EXCEPT !.to = graph] EXCEPT !.from = Published]
  <2>1. /\ graph \in Graphs
        /\ stored.graph = save[c].from => graph.nodes = save[c].to.nodes
    BY <1>0, PatchedRight
  <2>2. /\ save' = [save EXCEPT ![c] = [save[c] EXCEPT !.stage = "answered", !.rev = stored.rev + 1,
                                          !.to = graph, !.from = Published]]
        /\ stored' = [rev |-> stored.rev + 1, graph |-> graph]
    BY <1>2 DEF TakesPatch
  <2> HIDE DEF graph
  <2>3. save' = [save EXCEPT ![c] = r] BY <1>0, <2>2 DEF SaveRequests
  <2>4. \A s \in SaveRequests : /\ [s EXCEPT !.stage = "answered"] \in SaveRequests
                                /\ [s EXCEPT !.rev = stored.rev + 1] \in SaveRequests
                                /\ [s EXCEPT !.to = graph] \in SaveRequests
                                /\ [s EXCEPT !.from = Published] \in SaveRequests
    BY <1>0, <2>1, GraphFacts DEF SaveRequests
  <2>5. r \in SaveRequests BY <1>0, <2>4
  <2>6. /\ r.stage = "answered" /\ r.kind = "patch" /\ r.by = save[c].by
        /\ r.stale = save[c].stale /\ r.to = graph /\ r.rev = stored.rev + 1
    BY <1>0 DEF SaveRequests
  <2> HIDE DEF r
  <2>7. /\ stored' \in Rows /\ stored'.rev = stored.rev + 1 /\ stored'.graph = graph
        /\ stored'.rev > stored.rev
    BY <1>0, <2>1, <2>2 DEF Rows
  <2>8. RequestShape(r) /\ RequestFits(r, stored')
    BY <1>0, <2>6, <2>7 DEF RequestShape, RequestFits, Fits
  <2>9. ASSUME NEW e \in Editors, r.by = e, ~editor[e].crossed, ~reused
        PROVE  r.to.nodes = save[c].to.nodes
    <3>1. ~save[c].stale BY <1>0, <2>6, <2>9 DEF EditsInv, EditorsInTurn, InTurn
    <3>2. stored.graph = save[c].from
      BY <1>0, <1>2, <2>9, <3>1 DEF EditsInv, RevisionsFit, RequestFits, Fits
    <3> QED BY <2>1, <2>6, <3>2
  <2> QED BY <1>0, <2>3, <2>5, <2>6, <2>7, <2>8, <2>9, ServerKeeps DEF Serves
<1> QED BY <1>1, <1>2

LEMMA LoadsRowStep ==
  ASSUME EditsInv, NEW c \in Slots, LoadsRow(c) PROVE EditsInv'
<1> DEFINE r == [save[c] EXCEPT !.stage = "loaded", !.rev = stored.rev]
<1>0. /\ save[c] \in SaveRequests /\ RequestShape(save[c]) /\ stored \in Rows
      /\ save[c].stage = "sent" /\ save[c].kind \in {"post", "revert"} /\ stored.rev \in Nat
      /\ UNCHANGED <<stored, editor, reused>> /\ save' = [save EXCEPT ![c] = r]
      /\ reused \in BOOLEAN
  BY DEF EditsInv, EditsTyped, LoadsRow, Rows
<1>1. /\ r \in SaveRequests /\ r.stage = "loaded" /\ r.kind = save[c].kind
      /\ r.by = save[c].by /\ r.stale = save[c].stale /\ r.to = save[c].to
  BY <1>0 DEF SaveRequests
<1> HIDE DEF r
<1>2. RequestShape(r) /\ \A row : RequestFits(r, row)
  BY <1>0, <1>1 DEF RequestShape, RequestFits
<1> QED BY <1>0, <1>1, <1>2, ServerKeeps DEF Serves

LEMMA SavesRowStep ==
  ASSUME EditsInv, NEW c \in Slots, SavesRow(c) PROVE EditsInv'
<1> DEFINE answer == [save[c] EXCEPT !.stage = "answered", !.rev = save[c].rev + 1]
<1> DEFINE r == IF save[c].by = Nobody THEN Unused ELSE answer
<1>0. /\ save[c] \in SaveRequests /\ RequestShape(save[c]) /\ stored \in Rows
      /\ save[c].stage = "loaded" /\ save[c].rev \in Nat /\ save[c].to \in Graphs
      /\ stored.rev \in Nat /\ reused \in BOOLEAN
      /\ editor' = editor
      /\ stored' = [rev |-> save[c].rev + 1, graph |-> save[c].to]
      /\ reused' = (reused \/ save[c].rev # stored.rev)
      /\ save' = [save EXCEPT ![c] = r]
      /\ save[c].by \in Editors \union {Nobody}
  BY DEF EditsInv, EditsTyped, SavesRow, Rows, SaveRequests
<1>1. /\ answer \in SaveRequests /\ answer.stage = "answered" /\ answer.kind = save[c].kind
      /\ answer.by = save[c].by /\ answer.stale = save[c].stale /\ answer.to = save[c].to
      /\ answer.rev = save[c].rev + 1
  <2>1. \A s \in SaveRequests : [s EXCEPT !.stage = "answered"] \in SaveRequests
    BY DEF SaveRequests
  <2>2. \A s \in SaveRequests : [s EXCEPT !.rev = save[c].rev + 1] \in SaveRequests
    BY <1>0 DEF SaveRequests
  <2>3. answer = [[save[c] EXCEPT !.stage = "answered"] EXCEPT !.rev = save[c].rev + 1]
    BY <1>0 DEF SaveRequests
  <2>4. answer \in SaveRequests BY <1>0, <2>1, <2>2, <2>3
  <2> QED BY <1>0, <2>4 DEF SaveRequests
<1>2. /\ stored' \in Rows /\ stored'.rev = save[c].rev + 1 /\ stored'.graph = save[c].to
  BY <1>0 DEF Rows
<1>3. reused' \in BOOLEAN /\ (~reused' => ~reused /\ stored'.rev > stored.rev)
  <2>1. (reused \/ save[c].rev # stored.rev) \in BOOLEAN OBVIOUS
  <2>2. reused' \in BOOLEAN BY <1>0, <2>1
  <2>3. ~reused' => ~reused /\ save[c].rev = stored.rev BY <1>0
  <2> QED BY <1>0, <1>2, <2>2, <2>3
<1>4. RequestShape(answer) /\ RequestFits(answer, stored')
  BY <1>0, <1>1, <1>2 DEF RequestShape, RequestFits, Fits
<1> HIDE DEF answer
<1>5. CASE save[c].by = Nobody
  BY <1>0, <1>2, <1>3, <1>5, UnusedFacts, EditsAssumption, ServerKeeps DEF Serves
<1>6. CASE save[c].by # Nobody
  BY <1>0, <1>1, <1>2, <1>3, <1>4, <1>6, ServerKeeps DEF Serves
<1> QED BY <1>5, <1>6

LEMMA RevertsStep ==
  ASSUME EditsInv, RevertsToPublished PROVE EditsInv'
<1> DEFINE r == [Unused EXCEPT !.stage = "sent", !.kind = "revert"]
<1>1. PICK c \in Slots : /\ Sending(c, save) /\ save' = [save EXCEPT ![c] = r]
                         /\ UNCHANGED <<stored, editor, reused>>
  BY DEF RevertsToPublished
<1>2. save[c].stage = "unused" BY <1>1 DEF Sending
<1>3. save[c].by \notin Editors BY <1>2 DEF EditsInv, RequestShape
<1>4. /\ r \in SaveRequests /\ r.stage = "sent" /\ r.kind = "revert" /\ r.by = Unused.by
  BY UnusedFacts DEF SaveRequests
<1> HIDE DEF r
<1>5. RequestShape(r) /\ (\A row : RequestFits(r, row)) /\ r.by \notin Editors
  BY <1>4, UnusedFacts DEF RequestShape, RequestFits
<1>6. stored \in Rows /\ reused \in BOOLEAN BY DEF EditsInv, EditsTyped
<1> QED BY <1>1, <1>3, <1>4, <1>5, <1>6, ServerKeeps DEF Serves

LEMMA EditsStep == EditsInv /\ [EditsNext]_editVars => EditsInv'
<1> SUFFICES ASSUME EditsInv, [EditsNext]_editVars PROVE EditsInv' OBVIOUS
<1>1. ASSUME NEW e \in Editors, EditorStep(e) PROVE EditsInv'
  BY <1>1, DrawStep, SavesAllStep, ReloadsStep, TimerStep, ReadsPipelineStep, LoadAnsweredStep
     DEF EditorStep
<1>2. ASSUME NEW c \in Slots, SaveStep(c) PROVE EditsInv'
  BY <1>2, TakesPatchStep, LoadsRowStep, SavesRowStep, PatchAnsweredStep, PostAnsweredStep,
     PatchRefusedStep, SaveLostStep
     DEF SaveStep
<1>3. CASE UNCHANGED editVars
  BY <1>3 DEF editVars, EditsInv, EditsTyped, RevisionsFit, EditorsInTurn, RequestShape
<1> QED BY <1>1, <1>2, <1>3, RevertsStep DEF EditsNext

LEMMA EditsAlways == EditsSpec => []EditsInv
BY EditsInitInv, EditsStep, PTL DEF EditsSpec

\* An editor that is quiet and says "Saved" draws what the server has answered
\* (stores/pipelineStore.ts), whatever saves, losses and conflicts there were before.
THEOREM QuietEditorsAreSaved == EditsSpec => []QuietIsSaved
BY EditsAlways, EditsInvImplies, PTL

\* A flush and the end of a request answer nothing else.
LEMMA FlushAnswersNothing ==
  ASSUME NEW e, NEW now, NEW after, after \in [Slots -> SaveRequests], Flushed(e, now, after),
         NEW c \in Slots, save'[c].stage = "answered"
  PROVE  after[c].stage = "answered"
<1>1. CASE save' = after BY <1>1
<1>2. CASE \E d \in Slots : Sending(d, after) /\ save' = WithPatch(after, d, e, now)
  BY <1>2 DEF WithPatch
<1> QED BY <1>1, <1>2 DEF Flushed

LEMMA SettleAnswersNothing ==
  ASSUME EditsInv, NEW e, NEW now, NEW succeeded, NEW d \in Slots,
         Settled(e, now, succeeded, [save EXCEPT ![d] = Unused]),
         NEW c \in Slots, save'[c].stage = "answered"
  PROVE  save[c].stage = "answered"
<1> DEFINE after == [save EXCEPT ![d] = Unused]
<1>1. /\ after \in [Slots -> SaveRequests]
      /\ after[c].stage = "answered" => save[c].stage = "answered"
  BY UnusedFacts DEF EditsInv, EditsTyped
<1>2. (\E s : Flushed(e, s, after)) \/ save' = after BY DEF Settled
<1> HIDE DEF after
<1> QED BY <1>1, <1>2, FlushAnswersNothing

LEMMA OnlyTakingAnswers ==
  ASSUME EditsInv, [EditsNext]_editVars, NEW c \in Slots,
         save[c].stage = "sent", save[c].kind = "patch", save'[c].stage = "answered"
  PROVE  TakesPatch(c)
<1>0. save \in [Slots -> SaveRequests] BY DEF EditsInv, EditsTyped
<1>1. ASSUME NEW e \in Editors, EditorStep(e) PROVE FALSE
  <2>1. CASE TimerFires(e) BY <1>0, <2>1, FlushAnswersNothing DEF TimerFires
  <2>2. CASE SavesAll(e) BY <1>0, <2>2 DEF SavesAll
  <2>3. CASE save' = save BY <2>3
  <2>4. \/ TimerFires(e) \/ SavesAll(e) \/ save' = save
    BY <1>1 DEF EditorStep, AddsNode, ChangesNode, DeletesNode, Connects, Disconnects, Draws,
       Reloads, ReadsPipeline, LoadAnswered
  <2> QED BY <2>1, <2>2, <2>3, <2>4
<1>2. ASSUME NEW d \in Slots, SaveStep(d) PROVE TakesPatch(c)
  <2>1. CASE TakesPatch(d) BY <1>0, <2>1 DEF TakesPatch
  <2>2. CASE LoadsRow(d) BY <1>0, <2>2 DEF LoadsRow, SaveRequests
  <2>3. CASE SavesRow(d)
    <3>1. save[d].stage = "loaded" BY <2>3 DEF SavesRow
    <3>2. save'[c] = save[c] BY <1>0, <2>3, <3>1 DEF SavesRow
    <3> QED BY <3>2
  <2>4. CASE PatchAnswered(d) BY <2>4, SettleAnswersNothing DEF PatchAnswered
  <2>5. CASE PostAnswered(d) BY <2>5, SettleAnswersNothing DEF PostAnswered
  <2>6. CASE PatchRefused(d) BY <2>6, SettleAnswersNothing DEF PatchRefused
  <2>7. CASE SaveLost(d) BY <2>7, SettleAnswersNothing DEF SaveLost
  <2> QED BY <1>2, <2>1, <2>2, <2>3, <2>4, <2>5, <2>6, <2>7 DEF SaveStep
<1>3. CASE RevertsToPublished BY <1>0, <1>3, UnusedFacts DEF RevertsToPublished, SaveRequests
<1>4. CASE UNCHANGED editVars BY <1>4 DEF editVars
<1> QED BY <1>1, <1>2, <1>3, <1>4 DEF EditsNext

LEMMA PatchesFitStep ==
  ASSUME EditsInv, [EditsNext]_editVars, NEW c \in Slots,
         save[c].stage = "sent", save[c].kind = "patch", save'[c].stage = "answered",
         ~reused, ~save[c].stale
  PROVE  save[c].from = stored.graph
<1>1. TakesPatch(c) BY OnlyTakingAnswers
<1>2. save[c].rev = stored.rev BY <1>1 DEF TakesPatch, EditsInv, EditsTyped, SaveRequests
<1> QED BY <1>2 DEF EditsInv, RevisionsFit, RequestFits, Fits

\* _handle_pipeline_patch applies a difference to the graph it was computed from only, unless a POST
\* or a revert used a revision twice, or the editor had autosaved after a refusal.
THEOREM PatchesAlwaysFit == EditsSpec => PatchesFit
<1>1. EditsInv /\ [EditsNext]_editVars =>
        [\A c \in Slots :
           /\ save[c].stage = "sent" /\ save[c].kind = "patch" /\ save'[c].stage = "answered"
           /\ ~reused /\ ~save[c].stale
           => save[c].from = stored.graph]_editVars
  BY PatchesFitStep
<1> QED BY <1>1, EditsAlways, PTL DEF EditsSpec, PatchesFit

-----------------------------------------------------------------------------
(* Sets of numbers in order.                                               *)

\* A sequence that lists the members of I, each after the smaller ones.
Lists(t, I) ==
  /\ t \in Seq(I)
  /\ \A j, k \in DOMAIN t : j < k => t[j] < t[k]
  /\ \A i \in I : \E k \in DOMAIN t : t[k] = i

LEMMA LeastNumber ==
  ASSUME NEW T \in SUBSET Nat, T # {}
  PROVE  \E x \in T : \A y \in T : x <= y
<1>1. IsWellFoundedOn(OpToRel(<, Nat), Nat) BY NatLessThanWellFounded
<1>2. PICK x \in T : \A y \in T : ~(<<y, x>> \in OpToRel(<, Nat))
  BY ONLY <1>1, WFMin, T \subseteq Nat, T # {}
<1>3. \A a, b \in Nat : a < b => <<a, b>> \in OpToRel(<, Nat) BY DEF OpToRel
<1>4. ASSUME NEW y \in T PROVE x <= y
  <2>1. x \in Nat /\ y \in Nat OBVIOUS
  <2>2. ~(y < x) BY ONLY <2>1, <1>2, <1>3, y \in T
  <2> QED BY <2>1, <2>2
<1> QED BY <1>4

\* The number of members up to a member is between 1 and all, and another for each.
LEMMA RanksDiffer ==
  ASSUME NEW I \in SUBSET Nat, IsFiniteSet(I)
  PROVE  /\ \A i \in I : Cardinality({j \in I : j <= i}) \in 1..Cardinality(I)
         /\ \A i, k \in I : i < k => Cardinality({j \in I : j <= i}) < Cardinality({j \in I : j <= k})
<1> DEFINE Upto(i) == {j \in I : j <= i}
<1>1. \A i \in I : /\ IsFiniteSet(Upto(i)) /\ Cardinality(Upto(i)) \in Nat
                   /\ Cardinality(Upto(i)) <= Cardinality(I) /\ Cardinality(Upto(i)) # 0
  <2> SUFFICES ASSUME NEW i \in I
               PROVE  /\ IsFiniteSet(Upto(i)) /\ Cardinality(Upto(i)) \in Nat
                      /\ Cardinality(Upto(i)) <= Cardinality(I) /\ Cardinality(Upto(i)) # 0
    OBVIOUS
  <2>1. Upto(i) \in SUBSET I /\ i \in Upto(i) OBVIOUS
  <2> HIDE DEF Upto
  <2>2. IsFiniteSet(Upto(i)) /\ Cardinality(Upto(i)) <= Cardinality(I) BY <2>1, FS_Subset
  <2> QED BY <2>1, <2>2, FS_EmptySet, FS_CardinalityType
<1>2. Cardinality(I) \in Nat BY FS_CardinalityType
<1>3. ASSUME NEW i \in I, NEW k \in I, i < k
      PROVE  Cardinality(Upto(i)) < Cardinality(Upto(k))
  <2>1. Upto(i) \in SUBSET Upto(k)
    <3>1. \A j \in I : j \in Nat OBVIOUS
    <3>2. i \in Nat /\ k \in Nat OBVIOUS
    <3>3. \A j \in Upto(i) : j \in Upto(k) BY <1>3, <3>1, <3>2
    <3> QED BY <3>3
  <2>2. k \in Upto(k) /\ k \notin Upto(i) BY <1>3
  <2> HIDE DEF Upto
  <2>3. /\ Cardinality(Upto(i)) <= Cardinality(Upto(k))
        /\ Cardinality(Upto(k)) = Cardinality(Upto(i)) => Upto(k) = Upto(i)
    BY <1>1, <2>1, FS_Subset
  <2> QED BY <1>1, <2>2, <2>3
<1> HIDE DEF Upto
<1>4. \A i \in I : Cardinality(Upto(i)) \in 1..Cardinality(I) BY <1>1, <1>2
<1> QED BY <1>3, <1>4 DEF Upto

\* InOrder lists a finite set of numbers.
LEMMA InOrderLists ==
  ASSUME NEW I \in SUBSET Nat, IsFiniteSet(I)
  PROVE  Lists(InOrder(I), I)
<1> DEFINE rank(i) == Cardinality({j \in I : j <= i})
           n == Cardinality(I)
           f == [i \in I |-> rank(i)]
           s == InOrder(I)
<1>1. /\ \A i \in I : rank(i) \in 1..n
      /\ \A i, k \in I : i < k => rank(i) < rank(k)
  BY RanksDiffer
<1>2. n \in Nat BY FS_CardinalityType
<1>3. s = [k \in 1..n |-> CHOOSE i \in I : rank(i) = k] BY DEF InOrder
<1> HIDE DEF rank, n, s
<1>4. f \in Injection(I, 1..n)
  <2>1. f \in [I -> 1..n] BY <1>1
  <2>2. \A i, k \in I : f[i] = f[k] => i = k
    <3> SUFFICES ASSUME NEW i \in I, NEW k \in I, f[i] = f[k] PROVE i = k OBVIOUS
    <3>1. rank(i) = rank(k) /\ rank(i) \in Nat BY <1>1, <1>2
    <3>2. i \in Nat /\ k \in Nat OBVIOUS
    <3>3. ~(i < k) /\ ~(k < i) BY <1>1, <3>1
    <3> QED BY <3>2, <3>3
  <2> QED BY <2>1, <2>2 DEF Injection, IsInjective
<1>5. IsFiniteSet(1..n) /\ Cardinality(1..n) = n BY <1>2, FS_Interval
<1>6. f \in Surjection(I, 1..n) BY <1>4, <1>5, FS_Injection DEF n
<1>7. \A k \in 1..n : \E i \in I : rank(i) = k BY <1>6 DEF Surjection
<1>8. \A k \in 1..n : s[k] \in I /\ rank(s[k]) = k BY <1>3, <1>7
<1>9. s \in Seq(I) /\ DOMAIN s = 1..n
  <2>1. s \in [1..n -> I] BY <1>3, <1>8
  <2> QED BY <1>2, <2>1
<1>10. ASSUME NEW j \in DOMAIN s, NEW k \in DOMAIN s, j < k PROVE s[j] < s[k]
  <2>1. s[j] \in I /\ s[k] \in I /\ rank(s[j]) < rank(s[k]) BY <1>8, <1>9, <1>10
  <2>2. ~(s[k] < s[j]) /\ s[k] # s[j]
    <3>1. rank(s[j]) \in Nat /\ rank(s[k]) \in Nat
      <4>1. rank(s[j]) \in 1..n /\ rank(s[k]) \in 1..n BY <1>1, <2>1
      <4> QED BY <1>2, <4>1
    <3>2. s[k] < s[j] => rank(s[k]) < rank(s[j]) BY <1>1, <2>1
    <3> QED BY <2>1, <3>1, <3>2
  <2>3. s[j] \in Nat /\ s[k] \in Nat BY <2>1
  <2> QED BY <2>2, <2>3
<1>11. ASSUME NEW i \in I PROVE \E k \in DOMAIN s : s[k] = i
  <2>1. rank(i) \in DOMAIN s BY <1>1, <1>9
  <2>2. s[rank(i)] \in I /\ rank(s[rank(i)]) = rank(i) BY <1>8, <1>9, <2>1
  <2>3. s[rank(i)] = i
    <3> DEFINE m == s[rank(i)]
    <3>1. rank(i) \in Nat /\ m \in I /\ rank(m) = rank(i) BY <1>1, <1>2, <2>2
    <3> HIDE DEF m
    <3>2. i \in Nat /\ m \in Nat BY <3>1
    <3>3. ~(i < m) /\ ~(m < i) BY <1>1, <3>1
    <3>4. m = i BY <3>2, <3>3
    <3> QED BY <3>4 DEF m
  <2> QED BY <2>1, <2>3
<1> QED BY <1>9, <1>10, <1>11 DEF Lists, s

\* Where two lists agree on what comes before, the other goes on, with nothing greater.
LEMMA ListsGoOn ==
  ASSUME NEW I \in SUBSET Nat, NEW t, NEW u, Lists(t, I), Lists(u, I), NEW k \in DOMAIN t,
         \A j \in 1..(k - 1) : j \in DOMAIN t /\ j \in DOMAIN u /\ t[j] = u[j]
  PROVE  k \in DOMAIN u /\ u[k] <= t[k]
<1>1. /\ t \in Seq(I) /\ DOMAIN t = 1..Len(t) /\ Len(t) \in Nat
      /\ u \in Seq(I) /\ DOMAIN u = 1..Len(u) /\ Len(u) \in Nat
  BY LenProperties DEF Lists
<1>2. /\ t[k] \in I /\ t[k] \in Nat
      /\ \A j \in DOMAIN u : u[j] \in Nat
  <2>1. t[k] \in I /\ \A j \in DOMAIN u : u[j] \in I BY <1>1
  <2> QED BY <2>1
<1>3. PICK j \in DOMAIN u : u[j] = t[k] BY <1>2 DEF Lists
<1>4. j >= k
  <2> SUFFICES ASSUME j < k PROVE FALSE BY <1>1
  <2>1. j \in DOMAIN t /\ t[j] = t[k] BY <1>1, <1>3
  <2>2. t[j] < t[k] BY <2>1 DEF Lists
  <2> QED BY <1>2, <2>1, <2>2
<1>5. k \in DOMAIN u BY <1>1, <1>4
<1>6. k = j \/ u[k] < u[j] BY <1>1, <1>4, <1>5 DEF Lists
<1>7. u[k] \in Nat BY <1>2, <1>5
<1> QED BY <1>2, <1>3, <1>5, <1>6, <1>7

\* There is one list of a set.
LEMMA OneList ==
  ASSUME NEW I \in SUBSET Nat, NEW t, NEW u, Lists(t, I), Lists(u, I)
  PROVE  t = u
<1>1. /\ t \in Seq(I) /\ DOMAIN t = 1..Len(t) /\ Len(t) \in Nat
      /\ u \in Seq(I) /\ DOMAIN u = 1..Len(u) /\ Len(u) \in Nat
  BY LenProperties DEF Lists
<1> DEFINE Same(k) == k \in DOMAIN t /\ k \in DOMAIN u /\ t[k] = u[k]
           Unlike == {k \in DOMAIN t \cup DOMAIN u : ~Same(k)}
<1>2. Unlike = {}
  <2> SUFFICES ASSUME Unlike # {} PROVE FALSE OBVIOUS
  <2>1. Unlike \in SUBSET Nat BY <1>1
  <2>2. PICK k \in Unlike : \A y \in Unlike : k <= y
    <3> HIDE DEF Unlike
    <3> QED BY <2>1, LeastNumber
  <2>3. k \in Nat /\ (k \in DOMAIN t \/ k \in DOMAIN u) BY <2>1
  <2>4. \A j \in 1..(k - 1) : Same(j)
    <3> SUFFICES ASSUME NEW j \in 1..(k - 1), ~Same(j) PROVE FALSE OBVIOUS
    <3>1. j \in DOMAIN t \cup DOMAIN u BY <1>1, <2>3
    <3>2. j \in Unlike BY <3>1
    <3> QED BY <2>2, <2>3, <3>2
  <2>5. k \in DOMAIN t => k \in DOMAIN u /\ u[k] <= t[k] BY <2>4, ListsGoOn
  <2>6. k \in DOMAIN u => k \in DOMAIN t /\ t[k] <= u[k]
    <3>1. \A j \in 1..(k - 1) : j \in DOMAIN u /\ j \in DOMAIN t /\ u[j] = t[j] BY <2>4
    <3> QED BY <3>1, ListsGoOn
  <2>7. t[k] \in Nat /\ u[k] \in Nat
    <3>1. t[k] \in I /\ u[k] \in I BY <1>1, <2>3, <2>5, <2>6
    <3> QED BY <3>1
  <2>8. Same(k) BY <2>3, <2>5, <2>6, <2>7
  <2> QED BY <2>8
<1>3. \A k \in DOMAIN t \cup DOMAIN u : Same(k) BY <1>2
<1>4. DOMAIN t = DOMAIN u BY <1>3
<1>5. Len(t) = Len(u)
  <2>0. Len(t) < Len(u) \/ Len(u) < Len(t) \/ Len(t) = Len(u)
    <3>1. Len(t) \in Nat /\ Len(u) \in Nat BY ONLY <1>1
    <3>2. \A x, y \in Nat : x < y \/ y < x \/ x = y OBVIOUS
    <3> QED BY ONLY <3>1, <3>2
  <2>1. CASE Len(t) < Len(u)
    <3>1. Len(u) \in DOMAIN u /\ Len(u) \notin DOMAIN t BY <1>1, <2>1
    <3> QED BY <1>4, <3>1
  <2>2. CASE Len(u) < Len(t)
    <3>1. Len(t) \in DOMAIN t /\ Len(t) \notin DOMAIN u BY <1>1, <2>2
    <3> QED BY <1>4, <3>1
  <2> QED BY <2>0, <2>1, <2>2
<1> QED BY <1>1, <1>3, <1>5

\* The lists of two sets, one above the other, follow each other.
LEMMA ListsJoin ==
  ASSUME NEW L \in Nat, NEW I \in SUBSET (1..L), NEW J \in SUBSET Nat, \A j \in J : j > L,
         NEW s, NEW u, Lists(s, I), Lists(u, J)
  PROVE  Lists(s \o u, I \cup J)
<1>1. /\ s \in Seq(I) /\ DOMAIN s = 1..Len(s) /\ Len(s) \in Nat
      /\ u \in Seq(J) /\ DOMAIN u = 1..Len(u) /\ Len(u) \in Nat
  BY LenProperties DEF Lists
<1> DEFINE t == s \o u
<1>2. s \in Seq(I \cup J) /\ u \in Seq(I \cup J)
  <2>1. \A k \in 1..Len(s) : s[k] \in I \cup J BY <1>1
  <2>2. \A k \in 1..Len(u) : u[k] \in I \cup J BY <1>1
  <2> QED BY <1>1, <2>1, <2>2
<1>3. /\ t \in Seq(I \cup J) /\ Len(t) = Len(s) + Len(u)
      /\ \A k \in 1..(Len(s) + Len(u)) : t[k] = IF k <= Len(s) THEN s[k] ELSE u[k - Len(s)]
  BY <1>1, <1>2, ConcatProperties
<1>4. DOMAIN t = 1..(Len(s) + Len(u)) BY <1>3
<1> HIDE DEF t
<1>5. ASSUME NEW j \in DOMAIN t, NEW k \in DOMAIN t, j < k PROVE t[j] < t[k]
  <2>1. j \in Nat /\ k \in Nat BY <1>4
  <2>2. CASE k <= Len(s)
    <3>1. j \in DOMAIN s /\ k \in DOMAIN s /\ t[j] = s[j] /\ t[k] = s[k] BY <1>1, <1>3, <1>4, <1>5, <2>1, <2>2
    <3> QED BY <1>5, <3>1 DEF Lists
  <2>3. CASE j > Len(s)
    <3>1. /\ j - Len(s) \in DOMAIN u /\ k - Len(s) \in DOMAIN u /\ j - Len(s) < k - Len(s)
          /\ t[j] = u[j - Len(s)] /\ t[k] = u[k - Len(s)]
      BY <1>1, <1>3, <1>4, <1>5, <2>1, <2>3
    <3> QED BY <3>1 DEF Lists
  <2>4. CASE j <= Len(s) /\ k > Len(s)
    <3>1. j \in DOMAIN s /\ k - Len(s) \in DOMAIN u /\ t[j] = s[j] /\ t[k] = u[k - Len(s)]
      BY <1>1, <1>3, <1>4, <2>1, <2>4
    <3>2. s[j] \in I /\ u[k - Len(s)] \in J BY <1>1, <3>1
    <3>3. t[j] \in 1..L /\ t[k] \in Nat /\ t[k] > L BY <3>1, <3>2
    <3> QED BY <3>3
  <2> QED BY <1>1, <2>1, <2>2, <2>3, <2>4
<1>6. ASSUME NEW i \in I \cup J PROVE \E k \in DOMAIN t : t[k] = i
  <2>1. CASE i \in I
    <3>1. PICK k \in DOMAIN s : s[k] = i BY <2>1 DEF Lists
    <3>2. k \in DOMAIN t /\ t[k] = i BY <1>1, <1>3, <1>4, <3>1
    <3> QED BY <3>2
  <2>2. CASE i \in J
    <3>1. PICK k \in DOMAIN u : u[k] = i BY <2>2 DEF Lists
    <3>2. /\ Len(s) + k \in 1..(Len(s) + Len(u)) /\ ~(Len(s) + k <= Len(s)) /\ (Len(s) + k) - Len(s) = k
      BY <1>1, <3>1
    <3>3. Len(s) + k \in DOMAIN t /\ t[Len(s) + k] = i BY <1>3, <1>4, <3>1, <3>2
    <3> QED BY <3>3
  <2> QED BY <2>1, <2>2
<1> QED BY <1>3, <1>5, <1>6 DEF Lists, t

-----------------------------------------------------------------------------
(* The graph.                                                              *)

PathEntry == [node : GraphNodes, targets : SUBSET GraphNodes]

GraphTyped ==
  /\ edges \in SUBSET Drawable
  /\ phase \in {"stored", "rejected", "running", "ended", "aborted", "failed"}
  /\ ready \in SUBSET GraphNodes
  /\ path \in Seq(PathEntry)
  /\ outputs \in [GraphNodes -> Nat]
  /\ steps \in Nat /\ waited \in BOOLEAN
  /\ delivered \in [GraphNodes -> Seq([node : GraphNodes, run : Nat])]

\* A node that a router's default output leads to.
OnDefault(m) == \E e \in edges : e.source \in Routers /\ ~IsConditional(e) /\ e.target = m

RoutesHere(m) == {i \in DOMAIN path : m \in path[i].targets}
RunsOf(n) == {i \in DOMAIN path : path[i].node = n}

\* The outputs of the entries h of a path p.
RunsBefore(p, i) == Cardinality({j \in 1..(i - 1) : p[j].node = p[i].node})
OutputsOf(p, h) == [k \in 1..Len(h) |-> [node |-> p[h[k]].node, run |-> RunsBefore(p, h[k]) + 1]]

\* The path follows the edges, has an entry per output, and has what was delivered.
FollowsEdges == \A i \in DOMAIN path : path[i].targets \subseteq Successors(path[i].node)
CountsOutputs == \A n \in GraphNodes : outputs[n] = Cardinality(RunsOf(n))
RecordsDelivery ==
  \A m \in GraphNodes : OnDefault(m) \/ delivered[m] = OutputsOf(path, InOrder(RoutesHere(m)))

GraphInv == GraphTyped /\ FollowsEdges /\ CountsOutputs /\ RecordsDelivery /\ RunsReachEnd

LEMMA NodesAreNumbers == /\ GraphNodes \in SUBSET Nat /\ IsFiniteSet(GraphNodes)
                         /\ End \in GraphNodes /\ Start \in GraphNodes
<1>1. NumMiddle \in Nat BY GraphAssumption
<1>2. GraphNodes = 0..(NumMiddle + 1) BY DEF GraphNodes, Start, End
<1> QED BY <1>1, <1>2, FS_Interval DEF Start, End

\* Edges join nodes.
LEMMA EdgesJoinNodes ==
  ASSUME GraphTyped
  PROVE  /\ \A e \in edges : e.source \in GraphNodes /\ e.target \in GraphNodes
         /\ \A n \in GraphNodes : Successors(n) \in SUBSET GraphNodes
<1>1. Routers \subseteq GraphNodes /\ NumMiddle \in GraphNodes /\ 1 \in GraphNodes
  BY GraphAssumption DEF GraphNodes, Start, End
<1>2. \A e \in Drawable : e.source \in GraphNodes /\ e.target \in GraphNodes
  <2> SUFFICES ASSUME NEW e \in Drawable PROVE e.source \in GraphNodes /\ e.target \in GraphNodes
    OBVIOUS
  <2>1. CASE e \in [source : GraphNodes \ {End}, handle : {"output"}, target : GraphNodes \ {Start}]
    BY <2>1
  <2>2. CASE e \in [source : Routers, handle : Handles, target : GraphNodes] BY <1>1, <2>2
  <2>3. CASE e \in [source : {NumMiddle}, handle : {"output"}, target : {1}] BY <1>1, <2>3
  <2>4. CASE e \in [source : Routers, handle : {"output", "gone"}, target : {End}]
    BY <1>1, <2>4, NodesAreNumbers
  <2> QED BY <2>1, <2>2, <2>3, <2>4 DEF Drawable
<1>3. \A e \in edges : e.source \in GraphNodes /\ e.target \in GraphNodes BY <1>2 DEF GraphTyped
<1> QED BY <1>3 DEF Successors, Targets, Out

\* What a node can do: it is followed by those it names, and by those on a router's default output.
LEMMA OutcomeFacts ==
  ASSUME GraphTyped, NEW n \in GraphNodes, NEW r \in Outcomes(n)
  PROVE  /\ r.kind \in {"output", "wait", "abort"}
         /\ r.targets \subseteq r.next /\ r.next \subseteq Successors(n)
         /\ \A m \in r.next \ r.targets : OnDefault(m)
<1>1. CASE n \in Plain \/ n \in Codes
  BY <1>1 DEF Outcomes
<1>2. CASE n \notin Plain /\ n \notin Codes
  <2>1. n \in Routers BY <1>2 DEF Plain
  <2> DEFINE always == Targets({e \in Out(n) : ~IsConditional(e)})
             to(h) == Targets({e \in Out(n) : e.handle = h})
  <2>2. PICK h \in Handles :
          r \in (IF to(h) = {} THEN {[kind |-> "output", targets |-> {}, next |-> always]}
                 ELSE {[kind |-> "output", targets |-> {t}, next |-> {t} \cup always] : t \in to(h)})
    BY <1>2 DEF Outcomes
  <2>3. always \subseteq Successors(n) /\ to(h) \subseteq Successors(n) BY DEF Successors, Targets
  <2>4. \A m \in always : OnDefault(m) BY <2>1 DEF OnDefault, Targets, Out
  <2> HIDE DEF always, to
  <2>5. CASE to(h) = {} BY <2>2, <2>3, <2>4, <2>5
  <2>6. CASE to(h) # {}
    <3>1. PICK t \in to(h) : r = [kind |-> "output", targets |-> {t}, next |-> {t} \cup always]
      BY <2>2, <2>6
    <3> QED BY <2>3, <2>4, <3>1
  <2> QED BY <2>5, <2>6
<1> QED BY <1>1, <1>2

LEMMA GraphInitInv == GraphInit => GraphInv
<1> SUFFICES ASSUME NEW drawn \in SUBSET Drawable, GraphStart(drawn) PROVE GraphInv
  BY DEF GraphInit
<1>1. /\ edges \in SUBSET Drawable /\ phase = "stored" /\ ready = {} /\ path = <<>> /\ steps = 0
      /\ waited = FALSE /\ outputs = [n \in GraphNodes |-> 0]
      /\ delivered = [n \in GraphNodes |-> <<>>]
  BY DEF GraphStart
<1>2. DOMAIN path = {} BY <1>1
<1>3. GraphTyped
  <2>1. path \in Seq(PathEntry) BY <1>1
  <2>2. outputs \in [GraphNodes -> Nat] BY <1>1
  <2>3. delivered \in [GraphNodes -> Seq([node : GraphNodes, run : Nat])] BY <1>1
  <2> QED BY <1>1, <2>1, <2>2, <2>3 DEF GraphTyped
<1>4. CountsOutputs BY <1>1, <1>2, FS_EmptySet DEF CountsOutputs, RunsOf
<1>5. RecordsDelivery
  <2> SUFFICES ASSUME NEW m \in GraphNodes PROVE delivered[m] = OutputsOf(path, InOrder(RoutesHere(m)))
    BY DEF RecordsDelivery
  <2>1. RoutesHere(m) = {} BY <1>2 DEF RoutesHere
  <2>2. InOrder({}) = <<>>
    <3>1. Cardinality({}) = 0 BY FS_EmptySet
    <3>2. InOrder({}) = [k \in 1..0 |-> CHOOSE i \in {} : Cardinality({j \in {} : j <= i}) = k]
      BY <3>1 DEF InOrder
    <3> QED BY <3>2
  <2>3. OutputsOf(path, <<>>) = <<>> BY DEF OutputsOf
  <2> QED BY <1>1, <2>1, <2>2, <2>3
<1>6. FollowsEdges BY <1>2 DEF FollowsEdges
<1>7. RunsReachEnd BY <1>1 DEF RunsReachEnd
<1> QED BY <1>3, <1>4, <1>5, <1>6, <1>7 DEF GraphInv

-----------------------------------------------------------------------------
(* A superstep.                                                            *)

\* What it writes when the nodes do o.
Writes(o) ==
  /\ o \in [ready -> UNION {Outcomes(n) : n \in ready}]
  /\ \A n \in ready : o[n] \in Outcomes(n)
  /\ edges' = edges
  /\ path' = path \o [i \in 1..Len(Ran(o)) |-> [node |-> Ran(o)[i], targets |-> o[Ran(o)[i]].targets]]
  /\ outputs' = [n \in GraphNodes |-> outputs[n] + (IF n \in Running(o) THEN 1 ELSE 0)]
  /\ delivered' = [m \in GraphNodes |-> delivered[m] \o
       LET from == InOrder({n \in Running(o) : m \in o[n].next})
       IN  [i \in 1..Len(from) |-> [node |-> from[i], run |-> outputs[from[i]] + 1]]]

\* Where a node comes among those that ran.
Place(o, n) == CHOOSE k \in DOMAIN Ran(o) : Ran(o)[k] = n

LEMMA RunningFacts ==
  ASSUME GraphTyped, NEW o, Writes(o)
  PROVE  /\ Running(o) \in SUBSET GraphNodes /\ Running(o) \in SUBSET Nat /\ IsFiniteSet(Running(o))
         /\ \A n \in Running(o) : /\ n \in ready /\ o[n] \in Outcomes(n)
                                  /\ o[n].targets \subseteq o[n].next
                                  /\ o[n].next \subseteq Successors(n)
                                  /\ o[n].targets \in SUBSET GraphNodes
         /\ Lists(Ran(o), Running(o))
<1>1. ready \in SUBSET GraphNodes BY DEF GraphTyped
<1>2. Running(o) \in SUBSET GraphNodes BY <1>1 DEF Running
<1>3. IsFiniteSet(Running(o)) BY <1>2, NodesAreNumbers, FS_Subset
<1>4. Running(o) \in SUBSET Nat
  <2>1. \A n \in GraphNodes : n \in Nat BY NodesAreNumbers
  <2> QED BY <1>2, <2>1
<1>5. Lists(Ran(o), Running(o)) BY <1>3, <1>4, InOrderLists DEF Ran
<1>6. ASSUME NEW n \in Running(o)
      PROVE  /\ n \in ready /\ o[n] \in Outcomes(n) /\ o[n].targets \subseteq o[n].next
             /\ o[n].next \subseteq Successors(n) /\ o[n].targets \in SUBSET GraphNodes
  <2>1. n \in ready /\ n \in GraphNodes /\ o[n] \in Outcomes(n) BY <1>1, <1>6 DEF Running, Writes
  <2>2. Successors(n) \in SUBSET GraphNodes BY <2>1, EdgesJoinNodes
  <2> QED BY <2>1, <2>2, OutcomeFacts
<1> QED BY <1>2, <1>3, <1>4, <1>5, <1>6

\* The nodes that ran have their places, in order.
LEMMA PlaceFacts ==
  ASSUME GraphTyped, NEW o, Writes(o)
  PROVE  /\ Len(Ran(o)) \in Nat /\ DOMAIN Ran(o) = 1..Len(Ran(o))
         /\ \A k \in 1..Len(Ran(o)) : Ran(o)[k] \in Running(o) /\ Place(o, Ran(o)[k]) = k
         /\ \A n \in Running(o) : Place(o, n) \in 1..Len(Ran(o)) /\ Ran(o)[Place(o, n)] = n
         /\ \A n, m \in Running(o) : n < m => Place(o, n) < Place(o, m)
<1> DEFINE ran == Ran(o)
           at(n) == Place(o, n)
<1>1. Lists(ran, Running(o)) /\ Running(o) \in SUBSET Nat BY RunningFacts
<1>2. ran \in Seq(Running(o)) BY <1>1 DEF Lists
<1>3. Len(ran) \in Nat /\ DOMAIN ran = 1..Len(ran) BY <1>2, LenProperties
<1>4. \A n \in Running(o) : at(n) \in DOMAIN ran /\ ran[at(n)] = n BY <1>1 DEF Lists, Place
<1>5. \A j, k \in DOMAIN ran : j < k => ran[j] < ran[k] BY <1>1 DEF Lists
<1>6. \A k \in DOMAIN ran : ran[k] \in Running(o) BY <1>2, <1>3
<1> HIDE DEF ran, at
<1>7. ASSUME NEW j \in DOMAIN ran, NEW k \in DOMAIN ran, ran[j] = ran[k] PROVE j = k
  <2>1. ran[j] \in Nat /\ ran[k] \in Nat
    <3>1. ran[j] \in Running(o) /\ ran[k] \in Running(o) BY <1>6
    <3> QED BY <1>1, <3>1
  <2>2. ~(j < k) /\ ~(k < j) BY <1>5, <1>7, <2>1
  <2> QED BY <1>3, <2>2
<1>8. \A k \in DOMAIN ran : at(ran[k]) = k BY <1>4, <1>6, <1>7
<1>9. ASSUME NEW n \in Running(o), NEW m \in Running(o), n < m PROVE at(n) < at(m)
  <2>1. /\ at(n) \in DOMAIN ran /\ at(m) \in DOMAIN ran
        /\ ran[at(n)] = n /\ ran[at(m)] = m BY <1>4
  <2>2. at(m) < at(n) => m < n BY <1>5, <2>1
  <2>3. n \in Nat /\ m \in Nat /\ n # m
    <3>1. n \in Nat /\ m \in Nat BY <1>1
    <3> QED BY <1>9, <3>1
  <2>4. at(n) # at(m) /\ ~(at(m) < at(n)) BY <1>9, <2>1, <2>2, <2>3
  <2> QED BY <1>3, <2>1, <2>4
<1> QED BY <1>3, <1>4, <1>6, <1>8, <1>9 DEF ran, at

\* The path keeps its entries and has one more for each node that ran.
LEMMA PathGrows ==
  ASSUME GraphTyped, NEW o, Writes(o)
  PROVE  /\ Len(path) \in Nat /\ DOMAIN path = 1..Len(path)
         /\ path' \in Seq(PathEntry) /\ DOMAIN path' = 1..(Len(path) + Len(Ran(o)))
         /\ \A i \in 1..Len(path) : i \in DOMAIN path' /\ path'[i] = path[i]
         /\ \A n \in Running(o) : /\ Len(path) + Place(o, n) \in DOMAIN path'
                                  /\ path'[Len(path) + Place(o, n)] = [node |-> n, targets |-> o[n].targets]
         /\ \A i \in DOMAIN path' : \/ i \in 1..Len(path)
                                    \/ /\ path'[i].node \in Running(o)
                                       /\ i = Len(path) + Place(o, path'[i].node)
<1> DEFINE L == Len(path)
           ran == Ran(o)
           new == [i \in 1..Len(ran) |-> [node |-> ran[i], targets |-> o[ran[i]].targets]]
<1>1. /\ Len(ran) \in Nat
      /\ \A k \in 1..Len(ran) : ran[k] \in Running(o) /\ Place(o, ran[k]) = k
      /\ \A n \in Running(o) : Place(o, n) \in 1..Len(ran) /\ ran[Place(o, n)] = n
  BY PlaceFacts
<1>2. path' = path \o new BY DEF Writes
<1>3. path \in Seq(PathEntry) BY DEF GraphTyped
<1>4. L \in Nat /\ DOMAIN path = 1..L BY <1>3, LenProperties
<1>5. \A n \in Running(o) : n \in GraphNodes /\ o[n].targets \in SUBSET GraphNodes BY RunningFacts
<1> HIDE DEF ran
<1>6. new \in Seq(PathEntry) /\ Len(new) = Len(ran)
  <2>1. new \in [1..Len(ran) -> PathEntry] BY <1>1, <1>5 DEF PathEntry
  <2> QED BY <1>1, <2>1
<1>7. \A k \in 1..Len(ran) : new[k] = [node |-> ran[k], targets |-> o[ran[k]].targets] OBVIOUS
<1> HIDE DEF new
<1>8. /\ path' \in Seq(PathEntry) /\ Len(path') = L + Len(ran)
      /\ \A i \in 1..(L + Len(ran)) : path'[i] = IF i <= L THEN path[i] ELSE new[i - L]
  <2>1. /\ path \o new \in Seq(PathEntry) /\ Len(path \o new) = Len(path) + Len(new)
        /\ \A i \in 1..(Len(path) + Len(new)) :
             (path \o new)[i] = IF i <= Len(path) THEN path[i] ELSE new[i - Len(path)]
    BY <1>3, <1>6, ConcatProperties
  <2> QED BY <1>2, <1>6, <2>1
<1>9. DOMAIN path' = 1..(L + Len(ran)) BY <1>8, LenProperties
<1> HIDE DEF L
<1>10. \A i \in 1..L : i \in DOMAIN path' /\ path'[i] = path[i] BY <1>1, <1>4, <1>8, <1>9
<1>11. ASSUME NEW k \in 1..Len(ran)
       PROVE  L + k \in DOMAIN path' /\ path'[L + k] = [node |-> ran[k], targets |-> o[ran[k]].targets]
  <2>1. L + k \in 1..(L + Len(ran)) /\ ~(L + k <= L) /\ (L + k) - L = k BY <1>1, <1>4
  <2> QED BY <1>7, <1>8, <1>9, <2>1
<1>12. ASSUME NEW n \in Running(o)
       PROVE  /\ L + Place(o, n) \in DOMAIN path'
              /\ path'[L + Place(o, n)] = [node |-> n, targets |-> o[n].targets]
  <2>1. Place(o, n) \in 1..Len(ran) /\ ran[Place(o, n)] = n BY <1>1
  <2> QED BY <1>11, <2>1
<1>13. ASSUME NEW i \in DOMAIN path', i \notin 1..L
       PROVE  path'[i].node \in Running(o) /\ i = L + Place(o, path'[i].node)
  <2>1. i - L \in 1..Len(ran) /\ L + (i - L) = i BY <1>1, <1>4, <1>9, <1>13
  <2>2. path'[L + (i - L)] = [node |-> ran[i - L], targets |-> o[ran[i - L]].targets] BY <1>11, <2>1
  <2>3. path'[i].node = ran[i - L] BY <2>1, <2>2
  <2> QED BY <1>1, <2>1, <2>3
<1> QED BY <1>4, <1>8, <1>9, <1>10, <1>12, <1>13 DEF L, ran

\* The outputs are counted as the path has them, and the runs of the superstep come after those before.
LEMMA RunsCounted ==
  ASSUME GraphTyped, CountsOutputs, NEW o, Writes(o)
  PROVE  /\ CountsOutputs'
         /\ \A i \in DOMAIN path : RunsBefore(path', i) = RunsBefore(path, i)
         /\ \A n \in Running(o) : RunsBefore(path', Len(path) + Place(o, n)) = outputs[n]
<1> DEFINE L == Len(path)
           at(n) == L + Place(o, n)
<1>1. /\ L \in Nat /\ DOMAIN path = 1..L
      /\ \A i \in 1..L : i \in DOMAIN path' /\ path'[i] = path[i]
      /\ \A n \in Running(o) : /\ at(n) \in DOMAIN path'
                               /\ path'[at(n)] = [node |-> n, targets |-> o[n].targets]
      /\ \A i \in DOMAIN path' : i \in 1..L \/ (path'[i].node \in Running(o) /\ i = at(path'[i].node))
  BY PathGrows
<1>2. \A n \in Running(o) : Place(o, n) \in Nat /\ Place(o, n) > 0
  <2>1. \A n \in Running(o) : Place(o, n) \in 1..Len(Ran(o)) BY PlaceFacts
  <2> QED BY <2>1, PlaceFacts
<1>3. \A n \in Running(o) : at(n) \in Nat /\ at(n) > L BY <1>1, <1>2
<1>4. \A n \in GraphNodes : outputs[n] \in Nat /\ outputs[n] = Cardinality(RunsOf(n))
  BY DEF GraphTyped, CountsOutputs
<1>5. Running(o) \in SUBSET GraphNodes BY RunningFacts
<1>6. \A n : RunsOf(n) \in SUBSET (1..L) /\ IsFiniteSet(RunsOf(n))
  <2> TAKE n
  <2>1. RunsOf(n) \in SUBSET (1..L) BY <1>1 DEF RunsOf
  <2>2. IsFiniteSet(1..L) BY <1>1, FS_Interval
  <2> QED BY <2>1, <2>2, FS_Subset
<1> HIDE DEF at, L
<1>7. CountsOutputs'
  <2> SUFFICES ASSUME NEW n \in GraphNodes PROVE outputs'[n] = Cardinality(RunsOf(n)')
    BY DEF CountsOutputs
  <2>1. outputs'[n] = outputs[n] + (IF n \in Running(o) THEN 1 ELSE 0) BY DEF Writes
  <2>2. CASE n \in Running(o)
    <3>1. RunsOf(n)' = RunsOf(n) \cup {at(n)}
      <4>1. RunsOf(n)' = {i \in DOMAIN path' : path'[i].node = n} BY DEF RunsOf
      <4>2. \A i \in RunsOf(n)' : i \in RunsOf(n) \cup {at(n)} BY <1>1, <4>1 DEF RunsOf
      <4>3. path'[at(n)].node = n /\ at(n) \in DOMAIN path'
        <5>1. path'[at(n)] = [node |-> n, targets |-> o[n].targets] /\ at(n) \in DOMAIN path'
          BY <1>1, <2>2
        <5> QED BY <5>1
      <4>4. \A i \in RunsOf(n) : i \in RunsOf(n)' BY <1>1, <4>1 DEF RunsOf
      <4> QED BY <4>1, <4>2, <4>3, <4>4
    <3>2. at(n) \notin RunsOf(n)
      <4>1. at(n) \notin 1..L BY <1>1, <1>3, <2>2
      <4> QED BY <1>6, <4>1
    <3>3. Cardinality(RunsOf(n) \cup {at(n)}) = Cardinality(RunsOf(n)) + 1
      BY <1>6, <3>2, FS_AddElement
    <3> QED BY <1>4, <2>1, <2>2, <3>1, <3>3
  <2>3. CASE n \notin Running(o)
    <3>1. RunsOf(n)' = RunsOf(n) BY <1>1, <2>3 DEF RunsOf
    <3> QED BY <1>4, <2>1, <2>3, <3>1
  <2> QED BY <2>2, <2>3
<1>8. ASSUME NEW i \in DOMAIN path PROVE RunsBefore(path', i) = RunsBefore(path, i)
  <2>1. i \in 1..L BY <1>1
  <2>2. \A j \in 1..(i - 1) : j \in 1..L BY <1>1, <2>1
  <2>3. {j \in 1..(i - 1) : path'[j].node = path'[i].node}
          = {j \in 1..(i - 1) : path[j].node = path[i].node}
    BY <1>1, <2>1, <2>2
  <2> QED BY <2>3 DEF RunsBefore
<1>9. ASSUME NEW n \in Running(o) PROVE RunsBefore(path', at(n)) = outputs[n]
  <2>1. /\ at(n) \in DOMAIN path' /\ path'[at(n)].node = n
        /\ at(n) \in Nat /\ at(n) > L /\ n \in GraphNodes
    <3>1. path'[at(n)] = [node |-> n, targets |-> o[n].targets] /\ at(n) \in DOMAIN path' BY <1>1
    <3>2. at(n) \in Nat /\ at(n) > L BY <1>3
    <3>3. n \in GraphNodes BY <1>5
    <3> QED BY <3>1, <3>2, <3>3
  <2>2. {j \in 1..(at(n) - 1) : path'[j].node = n} = RunsOf(n)
    <3>1. ASSUME NEW j \in 1..(at(n) - 1), path'[j].node = n PROVE j \in RunsOf(n)
      <4>1. j \in DOMAIN path' /\ j # at(n)
        <5>1. j < at(n) /\ j \in Nat /\ j > 0 BY <2>1
        <5>2. \E m \in Nat : DOMAIN path' = 1..m BY <1>1, PathGrows, PlaceFacts
        <5> QED BY <2>1, <5>1, <5>2
      <4>2. j \in 1..L BY <1>1, <3>1, <4>1
      <4> QED BY <1>1, <3>1, <4>2 DEF RunsOf
    <3>2. ASSUME NEW j \in RunsOf(n) PROVE j \in 1..(at(n) - 1) /\ path'[j].node = n
      <4>1. j \in 1..L /\ path[j].node = n BY <1>1 DEF RunsOf
      <4> QED BY <1>1, <2>1, <4>1
    <3> QED BY <3>1, <3>2
  <2> QED BY <1>4, <2>1, <2>2 DEF RunsBefore
<1> QED BY <1>7, <1>8, <1>9 DEF at, L

\* Whom a superstep routes to m, by what langgraph runs next or by what the path records.
SentTo(o, m) == {n \in Running(o) : m \in o[n].next}

LEMMA RecordedIsSent ==
  ASSUME GraphTyped, NEW o, Writes(o), NEW m, ~OnDefault(m), NEW n \in Running(o)
  PROVE  m \in o[n].next <=> m \in o[n].targets
<1>1. n \in GraphNodes /\ o[n] \in Outcomes(n) /\ o[n].targets \subseteq o[n].next BY RunningFacts
<1>2. \A x \in o[n].next \ o[n].targets : OnDefault(x) BY <1>1, OutcomeFacts
<1> QED BY <1>1, <1>2

\* The entries that route to m are those before and those of the nodes that sent to it, in their order.
LEMMA RoutesGrow ==
  ASSUME GraphTyped, NEW o, Writes(o), NEW m, ~OnDefault(m)
  PROVE  /\ Lists(InOrder(RoutesHere(m)), RoutesHere(m)) /\ RoutesHere(m) \in SUBSET (1..Len(path))
         /\ Lists(InOrder(SentTo(o, m)), SentTo(o, m)) /\ SentTo(o, m) \in SUBSET Running(o)
         /\ InOrder(RoutesHere(m))' = InOrder(RoutesHere(m)) \o
              [k \in 1..Len(InOrder(SentTo(o, m))) |-> Len(path) + Place(o, InOrder(SentTo(o, m))[k])]
<1> DEFINE L == Len(path)
           at(n) == L + Place(o, n)
           S == SentTo(o, m)
           from == InOrder(S)
           J == {at(n) : n \in S}
           u == [k \in 1..Len(from) |-> at(from[k])]
           R == RoutesHere(m)
<1>1. /\ L \in Nat /\ DOMAIN path = 1..L
      /\ \A i \in 1..L : i \in DOMAIN path' /\ path'[i] = path[i]
      /\ \A n \in Running(o) : /\ at(n) \in DOMAIN path'
                               /\ path'[at(n)] = [node |-> n, targets |-> o[n].targets]
      /\ \A i \in DOMAIN path' : i \in 1..L \/ (path'[i].node \in Running(o) /\ i = at(path'[i].node))
  BY PathGrows
<1>2. /\ \A n \in Running(o) : at(n) \in Nat /\ at(n) > L
      /\ \A n, k \in Running(o) : n < k => at(n) < at(k)
  <2>1. \A n \in Running(o) : Place(o, n) \in 1..Len(Ran(o)) BY PlaceFacts
  <2>2. \A n \in Running(o) : Place(o, n) \in Nat /\ Place(o, n) > 0 BY <2>1, PlaceFacts
  <2>3. \A n, k \in Running(o) : n < k => Place(o, n) < Place(o, k) BY PlaceFacts
  <2> QED BY <1>1, <2>2, <2>3
<1>3. S \in SUBSET Running(o) /\ S \in SUBSET Nat /\ IsFiniteSet(S)
  <2>1. S \in SUBSET Running(o) BY DEF SentTo
  <2>2. Running(o) \in SUBSET Nat /\ IsFiniteSet(Running(o)) BY RunningFacts
  <2> HIDE DEF S
  <2>3. \A n \in S : n \in Nat
    <3>1. \A n \in Running(o) : n \in Nat BY <2>2
    <3> QED BY <2>1, <3>1
  <2> QED BY <2>1, <2>2, <2>3, FS_Subset
<1>4. Lists(from, S) BY <1>3, InOrderLists
<1>5. R \in SUBSET (1..L) /\ R \in SUBSET Nat /\ IsFiniteSet(R)
  <2>1. R \in SUBSET (1..L) BY <1>1 DEF RoutesHere
  <2>2. IsFiniteSet(1..L) /\ \A i \in 1..L : i \in Nat BY <1>1, FS_Interval
  <2> HIDE DEF R
  <2>3. \A i \in R : i \in Nat BY <2>1, <2>2
  <2> QED BY <2>1, <2>2, <2>3, FS_Subset
<1>6. Lists(InOrder(R), R) BY <1>5, InOrderLists
<1>7. RoutesHere(m)' = R \cup J
  <2>1. RoutesHere(m)' = {i \in DOMAIN path' : m \in path'[i].targets} BY DEF RoutesHere
  <2>2. ASSUME NEW i \in DOMAIN path', m \in path'[i].targets PROVE i \in R \cup J
    <3>1. CASE i \in 1..L BY <1>1, <2>2, <3>1 DEF RoutesHere
    <3>2. CASE i \notin 1..L
      <4> DEFINE n == path'[i].node
      <4>1. n \in Running(o) /\ i = at(n) BY <1>1, <3>2
      <4> HIDE DEF n
      <4>2. path'[i] = [node |-> n, targets |-> o[n].targets] BY <1>1, <4>1
      <4>3. m \in o[n].targets BY <2>2, <4>2
      <4>4. n \in S BY <4>1, <4>3, RecordedIsSent DEF SentTo
      <4> QED BY <4>1, <4>4
    <3> QED BY <3>1, <3>2
  <2>3. ASSUME NEW i \in R PROVE i \in DOMAIN path' /\ m \in path'[i].targets
    BY <1>1, <2>3 DEF RoutesHere
  <2>4. ASSUME NEW n \in S PROVE at(n) \in DOMAIN path' /\ m \in path'[at(n)].targets
    <3>1. n \in Running(o) /\ m \in o[n].next BY DEF SentTo
    <3>2. m \in o[n].targets BY <3>1, RecordedIsSent
    <3>3. at(n) \in DOMAIN path' /\ path'[at(n)] = [node |-> n, targets |-> o[n].targets] BY <1>1, <3>1
    <3> QED BY <3>2, <3>3
  <2> QED BY <2>1, <2>2, <2>3, <2>4
<1> HIDE DEF at, S, from, L, R
<1>8. from \in Seq(S) /\ DOMAIN from = 1..Len(from) /\ Len(from) \in Nat BY <1>4, LenProperties DEF Lists
<1>9. J \in SUBSET Nat /\ \A j \in J : j > L BY <1>2, <1>3
<1>10. Lists(u, J)
  <2>1. \A k \in 1..Len(from) : from[k] \in S /\ u[k] = at(from[k]) /\ u[k] \in J BY <1>8
  <2>2. u \in Seq(J) /\ DOMAIN u = 1..Len(from)
    <3>1. u \in [1..Len(from) -> J] BY <2>1
    <3> QED BY <1>8, <3>1
  <2> HIDE DEF u
  <2>3. ASSUME NEW j \in DOMAIN u, NEW k \in DOMAIN u, j < k PROVE u[j] < u[k]
    <3>1. from[j] < from[k] BY <1>4, <1>8, <2>2, <2>3 DEF Lists
    <3>2. from[j] \in Running(o) /\ from[k] \in Running(o) BY <1>3, <2>1, <2>2
    <3> QED BY <1>2, <2>1, <2>2, <3>1, <3>2
  <2>4. ASSUME NEW j \in J PROVE \E k \in DOMAIN u : u[k] = j
    <3>1. PICK n \in S : j = at(n) BY <2>4
    <3>2. PICK k \in DOMAIN from : from[k] = n BY <1>4 DEF Lists
    <3> QED BY <1>8, <2>1, <2>2, <3>1, <3>2
  <2> QED BY <2>2, <2>3, <2>4 DEF Lists
<1> HIDE DEF u, J
<1>11. Lists(InOrder(R) \o u, R \cup J) BY <1>1, <1>5, <1>6, <1>9, <1>10, ListsJoin
<1>12. Lists(InOrder(R \cup J), R \cup J) /\ R \cup J \in SUBSET Nat
  <2>1. R \cup J \in SUBSET Nat BY <1>5, <1>9
  <2>2. IsFiniteSet(R \cup J)
    <3>1. R \cup J = RoutesHere(m)' BY <1>7
    <3>2. RoutesHere(m)' \in SUBSET (DOMAIN path') BY DEF RoutesHere
    <3>3. PICK l \in Nat : DOMAIN path' = 1..l
      <4>1. Len(path) + Len(Ran(o)) \in Nat BY <1>1, PlaceFacts DEF L
      <4> QED BY <4>1, PathGrows
    <3>4. IsFiniteSet(1..l) BY FS_Interval
    <3> QED BY <3>1, <3>2, <3>3, <3>4, FS_Subset
  <2> QED BY <2>1, <2>2, InOrderLists
<1>13. InOrder(R \cup J) = InOrder(R) \o u BY <1>11, <1>12, OneList
<1>14. InOrder(RoutesHere(m))' = InOrder(R \cup J) BY <1>7 DEF R
<1> QED BY <1>3, <1>4, <1>5, <1>6, <1>13, <1>14 DEF R, S, from, u, at, L

\* What a superstep delivers to m is what it records, or m is on a default output.
LEMMA DeliveryRecorded ==
  ASSUME GraphTyped, CountsOutputs, RecordsDelivery, NEW o, Writes(o), NEW m \in GraphNodes, ~OnDefault(m)
  PROVE  delivered'[m] = OutputsOf(path', InOrder(RoutesHere(m))')
<1> DEFINE L == Len(path)
           at(n) == L + Place(o, n)
           S == SentTo(o, m)
           from == InOrder(S)
           u == [k \in 1..Len(from) |-> at(from[k])]
           v == [k \in 1..Len(from) |-> [node |-> from[k], run |-> outputs[from[k]] + 1]]
           h == InOrder(RoutesHere(m))
           Out1 == [node : GraphNodes, run : Nat]
<1>1. /\ L \in Nat /\ DOMAIN path = 1..L
      /\ \A i \in 1..L : path'[i] = path[i]
      /\ \A n \in Running(o) : path'[at(n)].node = n
  <2>1. \A n \in Running(o) : path'[at(n)] = [node |-> n, targets |-> o[n].targets] BY PathGrows
  <2>2. ASSUME NEW n \in Running(o) PROVE path'[at(n)].node = n
    <3>1. path'[at(n)] = [node |-> n, targets |-> o[n].targets] BY <2>1
    <3> QED BY <3>1
  <2> QED BY <2>2, PathGrows
<1>2. /\ \A i \in 1..L : RunsBefore(path', i) = RunsBefore(path, i)
      /\ \A n \in Running(o) : RunsBefore(path', at(n)) = outputs[n]
  BY <1>1, RunsCounted
<1>3. /\ Lists(h, RoutesHere(m)) /\ RoutesHere(m) \in SUBSET (1..L)
      /\ Lists(from, S) /\ S \in SUBSET Running(o)
      /\ InOrder(RoutesHere(m))' = h \o u
  BY RoutesGrow
<1>4. delivered'[m] = delivered[m] \o v BY DEF Writes, SentTo
<1>5. delivered[m] = OutputsOf(path, h) /\ delivered[m] \in Seq(Out1)
  BY DEF RecordsDelivery, GraphTyped
<1>6. \A n \in Running(o) : n \in GraphNodes /\ outputs[n] \in Nat BY RunningFacts DEF GraphTyped
<1> HIDE DEF S, h, at, from
<1>7. /\ from \in Seq(S) /\ DOMAIN from = 1..Len(from) /\ Len(from) \in Nat
      /\ h \in Seq(RoutesHere(m)) /\ DOMAIN h = 1..Len(h) /\ Len(h) \in Nat
  BY <1>3, LenProperties DEF Lists
<1>8. /\ \A k \in 1..Len(h) : h[k] \in 1..L
      /\ \A k \in 1..Len(from) : from[k] \in Running(o)
  <2>1. \A k \in 1..Len(h) : h[k] \in RoutesHere(m) BY <1>7
  <2>2. \A k \in 1..Len(from) : from[k] \in S BY <1>7
  <2> QED BY <1>3, <2>1, <2>2
<1>9. v \in Seq(Out1) /\ Len(v) = Len(from)
  <2>1. \A k \in 1..Len(from) : [node |-> from[k], run |-> outputs[from[k]] + 1] \in Out1 BY <1>6, <1>8
  <2> HIDE DEF Out1
  <2>2. v \in [1..Len(from) -> Out1] BY <2>1
  <2>3. \A l \in Nat : \A f \in [1..l -> Out1] : f \in Seq(Out1) /\ Len(f) = l OBVIOUS
  <2> HIDE DEF v
  <2> QED BY <1>7, <2>2, <2>3
<1>10. u \in Seq(Int) /\ Len(u) = Len(from) /\ h \in Seq(Int)
  <2>1. \A n \in Running(o) : at(n) \in Int
    <3>1. \A n \in Running(o) : Place(o, n) \in 1..Len(Ran(o)) /\ Len(Ran(o)) \in Nat BY PlaceFacts
    <3>2. \A n \in Running(o) : Place(o, n) \in Nat BY <3>1
    <3> QED BY <1>1, <3>2 DEF at
  <2>2. u \in [1..Len(from) -> Int] BY <1>8, <2>1
  <2>3. h \in [1..Len(h) -> Int] BY <1>1, <1>7, <1>8
  <2> QED BY <1>7, <2>2, <2>3
<1>11. \A k \in 1..Len(from) : u[k] = at(from[k]) /\ v[k] = [node |-> from[k], run |-> outputs[from[k]] + 1]
  OBVIOUS
<1> HIDE DEF u, v, L, Out1
<1>12. /\ Len(h \o u) = Len(h) + Len(from)
       /\ \A k \in 1..(Len(h) + Len(from)) : (h \o u)[k] = IF k <= Len(h) THEN h[k] ELSE u[k - Len(h)]
  <2>1. /\ Len(h \o u) = Len(h) + Len(u)
        /\ \A k \in 1..(Len(h) + Len(u)) : (h \o u)[k] = IF k <= Len(h) THEN h[k] ELSE u[k - Len(h)]
    BY <1>10, ConcatProperties
  <2> QED BY <1>10, <2>1
<1>13. Len(delivered[m]) = Len(h) /\ \A k \in 1..Len(h) :
         delivered[m][k] = [node |-> path[h[k]].node, run |-> RunsBefore(path, h[k]) + 1]
  BY <1>5, <1>7 DEF OutputsOf
<1>14. /\ delivered[m] \o v \in Seq(Out1) /\ Len(delivered[m] \o v) = Len(h) + Len(from)
       /\ \A k \in 1..(Len(h) + Len(from)) :
            (delivered[m] \o v)[k] = IF k <= Len(h) THEN delivered[m][k] ELSE v[k - Len(h)]
  <2> DEFINE c == delivered[m]
  <2>1. c \in Seq(Out1) /\ v \in Seq(Out1) /\ Len(c) = Len(h) /\ Len(v) = Len(from) BY <1>5, <1>9, <1>13
  <2> HIDE DEF c
  <2>2. /\ c \o v \in Seq(Out1) /\ Len(c \o v) = Len(c) + Len(v)
        /\ \A k \in 1..(Len(c) + Len(v)) : (c \o v)[k] = IF k <= Len(c) THEN c[k] ELSE v[k - Len(c)]
    BY <2>1, ConcatProperties
  <2>3. /\ c \o v \in Seq(Out1) /\ Len(c \o v) = Len(h) + Len(from)
        /\ \A k \in 1..(Len(h) + Len(from)) : (c \o v)[k] = IF k <= Len(h) THEN c[k] ELSE v[k - Len(h)]
    BY <2>1, <2>2
  <2> QED BY <2>3 DEF c
<1> DEFINE g == h \o u
           d == delivered[m] \o v
           w == OutputsOf(path', g)
<1>15. /\ DOMAIN w = 1..(Len(h) + Len(from))
       /\ \A k \in 1..(Len(h) + Len(from)) :
            w[k] = [node |-> path'[g[k]].node, run |-> RunsBefore(path', g[k]) + 1]
       /\ w = [k \in 1..(Len(h) + Len(from)) |-> w[k]]
  BY <1>12 DEF OutputsOf
<1>16. d = [k \in 1..(Len(h) + Len(from)) |-> d[k]] BY <1>14
<1> HIDE DEF g, d, w
<1>17. ASSUME NEW k \in 1..(Len(h) + Len(from)) PROVE d[k] = w[k]
  <2>1. CASE k <= Len(h)
    <3>1. k \in 1..Len(h) /\ g[k] = h[k] /\ d[k] = delivered[m][k] BY <1>7, <1>12, <1>14, <2>1 DEF g, d
    <3>2. h[k] \in 1..L BY <1>8, <3>1
    <3> QED BY <1>1, <1>2, <1>13, <1>15, <3>1, <3>2
  <2>2. CASE ~(k <= Len(h))
    <3> DEFINE j == k - Len(h)
    <3>1. j \in 1..Len(from) BY <1>7, <2>2
    <3>2. g[k] = u[j] /\ d[k] = v[j] BY <1>12, <1>14, <2>2 DEF g, d
    <3> HIDE DEF j
    <3>3. from[j] \in Running(o) /\ u[j] = at(from[j])
          /\ v[j] = [node |-> from[j], run |-> outputs[from[j]] + 1]
      BY <1>8, <1>11, <3>1
    <3>4. path'[at(from[j])].node = from[j] /\ RunsBefore(path', at(from[j])) = outputs[from[j]]
      BY <1>1, <1>2, <3>3
    <3> QED BY <1>15, <3>2, <3>3, <3>4
  <2> QED BY <2>1, <2>2
<1>18. d = w BY <1>15, <1>16, <1>17
<1> QED BY <1>3, <1>4, <1>18 DEF d, w, g

\* What is delivered has its type, on a default output or not.
LEMMA DeliveryTyped ==
  ASSUME GraphTyped, NEW o, Writes(o)
  PROVE  delivered' \in [GraphNodes -> Seq([node : GraphNodes, run : Nat])]
<1> DEFINE Out1 == [node : GraphNodes, run : Nat]
           from(m) == InOrder({n \in Running(o) : m \in o[n].next})
           v(m) == [i \in 1..Len(from(m)) |-> [node |-> from(m)[i], run |-> outputs[from(m)[i]] + 1]]
<1>1. ASSUME NEW m \in GraphNodes PROVE v(m) \in Seq(Out1)
  <2> DEFINE S == {n \in Running(o) : m \in o[n].next}
             f == from(m)
  <2>1. Running(o) \in SUBSET GraphNodes /\ Running(o) \in SUBSET Nat /\ IsFiniteSet(Running(o))
    BY RunningFacts
  <2>2. S \in SUBSET Running(o) OBVIOUS
  <2>3. S \in SUBSET Nat /\ IsFiniteSet(S)
    <3> HIDE DEF S
    <3>1. \A n \in Running(o) : n \in Nat BY <2>1
    <3> QED BY <2>1, <2>2, <3>1, FS_Subset
  <2>4. Lists(f, S) BY <2>3, InOrderLists
  <2> HIDE DEF S, f
  <2>5. f \in Seq(S) /\ DOMAIN f = 1..Len(f) /\ Len(f) \in Nat BY <2>4, LenProperties DEF Lists
  <2>6. \A k \in 1..Len(f) : f[k] \in GraphNodes /\ outputs[f[k]] \in Nat
    <3>1. \A k \in 1..Len(f) : f[k] \in S BY <2>5
    <3> QED BY <2>1, <2>2, <3>1 DEF GraphTyped
  <2> DEFINE w == [i \in 1..Len(f) |-> [node |-> f[i], run |-> outputs[f[i]] + 1]]
  <2>7. w \in [1..Len(f) -> Out1] BY <2>6
  <2> HIDE DEF w, Out1
  <2>8. \A l \in Nat : \A g \in [1..l -> Out1] : g \in Seq(Out1)
    <3> SUFFICES ASSUME NEW l \in Nat, NEW g \in [1..l -> Out1] PROVE g \in Seq(Out1) OBVIOUS
    <3> QED OBVIOUS
  <2>9. w \in Seq(Out1) BY <2>5, <2>7, <2>8
  <2> QED BY <2>9 DEF w, f
<1>2. \A m \in GraphNodes : delivered[m] \in Seq(Out1) BY DEF GraphTyped
<1>3. delivered' = [m \in GraphNodes |-> delivered[m] \o v(m)] BY DEF Writes
<1> HIDE DEF v, Out1
<1>4. \A m \in GraphNodes : delivered[m] \o v(m) \in Seq(Out1) BY <1>1, <1>2, ConcatProperties
<1>5. delivered' \in [GraphNodes -> Seq(Out1)] BY <1>3, <1>4
<1> QED BY <1>5 DEF Out1

\* A superstep after which nobody follows, though nobody waited and every handle has its edge, is End's.
LEMMA LastStepIsEnd ==
  ASSUME GraphTyped, NEW o, Writes(o), ready # {}, \A n \in ready : o[n].kind = "output",
         Followers(o) = {}, Unwired = {}
  PROVE  outputs'[End] > 0
<1>1. PICK n \in ready : TRUE OBVIOUS
<1>2. n \in GraphNodes /\ n \in Running(o) /\ o[n] \in Outcomes(n)
  BY DEF Running, GraphTyped, Writes
<1>3. o[n].next = {} BY <1>2 DEF Followers
<1>4. \A h \in HandlesOf(n) : \E e \in edges : e.source = n /\ e.handle = h
  BY <1>2 DEF Unwired, Out
<1>5. n = End
  <2> SUFFICES ASSUME n # End PROVE FALSE OBVIOUS
  <2>1. CASE n \in Routers
    <3>1. n \notin Plain /\ n \notin Codes BY <2>1, GraphAssumption DEF Plain
    <3> DEFINE always == Targets({e \in Out(n) : ~IsConditional(e)})
               to(h) == Targets({e \in Out(n) : e.handle = h})
    <3>2. PICK h \in Handles :
            o[n] \in (IF to(h) = {} THEN {[kind |-> "output", targets |-> {}, next |-> always]}
                      ELSE {[kind |-> "output", targets |-> {t}, next |-> {t} \cup always] : t \in to(h)})
      BY <1>2, <3>1 DEF Outcomes
    <3>3. PICK e \in edges : e.source = n /\ e.handle = h BY <1>4, <2>1, <3>2 DEF HandlesOf
    <3>4. e.target \in to(h) BY <3>3 DEF Targets, Out
    <3> HIDE DEF to, always
    <3>5. PICK t \in to(h) : o[n] = [kind |-> "output", targets |-> {t}, next |-> {t} \cup always]
      BY <3>2, <3>4
    <3> QED BY <1>3, <3>5
  <2>2. CASE n \notin Routers
    <3>1. n \in Plain \/ n \in Codes BY <1>2, <2>2 DEF Plain
    <3>2. o[n].kind = "output" BY <1>1
    <3>3. o[n].next = Successors(n) BY <1>2, <3>1, <3>2 DEF Outcomes
    <3>4. "output" \in HandlesOf(n) BY <2>2 DEF HandlesOf
    <3>5. PICK e \in edges : e.source = n /\ e.handle = "output" BY <1>4, <3>4
    <3>6. e.target \in Successors(n) BY <3>5 DEF Successors, Targets, Out
    <3> QED BY <1>3, <3>3, <3>6
  <2> QED BY <2>1, <2>2
<1>6. outputs'[End] = outputs[End] + 1 /\ outputs[End] \in Nat
  BY <1>2, <1>5 DEF Writes, GraphTyped
<1> QED BY <1>6

LEMMA SuperstepInv == GraphInv /\ Superstep => GraphInv'
<1> SUFFICES ASSUME GraphInv, Superstep PROVE GraphInv' OBVIOUS
<1>0. GraphTyped /\ FollowsEdges /\ CountsOutputs /\ RecordsDelivery /\ RunsReachEnd BY DEF GraphInv
<1>1. PICK o \in [ready -> UNION {Outcomes(n) : n \in ready}] :
        /\ Writes(o) /\ steps' = steps + 1
        /\ waited' = (waited \/ \E n \in ready : o[n].kind = "wait")
        /\ IF \E n \in ready : o[n].kind = "abort"
           THEN ready' = {} /\ phase' = "aborted"
           ELSE ready' = Followers(o) /\ phase' = IF Followers(o) = {} THEN "ended" ELSE "running"
  BY DEF Superstep, Writes
<1>2. phase = "running" /\ ready # {} /\ edges' = edges BY DEF Superstep
<1>3. GraphTyped'
  <2>1. path' \in Seq(PathEntry) BY <1>0, <1>1, PathGrows
  <2>2. Followers(o) \in SUBSET GraphNodes
    <3>1. \A n \in Running(o) : o[n].next \in SUBSET GraphNodes
      <4>1. \A n \in Running(o) : o[n].next \subseteq Successors(n) /\ n \in GraphNodes
        BY <1>0, <1>1, RunningFacts
      <4> QED BY <1>0, <4>1, EdgesJoinNodes
    <3> QED BY <3>1 DEF Followers
  <2>3. ready' \in SUBSET GraphNodes /\ phase' \in {"ended", "aborted", "running"} BY <1>1, <2>2
  <2>4. outputs' \in [GraphNodes -> Nat]
    <3>1. \A n \in GraphNodes : outputs[n] + (IF n \in Running(o) THEN 1 ELSE 0) \in Nat
      BY <1>0 DEF GraphTyped
    <3>2. outputs' = [n \in GraphNodes |-> outputs[n] + (IF n \in Running(o) THEN 1 ELSE 0)]
      BY <1>1 DEF Writes
    <3> QED BY <3>1, <3>2
  <2>5. steps' \in Nat BY <1>0, <1>1 DEF GraphTyped
  <2>6. waited' \in BOOLEAN
    <3>1. (waited \/ \E n \in ready : o[n].kind = "wait") \in BOOLEAN OBVIOUS
    <3> QED BY <1>1, <3>1
  <2>7. edges' \in SUBSET Drawable BY <1>0, <1>2 DEF GraphTyped
  <2> QED BY <1>0, <1>1, <2>1, <2>3, <2>4, <2>5, <2>6, <2>7, DeliveryTyped DEF GraphTyped
<1>4. \A n : Successors(n)' = Successors(n) BY <1>2 DEF Successors, Targets, Out
<1>5. FollowsEdges'
  <2> SUFFICES ASSUME NEW i \in DOMAIN path' PROVE path'[i].targets \subseteq Successors(path'[i].node)
    BY <1>2 DEF FollowsEdges, Successors, Targets, Out
  <2>1. CASE i \in 1..Len(path)
    <3>1. path'[i] = path[i] /\ i \in DOMAIN path BY <1>0, <1>1, <2>1, PathGrows
    <3> QED BY <1>0, <3>1 DEF FollowsEdges
  <2>2. CASE i \notin 1..Len(path)
    <3> DEFINE n == path'[i].node
    <3>1. n \in Running(o) /\ i = Len(path) + Place(o, n) BY <1>0, <1>1, <2>2, PathGrows
    <3> HIDE DEF n
    <3>2. path'[i] = [node |-> n, targets |-> o[n].targets] BY <1>0, <1>1, <3>1, PathGrows
    <3>3. o[n].targets \subseteq Successors(n) BY <1>0, <1>1, <3>1, RunningFacts
    <3> QED BY <3>2, <3>3
  <2> QED BY <2>1, <2>2
<1>6. CountsOutputs' BY <1>0, <1>1, RunsCounted
<1>7. RecordsDelivery'
  <2> SUFFICES ASSUME NEW m \in GraphNodes, ~OnDefault(m)
               PROVE  delivered'[m] = OutputsOf(path', InOrder(RoutesHere(m))')
    BY <1>2 DEF RecordsDelivery, OnDefault
  <2> QED BY <1>0, <1>1, DeliveryRecorded
<1>8. RunsReachEnd'
  <2> SUFFICES ASSUME phase' = "ended", ~waited', Unwired' = {} PROVE outputs'[End] > 0
    BY DEF RunsReachEnd
  <2>1. ~(\E n \in ready : o[n].kind = "abort") /\ Followers(o) = {} BY <1>1
  <2>2. ~(\E n \in ready : o[n].kind = "wait") BY <1>1
  <2>3. \A n \in ready : o[n].kind \in {"output", "wait", "abort"}
    <3>1. \A n \in ready : n \in GraphNodes /\ o[n] \in Outcomes(n) BY <1>0, <1>1 DEF GraphTyped, Writes
    <3> QED BY <1>0, <3>1, OutcomeFacts
  <2>4. \A n \in ready : o[n].kind = "output" BY <2>1, <2>2, <2>3
  <2>5. Unwired = {} BY <1>2 DEF Unwired, Out
  <2> QED BY <1>0, <1>1, <1>2, <2>1, <2>4, <2>5, LastStepIsEnd
<1> QED BY <1>3, <1>5, <1>6, <1>7, <1>8 DEF GraphInv

\* The build and a failing node leave the path and what was delivered.
LEMMA GraphKeepsInv ==
  ASSUME GraphInv, UNCHANGED <<edges, path, outputs, steps, delivered, waited>>,
         ready' \in SUBSET GraphNodes,
         phase' \in {"stored", "rejected", "running", "failed"} \/ phase' = phase
  PROVE  GraphInv'
<1>1. GraphTyped' BY DEF GraphTyped, GraphInv
<1>2. FollowsEdges' BY DEF FollowsEdges, GraphInv, Successors, Targets, Out
<1>3. CountsOutputs' BY DEF CountsOutputs, GraphInv, RunsOf
<1>4. RecordsDelivery' BY DEF RecordsDelivery, GraphInv, OnDefault, RoutesHere
<1>5. RunsReachEnd' BY DEF RunsReachEnd, GraphInv, Unwired, Out
<1> QED BY <1>1, <1>2, <1>3, <1>4, <1>5 DEF GraphInv

LEMMA GraphNextInv == GraphInv /\ [GraphNext]_graphVars => GraphInv'
<1> SUFFICES ASSUME GraphInv, [GraphNext]_graphVars PROVE GraphInv' OBVIOUS
<1>1. CASE Builds
  <2>1. ready' \in SUBSET GraphNodes BY <1>1, NodesAreNumbers DEF Builds
  <2>2. phase' \in {"rejected", "running"} BY <1>1 DEF Builds
  <2>3. UNCHANGED <<edges, path, outputs, steps, delivered, waited>> BY <1>1 DEF Builds
  <2> QED BY <2>1, <2>2, <2>3, GraphKeepsInv
<1>2. CASE Superstep BY <1>2, SuperstepInv
<1>3. CASE Starves BY <1>3, GraphKeepsInv DEF Starves
<1>4. CASE UNCHANGED graphVars BY <1>4, GraphKeepsInv DEF graphVars, GraphInv, GraphTyped
<1> QED BY <1>1, <1>2, <1>3, <1>4 DEF GraphNext

\* A run of an entry is counted before its node has been counted as often as it ran.
LEMMA RunIsCounted ==
  ASSUME GraphTyped, CountsOutputs, NEW i \in DOMAIN path
  PROVE  RunIndex(i) < outputs[path[i].node] /\ RunIndex(i) = RunsBefore(path, i)
<1> DEFINE n == path[i].node
           before == {j \in 1..(i - 1) : path[j].node = n}
<1>1. Len(path) \in Nat /\ DOMAIN path = 1..Len(path) BY LenProperties DEF GraphTyped
<1>2. n \in GraphNodes
  <2>1. path[i] \in PathEntry BY <1>1 DEF GraphTyped
  <2> QED BY <2>1 DEF PathEntry
<1>3. outputs[n] = Cardinality(RunsOf(n)) BY <1>2 DEF CountsOutputs
<1>4. i \in 1..Len(path) /\ i \notin before /\ i \in RunsOf(n) BY <1>1 DEF RunsOf
<1>5. before \in SUBSET RunsOf(n) BY <1>1, <1>4 DEF RunsOf
<1>6. IsFiniteSet(RunsOf(n))
  <2>1. IsFiniteSet(1..Len(path)) BY <1>1, FS_Interval
  <2>2. RunsOf(n) \in SUBSET (1..Len(path)) BY <1>1 DEF RunsOf
  <2> QED BY <2>1, <2>2, FS_Subset
<1>7. RunIndex(i) = Cardinality(before) /\ RunsBefore(path, i) = Cardinality(before)
  BY DEF RunIndex, RunsBefore
<1> HIDE DEF before, n
<1>8. /\ IsFiniteSet(before) /\ Cardinality(before) <= Cardinality(RunsOf(n))
      /\ Cardinality(RunsOf(n)) = Cardinality(before) => RunsOf(n) = before
  BY <1>5, <1>6, FS_Subset
<1>9. Cardinality(before) \in Nat /\ Cardinality(RunsOf(n)) \in Nat BY <1>6, <1>8, FS_CardinalityType
<1> QED BY <1>3, <1>4, <1>7, <1>8, <1>9 DEF n

LEMMA InputsFollow == GraphInv => InputsArrive
<1> SUFFICES ASSUME GraphInv, NEW n \in ready, ~OnDefault(n) PROVE NodeInputs(n) = delivered[n]
  BY DEF InputsArrive, OnDefault
<1>0. GraphTyped /\ FollowsEdges /\ CountsOutputs /\ RecordsDelivery BY DEF GraphInv
<1>1. n \in GraphNodes BY <1>0 DEF GraphTyped
<1>2. \A i \in DOMAIN path : RunIndex(i) < outputs[path[i].node] /\ RunIndex(i) = RunsBefore(path, i)
  BY <1>0, RunIsCounted
<1>3. {i \in DOMAIN path : /\ path[i].node \in Incoming(n) /\ n \in path[i].targets
                           /\ RunIndex(i) < outputs[path[i].node]} = RoutesHere(n)
  <2>1. ASSUME NEW i \in DOMAIN path, n \in path[i].targets PROVE path[i].node \in Incoming(n)
    BY <1>0, <2>1 DEF FollowsEdges, Successors, Targets, Out, Incoming
  <2> QED BY <1>2, <2>1 DEF RoutesHere
<1> DEFINE h == InOrder(RoutesHere(n))
<1>4. DOMAIN h = 1..Len(h) /\ \A k \in 1..Len(h) : h[k] \in DOMAIN path
  <2>1. Len(path) \in Nat /\ DOMAIN path = 1..Len(path) BY <1>0, LenProperties DEF GraphTyped
  <2>2. RoutesHere(n) \in SUBSET (1..Len(path)) BY <2>1 DEF RoutesHere
  <2>3. RoutesHere(n) \in SUBSET Nat /\ IsFiniteSet(RoutesHere(n))
    <3>1. IsFiniteSet(1..Len(path)) /\ \A i \in 1..Len(path) : i \in Nat BY <2>1, FS_Interval
    <3> QED BY <2>2, <3>1, FS_Subset
  <2>4. h \in Seq(RoutesHere(n)) BY <2>3, InOrderLists DEF Lists
  <2> HIDE DEF h
  <2>5. DOMAIN h = 1..Len(h) /\ \A k \in 1..Len(h) : h[k] \in RoutesHere(n) BY <2>4, LenProperties
  <2> QED BY <2>5 DEF RoutesHere
<1>5. NodeInputs(n) = [k \in 1..Len(h) |-> [node |-> path[h[k]].node, run |-> RunIndex(h[k]) + 1]]
  BY <1>3 DEF NodeInputs
<1>6. delivered[n] = [k \in 1..Len(h) |-> [node |-> path[h[k]].node, run |-> RunsBefore(path, h[k]) + 1]]
  BY <1>0, <1>1 DEF RecordsDelivery, OutputsOf
<1> HIDE DEF h
<1> QED BY <1>2, <1>4, <1>5, <1>6

\* For every graph and run: a node finds exactly the outputs that were routed to it, in the order
\* they came, however often the nodes before it ran (PipelineState.get_node_inputs).
THEOREM NodesFindTheirInputs == GraphSpec => []InputsArrive
<1>1. GraphInit => GraphInv BY GraphInitInv
<1>2. GraphInv /\ [GraphNext]_graphVars => GraphInv' BY GraphNextInv
<1>3. GraphInv => InputsArrive BY InputsFollow
<1> QED BY <1>1, <1>2, <1>3, PTL DEF GraphSpec

\* For every graph: a run that has ended without anybody waiting has run End, when unwired_handles
\* has nothing to report.
THEOREM WiredRunsReachEnd == GraphSpec => []RunsReachEnd
<1>1. GraphInit => GraphInv BY GraphInitInv
<1>2. GraphInv /\ [GraphNext]_graphVars => GraphInv' BY GraphNextInv
<1>3. GraphInv => RunsReachEnd BY DEF GraphInv
<1> QED BY <1>1, <1>2, <1>3, PTL DEF GraphSpec

-----------------------------------------------------------------------------
(* The search for a cycle.                                                 *)

\* The nodes that a search may look at next, and the one it takes; where it goes on from there.
Unfinished(x) == {n \in NextNodes(x) : x.state[n] # "visited"}
Taken(x) == CHOOSE n \in Unfinished(x) : TRUE
AtCycle(x) == Unfinished(x) # {} /\ x.state[Taken(x)] = "visiting"
GoesOn(x) == \/ Unfinished(x) = {} /\ x.stack # <<>>
             \/ Unfinished(x) # {} /\ x.state[Taken(x)] # "visiting"
WentOn(x) == IF Unfinished(x) = {} THEN Return(x) ELSE Visit(x, Taken(x))

\* What FindsCycle is of itself.
SearchBody(f, x) ==
  IF Unfinished(x) = {} THEN x.stack # <<>> /\ f[Return(x)]
  ELSE x.state[Taken(x)] = "visiting" \/ f[Visit(x, Taken(x))]

\* A search stays one.
LEMMA SearchGoesOn ==
  ASSUME GraphTyped, NEW x \in Searches
  PROVE  /\ NextNodes(x) \in SUBSET GraphNodes
         /\ Unfinished(x) # {} => Taken(x) \in Unfinished(x) /\ Taken(x) \in GraphNodes
         /\ GoesOn(x) => WentOn(x) \in Searches
<1>1. /\ x.state \in [GraphNodes -> {"unvisited", "visiting", "visited"}]
      /\ x.stack \in Seq(GraphNodes) /\ Len(x.stack) \in Nat /\ DOMAIN x.stack = 1..Len(x.stack)
  BY LenProperties DEF Searches
<1>2. x.stack # <<>> => Len(x.stack) \in 1..Len(x.stack) /\ x.stack[Len(x.stack)] \in GraphNodes
  BY <1>1
<1>3. NextNodes(x) \in SUBSET GraphNodes BY <1>2, EdgesJoinNodes DEF NextNodes
<1>4. Unfinished(x) # {} => Taken(x) \in Unfinished(x) /\ Taken(x) \in GraphNodes
  BY <1>3 DEF Unfinished, Taken
<1>5. ASSUME Unfinished(x) = {}, x.stack # <<>> PROVE Return(x) \in Searches
  <2>1. [x.state EXCEPT ![x.stack[Len(x.stack)]] = "visited"]
          \in [GraphNodes -> {"unvisited", "visiting", "visited"}]
    BY <1>1, <1>2, <1>5
  <2>2. SubSeq(x.stack, 1, Len(x.stack) - 1) \in Seq(GraphNodes)
    <3>1. Len(x.stack) - 1 \in Int /\ \A i \in 1..(Len(x.stack) - 1) : x.stack[i] \in GraphNodes
      BY <1>1
    <3> QED BY <1>1, <1>2, <1>5, <3>1, SubSeqProperties
  <2> QED BY <2>1, <2>2 DEF Return, Searches
<1>6. ASSUME Unfinished(x) # {} PROVE Visit(x, Taken(x)) \in Searches
  <2>1. Taken(x) \in GraphNodes BY <1>4, <1>6
  <2>2. [x.state EXCEPT ![Taken(x)] = "visiting"] \in [GraphNodes -> {"unvisited", "visiting", "visited"}]
    BY <1>1, <2>1
  <2>3. Append(x.stack, Taken(x)) \in Seq(GraphNodes) BY <1>1, <2>1, AppendProperties
  <2> QED BY <2>2, <2>3 DEF Visit, Searches
<1> QED BY <1>3, <1>4, <1>5, <1>6 DEF GoesOn, WentOn

\* A function that is what FindsCycle is of itself: whether a search comes to a cycle.
LEMMA SearchEnds ==
  ASSUME GraphTyped
  PROVE  \E f : f = [x \in Searches |-> SearchBody(f, x)]
<1> DEFINE Closed(C) == \A y \in Searches : (AtCycle(y) \/ (GoesOn(y) /\ WentOn(y) \in C)) => y \in C
           K == {x \in Searches : \A C \in SUBSET Searches : Closed(C) => x \in C}
           f == [x \in Searches |-> x \in K]
<1>1. ASSUME NEW x \in Searches PROVE x \in K <=> (AtCycle(x) \/ (GoesOn(x) /\ WentOn(x) \in K))
  <2>1. ASSUME AtCycle(x) PROVE x \in K BY <2>1
  <2>2. ASSUME GoesOn(x), WentOn(x) \in K PROVE x \in K BY <2>2
  <2>3. ASSUME ~AtCycle(x), ~(GoesOn(x) /\ WentOn(x) \in K) PROVE x \notin K
    <3>1. CASE ~GoesOn(x)
      <4>1. Closed(Searches \ {x}) BY <2>3, <3>1
      <4> QED BY <4>1
    <3>2. CASE GoesOn(x) /\ WentOn(x) \notin K
      <4>1. WentOn(x) \in Searches BY <3>2, SearchGoesOn
      <4>2. PICK C \in SUBSET Searches : Closed(C) /\ WentOn(x) \notin C BY <3>2, <4>1
      <4>3. Closed(C \ {x}) BY <2>3, <4>2
      <4> QED BY <4>2, <4>3
    <3> QED BY <2>3, <3>1, <3>2
  <2> QED BY <2>1, <2>2, <2>3
<1> HIDE DEF K
<1>2. ASSUME NEW x \in Searches PROVE f[x] = SearchBody(f, x)
  <2>1. f[x] = (x \in K) BY <1>2
  <2>2. CASE Unfinished(x) = {} /\ x.stack = <<>>
    <3>1. SearchBody(f, x) = FALSE BY <2>2 DEF SearchBody
    <3>2. x \notin K BY <1>1, <2>2 DEF AtCycle, GoesOn
    <3>3. (x \in K) = FALSE BY <3>2
    <3> QED BY <2>1, <3>1, <3>3
  <2>3. CASE Unfinished(x) = {} /\ x.stack # <<>>
    <3>1. Return(x) \in Searches BY <2>3, SearchGoesOn DEF GoesOn, WentOn
    <3>2. f[Return(x)] = (Return(x) \in K) BY <3>1
    <3>3. SearchBody(f, x) = (Return(x) \in K)
      <4>1. SearchBody(f, x) = (x.stack # <<>> /\ f[Return(x)]) BY <2>3 DEF SearchBody
      <4>2. (x.stack # <<>> /\ f[Return(x)]) = (x.stack # <<>> /\ Return(x) \in K) BY <3>2
      <4>3. (x.stack # <<>> /\ Return(x) \in K) = (Return(x) \in K) BY <2>3
      <4> QED BY <4>1, <4>2, <4>3
    <3>4. (x \in K) = (Return(x) \in K) BY <1>1, <2>3 DEF AtCycle, GoesOn, WentOn
    <3> QED BY <2>1, <3>3, <3>4
  <2>4. CASE Unfinished(x) # {} /\ x.state[Taken(x)] = "visiting"
    <3>1. SearchBody(f, x) = TRUE BY <2>4 DEF SearchBody
    <3>2. x \in K BY <1>1, <2>4 DEF AtCycle
    <3> QED BY <2>1, <3>1, <3>2
  <2>5. CASE Unfinished(x) # {} /\ x.state[Taken(x)] # "visiting"
    <3>1. Visit(x, Taken(x)) \in Searches BY <2>5, SearchGoesOn DEF GoesOn, WentOn
    <3>2. f[Visit(x, Taken(x))] = (Visit(x, Taken(x)) \in K) BY <3>1
    <3>3. SearchBody(f, x) = (Visit(x, Taken(x)) \in K)
      <4> DEFINE met == x.state[Taken(x)] = "visiting"
      <4>1. SearchBody(f, x) = (met \/ f[Visit(x, Taken(x))]) BY <2>5 DEF SearchBody
      <4>2. (met \/ f[Visit(x, Taken(x))]) = (met \/ Visit(x, Taken(x)) \in K) BY <3>2
      <4>3. (met \/ Visit(x, Taken(x)) \in K) = (Visit(x, Taken(x)) \in K) BY <2>5
      <4> QED BY <4>1, <4>2, <4>3
    <3>4. (x \in K) = (Visit(x, Taken(x)) \in K) BY <1>1, <2>5 DEF AtCycle, GoesOn, WentOn
    <3> QED BY <2>1, <3>3, <3>4
  <2> QED BY <2>2, <2>3, <2>4, <2>5
<1>3. f = [x \in Searches |-> f[x]] OBVIOUS
<1> HIDE DEF f
<1>4. f = [x \in Searches |-> SearchBody(f, x)] BY <1>2, <1>3
<1> QED BY <1>4

LEMMA FindsCycleIs ==
  ASSUME GraphTyped, NEW x \in Searches
  PROVE  FindsCycle[x] = SearchBody(FindsCycle, x)
<1>1. FindsCycle = CHOOSE f : f = [y \in Searches |-> SearchBody(f, y)]
  BY DEF FindsCycle, SearchBody, Unfinished, Taken
<1> HIDE DEF FindsCycle
<1>2. FindsCycle = [y \in Searches |-> SearchBody(FindsCycle, y)] BY <1>1, SearchEnds
<1> QED BY <1>2

\* Nodes that all lead to one another.
Circle(s) == s # {} /\ \A n \in s : Successors(n) \cap s # {}
Circular == \E s \in SUBSET GraphNodes : Circle(s)

Visited(x) == {n \in GraphNodes : x.state[n] = "visited"}
Unvisited(x) == {n \in GraphNodes : x.state[n] = "unvisited"}

\* The nodes being visited are those of the stack, which is a way through the graph; those visited
\* lead to visited ones, and not in a circle.
StackIsVisiting(x) ==
  /\ \A k \in 1..Len(x.stack) : x.state[x.stack[k]] = "visiting"
  /\ \A n \in GraphNodes : x.state[n] = "visiting" => \E k \in 1..Len(x.stack) : x.stack[k] = n
  /\ \A j, k \in 1..Len(x.stack) : x.stack[j] = x.stack[k] => j = k
StackIsWay(x) == \A k \in 1..Len(x.stack) : k > 1 => x.stack[k] \in Successors(x.stack[k - 1])
VisitedIsClosed(x) == \A n \in Visited(x) : Successors(n) \subseteq Visited(x)
VisitedIsOrdered(x) == \A s \in SUBSET Visited(x) : ~Circle(s)
SearchIsRight(x) == StackIsVisiting(x) /\ StackIsWay(x) /\ VisitedIsClosed(x) /\ VisitedIsOrdered(x)

\* What a search has left: two steps for each unvisited node and one for each on the stack.
StepsLeft(x) == 2 * Cardinality(Unvisited(x)) + Len(x.stack)

LEMMA StackFacts ==
  ASSUME NEW x \in Searches
  PROVE  /\ x.state \in [GraphNodes -> {"unvisited", "visiting", "visited"}]
         /\ x.stack \in Seq(GraphNodes) /\ Len(x.stack) \in Nat /\ DOMAIN x.stack = 1..Len(x.stack)
         /\ \A k \in 1..Len(x.stack) : x.stack[k] \in GraphNodes
         /\ x.stack # <<>> <=> Len(x.stack) > 0
         /\ IsFiniteSet(Unvisited(x)) /\ Cardinality(Unvisited(x)) \in Nat /\ StepsLeft(x) \in Nat
<1>1. /\ x.state \in [GraphNodes -> {"unvisited", "visiting", "visited"}]
      /\ x.stack \in Seq(GraphNodes) /\ Len(x.stack) \in Nat /\ DOMAIN x.stack = 1..Len(x.stack)
  BY LenProperties DEF Searches
<1>2. \A k \in 1..Len(x.stack) : x.stack[k] \in GraphNodes BY <1>1
<1>3. x.stack # <<>> <=> Len(x.stack) > 0 BY <1>1
<1>4. Unvisited(x) \in SUBSET GraphNodes BY DEF Unvisited
<1>5. IsFiniteSet(Unvisited(x)) BY <1>4, NodesAreNumbers, FS_Subset
<1>6. Cardinality(Unvisited(x)) \in Nat BY <1>5, FS_CardinalityType
<1>7. StepsLeft(x) \in Nat BY <1>1, <1>6 DEF StepsLeft
<1> QED BY <1>1, <1>2, <1>3, <1>5, <1>6, <1>7

\* A node whose successors are all visited is visited in its turn.
LEMMA ReturnIsRight ==
  ASSUME GraphTyped, NEW x \in Searches, SearchIsRight(x), Unfinished(x) = {}, x.stack # <<>>
  PROVE  SearchIsRight(Return(x)) /\ StepsLeft(Return(x)) < StepsLeft(x)
<1> DEFINE l == Len(x.stack)
           n == x.stack[l]
           y == Return(x)
<1>1. /\ x.state \in [GraphNodes -> {"unvisited", "visiting", "visited"}]
      /\ x.stack \in Seq(GraphNodes) /\ l \in Nat /\ l > 0 /\ DOMAIN x.stack = 1..l
      /\ \A k \in 1..l : x.stack[k] \in GraphNodes
  BY StackFacts
<1>2. l \in 1..l /\ n \in GraphNodes /\ x.state[n] = "visiting" /\ NextNodes(x) = Successors(n)
  BY <1>1 DEF SearchIsRight, StackIsVisiting, NextNodes
<1>3. Successors(n) \subseteq Visited(x)
  <2>1. Successors(n) \in SUBSET GraphNodes BY <1>2, EdgesJoinNodes
  <2> QED BY <1>2, <2>1 DEF Unfinished, Visited
<1>4. y \in Searches BY SearchGoesOn DEF GoesOn, WentOn
<1>5. y.state = [x.state EXCEPT ![n] = "visited"] /\ y.stack = SubSeq(x.stack, 1, l - 1) BY DEF Return
<1>6. Len(y.stack) = l - 1 /\ \A k \in 1..(l - 1) : y.stack[k] = x.stack[k] /\ k \in 1..l
  <2>1. l - 1 \in Nat /\ \A k \in 1..(l - 1) : k \in 1..l BY <1>1
  <2>2. \A k \in 1..(l - 1) : x.stack[k] \in GraphNodes BY <1>1, <2>1
  <2>3. /\ Len(SubSeq(x.stack, 1, l - 1)) = l - 1
        /\ \A k \in 1..(l - 1) : SubSeq(x.stack, 1, l - 1)[k] = x.stack[k]
    BY <1>1, <2>1
  <2> QED BY <1>5, <2>1, <2>3
<1>7. \A m \in GraphNodes : y.state[m] = IF m = n THEN "visited" ELSE x.state[m] BY <1>1, <1>2, <1>5
<1> HIDE DEF y, l, n
<1>8. Visited(y) = Visited(x) \cup {n} /\ n \notin Visited(x) BY <1>2, <1>7 DEF Visited
<1>9. Unvisited(y) = Unvisited(x) BY <1>2, <1>7 DEF Unvisited
<1>10. StackIsVisiting(y)
  <2>1. ASSUME NEW k \in 1..(l - 1) PROVE y.state[y.stack[k]] = "visiting"
    <3>1. x.stack[k] # n
      <4>1. k \in 1..l /\ k # l BY <1>1, <1>6
      <4> QED BY <1>2, <4>1 DEF SearchIsRight, StackIsVisiting, n, l
    <3>2. x.stack[k] \in GraphNodes /\ x.state[x.stack[k]] = "visiting" /\ y.stack[k] = x.stack[k]
      BY <1>1, <1>6 DEF SearchIsRight, StackIsVisiting, l
    <3> QED BY <1>7, <3>1, <3>2
  <2>2. ASSUME NEW m \in GraphNodes, y.state[m] = "visiting" PROVE \E k \in 1..(l - 1) : y.stack[k] = m
    <3>1. m # n /\ x.state[m] = "visiting" BY <1>7, <2>2
    <3>2. PICK k \in 1..l : x.stack[k] = m BY <3>1 DEF SearchIsRight, StackIsVisiting, l
    <3>3. k # l BY <3>1, <3>2 DEF n
    <3>4. k \in 1..(l - 1) BY <1>1, <3>3
    <3> QED BY <1>6, <3>2, <3>4
  <2>3. \A j, k \in 1..(l - 1) : y.stack[j] = y.stack[k] => j = k
    BY <1>6 DEF SearchIsRight, StackIsVisiting, l
  <2> QED BY <1>6, <2>1, <2>2, <2>3 DEF StackIsVisiting
<1>11. StackIsWay(y)
  <2>1. ASSUME NEW k \in 1..(l - 1), k > 1 PROVE y.stack[k] \in Successors(y.stack[k - 1])
    <3>1. k - 1 \in 1..(l - 1) BY <1>1, <2>1
    <3>2. y.stack[k] = x.stack[k] /\ y.stack[k - 1] = x.stack[k - 1] /\ k \in 1..l BY <1>6, <3>1
    <3> QED BY <2>1, <3>2 DEF SearchIsRight, StackIsWay, l
  <2> QED BY <1>6, <2>1 DEF StackIsWay
<1>12. VisitedIsClosed(y) BY <1>3, <1>8 DEF SearchIsRight, VisitedIsClosed
<1>13. VisitedIsOrdered(y)
  <2> SUFFICES ASSUME NEW s \in SUBSET Visited(y), Circle(s) PROVE FALSE BY DEF VisitedIsOrdered
  <2> DEFINE t == s \ {n}
  <2>1. t \in SUBSET Visited(x) BY <1>8
  <2>2. \A m \in t : Successors(m) \cap t # {}
    <3> SUFFICES ASSUME NEW m \in t PROVE Successors(m) \cap t # {} OBVIOUS
    <3>1. Successors(m) \subseteq Visited(x) BY <2>1 DEF SearchIsRight, VisitedIsClosed
    <3>2. Successors(m) \cap s # {} BY DEF Circle
    <3> QED BY <1>8, <3>1, <3>2
  <2>3. t # {}
    <3>1. n \in s => Successors(n) \cap s # {} BY DEF Circle
    <3>2. s # {} BY DEF Circle
    <3> QED BY <1>3, <1>8, <3>1, <3>2
  <2>4. ~Circle(t) BY <2>1 DEF SearchIsRight, VisitedIsOrdered
  <2> QED BY <2>2, <2>3, <2>4 DEF Circle
<1>14. StepsLeft(y) < StepsLeft(x)
  <2>1. Cardinality(Unvisited(x)) \in Nat BY StackFacts
  <2> QED BY <1>1, <1>6, <1>9, <2>1 DEF StepsLeft, l
<1> QED BY <1>10, <1>11, <1>12, <1>13, <1>14 DEF SearchIsRight, y

\* An unvisited node is visited next, from the one on top of the stack.
LEMMA VisitIsRight ==
  ASSUME GraphTyped, NEW x \in Searches, SearchIsRight(x), NEW n \in Unfinished(x), n \in GraphNodes,
         x.state[n] # "visiting"
  PROVE  SearchIsRight(Visit(x, n)) /\ StepsLeft(Visit(x, n)) < StepsLeft(x)
<1> DEFINE l == Len(x.stack)
           y == Visit(x, n)
<1>1. /\ x.state \in [GraphNodes -> {"unvisited", "visiting", "visited"}]
      /\ x.stack \in Seq(GraphNodes) /\ l \in Nat /\ DOMAIN x.stack = 1..l
      /\ \A k \in 1..l : x.stack[k] \in GraphNodes
      /\ x.stack # <<>> <=> l > 0
      /\ IsFiniteSet(Unvisited(x)) /\ Cardinality(Unvisited(x)) \in Nat
  BY StackFacts
<1>2. x.state[n] = "unvisited" BY <1>1 DEF Unfinished
<1>3. y.state = [x.state EXCEPT ![n] = "visiting"] /\ y.stack = Append(x.stack, n) BY DEF Visit
<1>4. /\ Len(y.stack) = l + 1 /\ y.stack[l + 1] = n
      /\ \A k \in 1..l : y.stack[k] = x.stack[k]
      /\ \A k \in 1..(l + 1) : k \in 1..l \/ k = l + 1
      /\ \A k \in 1..l : k \in 1..(l + 1) /\ k # l + 1
      /\ l + 1 \in 1..(l + 1)
  BY <1>1, <1>3, AppendProperties
<1>5. \A m \in GraphNodes : y.state[m] = IF m = n THEN "visiting" ELSE x.state[m] BY <1>1, <1>3
<1> HIDE DEF y, l
<1>6. Visited(y) = Visited(x) BY <1>2, <1>5 DEF Visited
<1>7. Unvisited(y) = Unvisited(x) \ {n} /\ n \in Unvisited(x) BY <1>2, <1>5 DEF Unvisited
<1>8. \A k \in 1..l : x.stack[k] # n /\ x.state[x.stack[k]] = "visiting"
  BY <1>2 DEF SearchIsRight, StackIsVisiting, l
<1>9. StackIsVisiting(y)
  <2>1. ASSUME NEW k \in 1..(l + 1) PROVE y.state[y.stack[k]] = "visiting"
    <3>1. CASE k \in 1..l BY <1>1, <1>4, <1>5, <1>8, <3>1
    <3>2. CASE k = l + 1 BY <1>4, <1>5, <3>2
    <3> QED BY <1>4, <3>1, <3>2
  <2>2. ASSUME NEW m \in GraphNodes, y.state[m] = "visiting" PROVE \E k \in 1..(l + 1) : y.stack[k] = m
    <3>1. CASE m = n BY <1>4, <3>1
    <3>2. CASE m # n
      <4>1. PICK k \in 1..l : x.stack[k] = m
        BY <1>5, <2>2, <3>2 DEF SearchIsRight, StackIsVisiting, l
      <4> QED BY <1>4, <4>1
    <3> QED BY <3>1, <3>2
  <2>3. ASSUME NEW j \in 1..(l + 1), NEW k \in 1..(l + 1), y.stack[j] = y.stack[k] PROVE j = k
    <3>1. CASE j \in 1..l /\ k \in 1..l
      BY <1>4, <2>3, <3>1 DEF SearchIsRight, StackIsVisiting, l
    <3>2. CASE j = l + 1 /\ k \in 1..l BY <1>4, <1>8, <2>3, <3>2
    <3>3. CASE j \in 1..l /\ k = l + 1 BY <1>4, <1>8, <2>3, <3>3
    <3> QED BY <1>4, <3>1, <3>2, <3>3
  <2> QED BY <1>4, <2>1, <2>2, <2>3 DEF StackIsVisiting
<1>10. StackIsWay(y)
  <2>1. ASSUME NEW k \in 1..(l + 1), k > 1 PROVE y.stack[k] \in Successors(y.stack[k - 1])
    <3>1. k - 1 \in 1..l BY <1>1, <2>1
    <3>2. y.stack[k - 1] = x.stack[k - 1] BY <1>4, <3>1
    <3>3. CASE k \in 1..l BY <1>4, <2>1, <3>2, <3>3 DEF SearchIsRight, StackIsWay, l
    <3>4. CASE k = l + 1
      <4>1. k - 1 = l /\ x.stack # <<>> BY <1>1, <2>1, <3>4
      <4>2. n \in Successors(x.stack[l]) BY <4>1 DEF Unfinished, NextNodes, l
      <4> QED BY <1>4, <3>2, <3>4, <4>1, <4>2
    <3> QED BY <1>4, <3>3, <3>4
  <2> QED BY <1>4, <2>1 DEF StackIsWay
<1>11. VisitedIsClosed(y) /\ VisitedIsOrdered(y)
  BY <1>6 DEF SearchIsRight, VisitedIsClosed, VisitedIsOrdered
<1>12. StepsLeft(y) < StepsLeft(x)
  <2>1. Cardinality(Unvisited(y)) = Cardinality(Unvisited(x)) - 1 BY <1>1, <1>7, FS_RemoveElement
  <2> QED BY <1>1, <1>4, <2>1 DEF StepsLeft, l
<1> QED BY <1>9, <1>10, <1>11, <1>12 DEF SearchIsRight, y

\* A successor that is being visited closes a circle of the stack's nodes.
LEMMA MetIsCircle ==
  ASSUME GraphTyped, NEW x \in Searches, SearchIsRight(x), NEW n \in Unfinished(x), n \in GraphNodes,
         x.state[n] = "visiting"
  PROVE  Circular
<1> DEFINE l == Len(x.stack)
<1>1. l \in Nat /\ \A k \in 1..l : x.stack[k] \in GraphNodes BY StackFacts
<1>2. PICK k \in 1..l : x.stack[k] = n BY DEF SearchIsRight, StackIsVisiting
<1>3. n \in Successors(x.stack[l])
  <2>1. x.stack # <<>> BY <1>1, <1>2
  <2> QED BY <2>1 DEF Unfinished, NextNodes
<1> DEFINE s == {x.stack[j] : j \in k..l}
<1>4. \A j \in k..l : j \in 1..l /\ x.stack[j] \in s BY <1>1
<1>5. s \in SUBSET GraphNodes BY <1>1, <1>4
<1>6. n \in s /\ l \in k..l BY <1>1, <1>2
<1>7. ASSUME NEW j \in k..l PROVE Successors(x.stack[j]) \cap s # {}
  <2>1. CASE j = l BY <1>3, <1>6, <2>1
  <2>2. CASE j # l
    <3>1. j + 1 \in k..l /\ j + 1 > 1 /\ (j + 1) - 1 = j BY <1>1, <2>2
    <3>2. x.stack[j + 1] \in Successors(x.stack[(j + 1) - 1])
      BY <1>4, <3>1 DEF SearchIsRight, StackIsWay
    <3> QED BY <1>4, <3>1, <3>2
  <2> QED BY <2>1, <2>2
<1>8. Circle(s) BY <1>6, <1>7 DEF Circle
<1> QED BY <1>5, <1>8 DEF Circular

\* When no node with edges is left, there is no circle.
LEMMA NoneLeftIsNoCircle ==
  ASSUME GraphTyped, NEW x \in Searches, SearchIsRight(x), Unfinished(x) = {}, x.stack = <<>>
  PROVE  ~Circular
<1> SUFFICES ASSUME NEW s \in SUBSET GraphNodes, Circle(s) PROVE FALSE BY DEF Circular
<1>1. ASSUME NEW n \in s PROVE n \in Visited(x)
  <2>1. PICK m \in Successors(n) : TRUE BY DEF Circle
  <2>2. PICK e \in edges : e.source = n BY <2>1 DEF Successors, Targets, Out
  <2>3. n \in NextNodes(x) BY <2>2 DEF NextNodes
  <2> QED BY <2>3 DEF Unfinished, Visited
<1>2. s \in SUBSET Visited(x) BY <1>1
<1> QED BY <1>2 DEF SearchIsRight, VisitedIsOrdered

\* What a search finds from where it is.
LEMMA SearchIsCorrect ==
  ASSUME GraphTyped
  PROVE  \A x \in Searches : SearchIsRight(x) => FindsCycle[x] = Circular
<1> DEFINE Wrong == {x \in Searches : SearchIsRight(x) /\ FindsCycle[x] # Circular}
<1> SUFFICES ASSUME Wrong # {} PROVE FALSE OBVIOUS
<1>1. {StepsLeft(x) : x \in Wrong} \in SUBSET Nat /\ {StepsLeft(x) : x \in Wrong} # {} BY StackFacts
<1>2. PICK x \in Wrong : \A y \in Wrong : StepsLeft(x) <= StepsLeft(y)
  <2> DEFINE T == {StepsLeft(y) : y \in Wrong}
  <2>1. T \in SUBSET Nat /\ T # {} BY <1>1
  <2> HIDE DEF T
  <2>2. PICK t \in T : \A u \in T : t <= u BY <2>1, LeastNumber
  <2> QED BY <2>2 DEF T
<1>3. x \in Searches /\ SearchIsRight(x) /\ FindsCycle[x] # Circular BY <1>2
<1> HIDE DEF Wrong
<1>4. Circular \in BOOLEAN BY DEF Circular
<1>5. FindsCycle[x] = SearchBody(FindsCycle, x) BY <1>3, FindsCycleIs
<1>6. ASSUME NEW y \in Searches, SearchIsRight(y), StepsLeft(y) < StepsLeft(x)
      PROVE  FindsCycle[y] = Circular
  <2>1. StepsLeft(x) \in Nat /\ StepsLeft(y) \in Nat BY <1>3, StackFacts
  <2>2. y \notin Wrong BY <1>2, <1>6, <2>1
  <2> QED BY <1>6, <2>2 DEF Wrong
<1>7. CASE Unfinished(x) = {} /\ x.stack = <<>>
  <2>1. ~Circular BY <1>3, <1>7, NoneLeftIsNoCircle
  <2>2. SearchBody(FindsCycle, x) = FALSE BY <1>7 DEF SearchBody
  <2>3. Circular = FALSE BY <2>1, <1>4
  <2> QED BY <1>3, <1>5, <2>2, <2>3
<1>8. CASE Unfinished(x) = {} /\ x.stack # <<>>
  <2>1. Return(x) \in Searches BY <1>3, <1>8, SearchGoesOn DEF GoesOn, WentOn
  <2>2. SearchIsRight(Return(x)) /\ StepsLeft(Return(x)) < StepsLeft(x) BY <1>3, <1>8, ReturnIsRight
  <2>3. FindsCycle[Return(x)] = Circular BY <1>6, <2>1, <2>2
  <2>4. SearchBody(FindsCycle, x) = (x.stack # <<>> /\ FindsCycle[Return(x)]) BY <1>8 DEF SearchBody
  <2>5. (x.stack # <<>> /\ FindsCycle[Return(x)]) = (x.stack # <<>> /\ Circular) BY <2>3
  <2>6. (x.stack # <<>> /\ Circular) = Circular BY <1>4, <1>8
  <2> QED BY <1>3, <1>5, <2>4, <2>5, <2>6
<1>9. CASE Unfinished(x) # {}
  <2> DEFINE n == Taken(x)
             met == x.state[n] = "visiting"
  <2>1. n \in Unfinished(x) /\ n \in GraphNodes BY <1>3, <1>9, SearchGoesOn
  <2>2. SearchBody(FindsCycle, x) = (met \/ FindsCycle[Visit(x, n)]) BY <1>9 DEF SearchBody
  <2>3. CASE met
    <3>1. Circular BY <1>3, <2>1, <2>3, MetIsCircle
    <3>2. Circular = TRUE BY <1>4, <3>1
    <3>3. (met \/ FindsCycle[Visit(x, n)]) = TRUE BY <2>3
    <3> QED BY <1>3, <1>5, <2>2, <3>2, <3>3
  <2>4. CASE ~met
    <3>1. Visit(x, n) \in Searches BY <1>3, <1>9, <2>4, SearchGoesOn DEF GoesOn, WentOn
    <3>2. SearchIsRight(Visit(x, n)) /\ StepsLeft(Visit(x, n)) < StepsLeft(x)
      BY <1>3, <2>1, <2>4, VisitIsRight
    <3>3. FindsCycle[Visit(x, n)] = Circular BY <1>6, <3>1, <3>2
    <3>4. (met \/ FindsCycle[Visit(x, n)]) = (met \/ Circular) BY <3>3
    <3>5. (met \/ Circular) = Circular BY <1>4, <2>4
    <3> QED BY <1>3, <1>5, <2>2, <3>4, <3>5
  <2> QED BY <2>3, <2>4
<1> QED BY <1>7, <1>8, <1>9

\* The check of the build for a cycle finds one exactly when some nodes all lead to one another.
LEMMA CyclesAreFound == GraphTyped => HasCycle = Circular
<1> SUFFICES ASSUME GraphTyped PROVE HasCycle = Circular OBVIOUS
<1> DEFINE x == [state |-> [n \in GraphNodes |-> "unvisited"], stack |-> <<>>]
<1>1. x \in Searches BY DEF Searches
<1>2. Len(x.stack) = 0 /\ Visited(x) = {} /\ \A n \in GraphNodes : x.state[n] = "unvisited" BY DEF Visited
<1> HIDE DEF x
<1>3. SearchIsRight(x)
  BY <1>2 DEF SearchIsRight, StackIsVisiting, StackIsWay, VisitedIsClosed, VisitedIsOrdered, Circle
<1> QED BY <1>1, <1>3, SearchIsCorrect DEF HasCycle, x

-----------------------------------------------------------------------------
(* What the build accepts.                                                 *)

\* The nodes that n leads to: those in every set that has n and what its members lead to.
LedOn(s) == \A n \in s : Successors(n) \subseteq s
From(n) == {m \in GraphNodes : \A s \in SUBSET GraphNodes : (n \in s /\ LedOn(s)) => m \in s}

\* A node leads to itself and to what its successors lead to.
LEMMA FromSuccessors ==
  ASSUME GraphTyped, NEW n \in GraphNodes
  PROVE  From(n) = {n} \cup UNION {From(m) : m \in Successors(n)}
<1> DEFINE R == {n} \cup UNION {From(m) : m \in Successors(n)}
<1>1. Successors(n) \in SUBSET GraphNodes /\ \A k \in GraphNodes : Successors(k) \in SUBSET GraphNodes
  BY EdgesJoinNodes
<1>2. \A k : From(k) \in SUBSET GraphNodes BY DEF From
<1>3. \A k \in GraphNodes : k \in From(k) BY DEF From
<1>4. ASSUME NEW k \in GraphNodes, NEW j \in From(k), NEW i \in Successors(j) PROVE i \in From(k)
  <2>1. i \in GraphNodes BY <1>1, <1>2
  <2> SUFFICES ASSUME NEW s \in SUBSET GraphNodes, k \in s, LedOn(s) PROVE i \in s BY <2>1 DEF From
  <2>2. j \in s BY DEF From
  <2> QED BY <2>2 DEF LedOn
<1>5. ASSUME NEW m \in Successors(n), NEW j \in From(m) PROVE j \in From(n)
  <2> SUFFICES ASSUME NEW s \in SUBSET GraphNodes, n \in s, LedOn(s) PROVE j \in s BY <1>2 DEF From
  <2>1. m \in s BY DEF LedOn
  <2> QED BY <2>1 DEF From
<1>6. R \subseteq From(n) BY <1>3, <1>5
<1>7. R \in SUBSET GraphNodes BY <1>2
<1>8. LedOn(R)
  <2> SUFFICES ASSUME NEW k \in R, NEW i \in Successors(k) PROVE i \in R BY DEF LedOn
  <2>1. CASE k = n
    <3>1. i \in Successors(n) /\ i \in GraphNodes BY <1>1, <2>1
    <3> QED BY <1>3, <3>1
  <2>2. CASE k # n
    <3>1. PICK m \in Successors(n) : k \in From(m) BY <2>2
    <3>2. m \in GraphNodes BY <1>1
    <3> QED BY <1>4, <3>1, <3>2
  <2> QED BY <2>1, <2>2
<1>9. \A j \in From(n) : j \in R
  <2> SUFFICES ASSUME NEW j \in From(n) PROVE j \in R OBVIOUS
  <2>1. n \in R OBVIOUS
  <2> HIDE DEF R
  <2> QED BY <1>7, <1>8, <2>1 DEF From
<1> QED BY <1>6, <1>9

\* Without circles, the reachable nodes are those.
LEMMA ReachableIsFrom ==
  ASSUME GraphTyped, ~Circular
  PROVE  \A n \in GraphNodes : ReachableFrom[n] = From(n)
<1> DEFINE Body(f, n) == {n} \cup UNION {f[m] : m \in Successors(n)}
           r == ReachableFrom
<1>1. r = CHOOSE f : f = [n \in GraphNodes |-> Body(f, n)] BY DEF ReachableFrom
<1>2. \A n \in GraphNodes : Successors(n) \in SUBSET GraphNodes BY EdgesJoinNodes
<1>3. \E f : f = [n \in GraphNodes |-> Body(f, n)]
  <2> DEFINE f == [n \in GraphNodes |-> From(n)]
  <2>1. ASSUME NEW n \in GraphNodes PROVE From(n) = Body(f, n)
    <3>1. \A m \in Successors(n) : f[m] = From(m) BY <1>2
    <3>2. From(n) = {n} \cup UNION {From(m) : m \in Successors(n)} BY FromSuccessors
    <3>3. {f[m] : m \in Successors(n)} = {From(m) : m \in Successors(n)} BY <3>1
    <3> QED BY <3>2, <3>3
  <2> HIDE DEF Body
  <2>2. f = [n \in GraphNodes |-> Body(f, n)] BY <2>1
  <2> QED BY <2>2
<1> HIDE DEF r, Body
<1>4. r = [n \in GraphNodes |-> Body(r, n)] BY <1>1, <1>3
<1>5. \A n \in GraphNodes : r[n] = Body(r, n) BY <1>4
<1> DEFINE Wrong == {n \in GraphNodes : r[n] # From(n)}
<1>6. Wrong = {}
  <2> SUFFICES ASSUME Wrong # {} PROVE FALSE OBVIOUS
  <2>1. PICK n \in Wrong : Successors(n) \cap Wrong = {}
    <3>1. Wrong \in SUBSET GraphNodes OBVIOUS
    <3> HIDE DEF Wrong
    <3> QED BY <3>1 DEF Circular, Circle
  <2>2. \A m \in Successors(n) : r[m] = From(m) BY <1>2, <2>1
  <2>3. r[n] = {n} \cup UNION {r[m] : m \in Successors(n)} BY <1>5 DEF Body
  <2>4. {r[m] : m \in Successors(n)} = {From(m) : m \in Successors(n)} BY <2>2
  <2>5. From(n) = {n} \cup UNION {From(m) : m \in Successors(n)} BY FromSuccessors
  <2>6. r[n] = From(n) BY <2>3, <2>4, <2>5
  <2> QED BY <2>6
<1> QED BY <1>6 DEF r

\* The verdict of the build, as VerdictIsRight has it.
ClosedSets == {s \in SUBSET GraphNodes : Start \in s /\ \A e \in edges : e.source \in s => e.target \in s}
EdgeIsGone == \E e \in edges : e.handle # "output" /\ e.handle \notin Offered(e.source)
                               /\ \A s \in ClosedSets : e.source \in s
IsUnfit == Circular \/ EdgeIsGone \/ \E s \in ClosedSets : End \notin s

LEMMA BuildIsRight == GraphTyped => (BuildFails <=> IsUnfit)
<1> SUFFICES ASSUME GraphTyped PROVE BuildFails <=> IsUnfit OBVIOUS
<1>1. HasCycle = Circular BY CyclesAreFound
<1>2. CASE Circular BY <1>1, <1>2 DEF BuildFails, IsUnfit
<1>3. CASE ~Circular
  <2>1. ReachableFrom[Start] = From(Start) BY <1>3, ReachableIsFrom, NodesAreNumbers
  <2>2. ClosedSets = {s \in SUBSET GraphNodes : Start \in s /\ LedOn(s)}
    BY DEF ClosedSets, LedOn, Successors, Targets, Out
  <2>3. \A m \in GraphNodes : m \in From(Start) <=> \A s \in ClosedSets : m \in s BY <2>2 DEF From
  <2>4. End \notin From(Start) <=> \E s \in ClosedSets : End \notin s BY <2>3, NodesAreNumbers
  <2>5. Stranded # {} <=> EdgeIsGone
    <3>1. \A e \in edges : e.source \in GraphNodes BY EdgesJoinNodes
    <3> QED BY <2>1, <2>3, <3>1 DEF Stranded, EdgeIsGone, IsConditional
  <2>6. ~HasCycle BY <1>1, <1>3
  <2> QED BY <1>3, <2>1, <2>4, <2>5, <2>6 DEF BuildFails, IsUnfit
<1> QED BY <1>2, <1>3

LEMMA VerdictMeans == VerdictIsRight <=> (phase # "stored" => (phase = "rejected" <=> IsUnfit))
<1>1. Circular <=> \E s \in (SUBSET GraphNodes) \ {{}} : \A n \in s : Successors(n) \cap s # {}
  BY DEF Circular, Circle
<1>2. VerdictIsRight <=>
        (phase # "stored" =>
           ((phase = "rejected") <=>
              ((\E s \in (SUBSET GraphNodes) \ {{}} : \A n \in s : Successors(n) \cap s # {})
               \/ EdgeIsGone \/ \E s \in ClosedSets : End \notin s)))
  BY DEF VerdictIsRight, EdgeIsGone, ClosedSets
<1> QED BY <1>1, <1>2 DEF IsUnfit

-----------------------------------------------------------------------------
(* How long runs are.                                                      *)

Size == Cardinality(GraphNodes)

\* A rank for each node, below those of the nodes that lead to it.
Ranks(h) ==
  /\ h \in [GraphNodes -> Nat]
  /\ \A n \in GraphNodes : h[n] < Size /\ \A m \in Successors(n) : h[m] < h[n]

LEMMA NodesHaveRanks ==
  ASSUME GraphTyped, ~Circular
  PROVE  \E h : Ranks(h)
<1> DEFINE RanksOn(A, h) ==
             /\ h \in [A -> Nat]
             /\ \A n \in A : /\ h[n] < Cardinality(A) /\ Successors(n) \subseteq A
                             /\ \A m \in Successors(n) : h[m] < h[n]
           Ranked == {A \in SUBSET GraphNodes : \E h : RanksOn(A, h)}
           T == {Cardinality(GraphNodes \ A) : A \in Ranked}
<1>1. \A A \in SUBSET GraphNodes : /\ IsFiniteSet(A) /\ Cardinality(A) \in Nat
                                   /\ IsFiniteSet(GraphNodes \ A) /\ Cardinality(GraphNodes \ A) \in Nat
  <2> SUFFICES ASSUME NEW A \in SUBSET GraphNodes
               PROVE  /\ IsFiniteSet(A) /\ Cardinality(A) \in Nat
                      /\ IsFiniteSet(GraphNodes \ A) /\ Cardinality(GraphNodes \ A) \in Nat
    OBVIOUS
  <2>1. IsFiniteSet(A) /\ IsFiniteSet(GraphNodes \ A) BY NodesAreNumbers, FS_Subset
  <2> QED BY <2>1, FS_CardinalityType
<1>2. {} \in Ranked
  <2>1. RanksOn({}, [n \in {} |-> 0]) OBVIOUS
  <2> QED BY <2>1
<1>3. T \in SUBSET Nat /\ T # {}
  <2>1. \A A \in Ranked : Cardinality(GraphNodes \ A) \in Nat BY <1>1
  <2> HIDE DEF Ranked
  <2> QED BY <1>2, <2>1
<1>4. PICK A \in Ranked : \A B \in Ranked : Cardinality(GraphNodes \ A) <= Cardinality(GraphNodes \ B)
  <2> HIDE DEF T
  <2>1. PICK t \in T : \A u \in T : t <= u BY <1>3, LeastNumber
  <2> HIDE DEF Ranked
  <2> QED BY <2>1 DEF T
<1>5. PICK h : RanksOn(A, h) BY <1>4
<1>6. A \in SUBSET GraphNodes BY <1>4
<1>7. A = GraphNodes
  <2> SUFFICES ASSUME GraphNodes \ A # {} PROVE FALSE BY <1>6
  <2>1. PICK n \in GraphNodes \ A : Successors(n) \cap (GraphNodes \ A) = {} BY DEF Circular, Circle
  <2>2. Successors(n) \subseteq A BY <2>1, EdgesJoinNodes
  <2> DEFINE B == A \cup {n}
             g == [k \in B |-> IF k = n THEN Cardinality(A) ELSE h[k]]
  <2>3. Cardinality(B) = Cardinality(A) + 1 /\ Cardinality(A) \in Nat
    BY <1>1, <1>6, <2>1, FS_AddElement
  <2>4. g \in [B -> Nat] BY <1>5, <2>3
  <2>5. g[n] = Cardinality(A) /\ \A k \in A : g[k] = h[k] /\ h[k] \in Nat BY <1>5, <2>1
  <2> HIDE DEF g
  <2>6. ASSUME NEW k \in B
        PROVE  /\ g[k] < Cardinality(B) /\ Successors(k) \subseteq B
               /\ \A m \in Successors(k) : g[m] < g[k]
    <3>1. CASE k \in A
      <4>1. h[k] < Cardinality(A) /\ Successors(k) \subseteq A /\ \A m \in Successors(k) : h[m] < h[k]
        BY <1>5, <3>1
      <4> QED BY <2>3, <2>5, <3>1, <4>1
    <3>2. CASE k = n
      <4>1. \A m \in Successors(n) : h[m] < Cardinality(A) /\ m \in A BY <1>5, <2>2
      <4> QED BY <2>2, <2>3, <2>5, <3>2, <4>1
    <3> QED BY <3>1, <3>2
  <2>7. B \in Ranked
    <3>1. RanksOn(B, g) BY <2>4, <2>6
    <3>2. B \in SUBSET GraphNodes BY <1>6
    <3> QED BY <3>1, <3>2
  <2>8. Cardinality(GraphNodes \ B) = Cardinality(GraphNodes \ A) - 1
    <3>1. GraphNodes \ B = (GraphNodes \ A) \ {n} OBVIOUS
    <3> QED BY <1>1, <1>6, <2>1, <3>1, FS_RemoveElement
  <2>9. Cardinality(GraphNodes \ A) <= Cardinality(GraphNodes \ B) BY <1>4, <2>7
  <2>10. Cardinality(GraphNodes \ A) \in Nat BY <1>1, <1>6
  <2> HIDE DEF B
  <2> QED BY <2>8, <2>9, <2>10
<1> QED BY <1>5, <1>7 DEF Ranks, Size

\* What a run has done and has yet to do fits the number of nodes.
RunFits ==
  /\ steps <= Size
  /\ phase = "stored" => steps = 0
  /\ phase = "running" => \E h : Ranks(h) /\ \A n \in ready : h[n] + steps < Size

VerdictInv == GraphInv /\ VerdictIsRight /\ RunFits

LEMMA SizeIsNat == Size \in Nat /\ Size > 0
<1>1. Size \in Nat BY NodesAreNumbers, FS_CardinalityType DEF Size
<1> QED BY <1>1, NodesAreNumbers, FS_EmptySet DEF Size

LEMMA VerdictStays ==
  ASSUME VerdictIsRight, edges' = edges, phase # "stored", phase' # "stored",
         phase' = "rejected" <=> phase = "rejected"
  PROVE  VerdictIsRight'
<1>1. Circular' <=> Circular BY DEF Circular, Circle, Successors, Targets, Out
<1>2. ClosedSets' = ClosedSets BY DEF ClosedSets
<1>3. EdgeIsGone' <=> EdgeIsGone BY <1>2 DEF EdgeIsGone
<1>4. IsUnfit' <=> IsUnfit BY <1>1, <1>2, <1>3 DEF IsUnfit
<1>5. (VerdictIsRight <=> (phase # "stored" => (phase = "rejected" <=> IsUnfit)))'
  BY VerdictMeans, PTL
<1> QED BY <1>4, <1>5, VerdictMeans

LEMMA VerdictNext == VerdictInv /\ [GraphNext]_graphVars => VerdictInv'
<1> SUFFICES ASSUME VerdictInv, [GraphNext]_graphVars PROVE VerdictInv' OBVIOUS
<1>0. /\ GraphInv /\ GraphTyped /\ VerdictIsRight /\ RunFits /\ steps \in Nat
      /\ Size \in Nat /\ Size > 0
  BY SizeIsNat DEF VerdictInv, GraphInv, GraphTyped
<1>1. GraphInv' BY <1>0, GraphNextInv
<1>2. CASE Builds
  <2>1. /\ phase = "stored" /\ edges' = edges /\ steps' = steps
        /\ BuildFails => phase' = "rejected" /\ ready' = {}
        /\ ~BuildFails => phase' = "running" /\ ready' = {Start}
    BY <1>2 DEF Builds
  <2>2. BuildFails <=> IsUnfit BY <1>0, BuildIsRight
  <2>3. phase' # "stored" /\ (phase' = "rejected" <=> IsUnfit) BY <2>1, <2>2
  <2>4. VerdictIsRight'
    <3>1. Circular' <=> Circular BY <2>1 DEF Circular, Circle, Successors, Targets, Out
    <3>2. ClosedSets' = ClosedSets BY <2>1 DEF ClosedSets
    <3>3. EdgeIsGone' <=> EdgeIsGone BY <2>1, <3>2 DEF EdgeIsGone
    <3>4. IsUnfit' <=> IsUnfit BY <3>1, <3>2, <3>3 DEF IsUnfit
    <3>5. (VerdictIsRight <=> (phase # "stored" => (phase = "rejected" <=> IsUnfit)))'
      BY VerdictMeans, PTL
    <3> QED BY <2>3, <3>4, <3>5
  <2>5. RunFits'
    <3>1. steps' = 0 BY <1>0, <2>1 DEF RunFits
    <3>2. ASSUME phase' = "running" PROVE \E h : Ranks(h)' /\ \A n \in ready' : h[n] + steps' < Size
      <4>1. ready' = {Start} BY <2>1, <3>2
      <4>2. ~Circular BY <2>3, <3>2 DEF IsUnfit
      <4>3. PICK h : Ranks(h) BY <1>0, <4>2, NodesHaveRanks
      <4>4. Ranks(h)' BY <2>1, <4>3 DEF Ranks, Successors, Targets, Out
      <4>5. h[Start] + 0 < Size BY <1>0, <4>3, NodesAreNumbers DEF Ranks
      <4> QED BY <3>1, <4>1, <4>4, <4>5
    <3> QED BY <1>0, <2>3, <3>1, <3>2 DEF RunFits, Size
  <2> QED BY <1>1, <2>4, <2>5 DEF VerdictInv
<1>3. CASE Superstep
  <2>1. /\ phase = "running" /\ ready # {} /\ edges' = edges /\ steps' = steps + 1
        /\ phase' \in {"aborted", "ended", "running"}
    BY <1>3 DEF Superstep
  <2>2. PICK o : /\ Writes(o)
                 /\ phase' = "running" => ready' = Followers(o)
    BY <1>3 DEF Superstep, Writes
  <2>3. PICK h : Ranks(h) /\ \A n \in ready : h[n] + steps < Size BY <1>0, <2>1 DEF RunFits
  <2>4. VerdictIsRight' BY <1>0, <2>1, VerdictStays
  <2>5. ready \in SUBSET GraphNodes BY <1>0 DEF GraphTyped
  <2>6. steps' <= Size
    <3>1. PICK n \in ready : TRUE BY <2>1
    <3>2. h[n] \in Nat /\ h[n] + steps < Size BY <2>3, <2>5 DEF Ranks
    <3> QED BY <1>0, <2>1, <3>2
  <2>7. ASSUME NEW m \in Followers(o) PROVE h[m] + steps' < Size
    <3>1. PICK n \in Running(o) : m \in o[n].next BY DEF Followers
    <3>2. n \in ready /\ n \in GraphNodes /\ m \in Successors(n)
      BY <1>0, <2>2, <2>5, <3>1, RunningFacts
    <3>3. h[m] < h[n] /\ h[n] \in Nat BY <2>3, <3>2 DEF Ranks
    <3>4. h[m] \in Nat
      <4>1. m \in GraphNodes BY <1>0, <3>2, EdgesJoinNodes
      <4> QED BY <2>3, <4>1 DEF Ranks
    <3>5. h[n] + steps < Size BY <2>3, <3>2
    <3> QED BY <1>0, <2>1, <3>3, <3>4, <3>5
  <2>8. Ranks(h)' BY <2>1, <2>3 DEF Ranks, Successors, Targets, Out
  <2>9. RunFits' BY <2>1, <2>2, <2>6, <2>7, <2>8 DEF RunFits, Size
  <2> QED BY <1>1, <2>4, <2>9 DEF VerdictInv
<1>4. CASE Starves
  <2>1. phase = "running" /\ phase' = "failed" /\ edges' = edges /\ steps' = steps BY <1>4 DEF Starves
  <2>2. VerdictIsRight' BY <1>0, <2>1, VerdictStays
  <2>3. RunFits' BY <1>0, <2>1 DEF RunFits, Size
  <2> QED BY <1>1, <2>2, <2>3 DEF VerdictInv
<1>5. CASE UNCHANGED graphVars
  <2>1. edges' = edges /\ phase' = phase /\ steps' = steps /\ ready' = ready BY <1>5 DEF graphVars
  <2>2. VerdictIsRight'
    <3>1. CASE phase = "stored" BY <2>1, <3>1 DEF VerdictIsRight
    <3>2. CASE phase # "stored" BY <1>0, <2>1, <3>2, VerdictStays
    <3> QED BY <3>1, <3>2
  <2>3. \A h : Ranks(h)' <=> Ranks(h) BY <2>1 DEF Ranks, Successors, Targets, Out
  <2>4. RunFits' BY <1>0, <2>1, <2>3 DEF RunFits, Size
  <2> QED BY <1>1, <2>2, <2>4 DEF VerdictInv
<1> QED BY <1>2, <1>3, <1>4, <1>5 DEF GraphNext

\* For every graph: the build rejects it exactly if some nodes all lead to one another, End cannot be
\* reached or a reachable edge is on a handle that is gone (PipelineGraph.build_errors); a run of an
\* accepted graph takes no more supersteps than there are nodes, and reaches End as WiredRunsReachEnd says.
THEOREM BuildsAndRunsAreRight == GraphSpec => []PipelinesRunRight
<1>1. GraphInit => VerdictInv
  <2> SUFFICES ASSUME GraphInit PROVE VerdictInv OBVIOUS
  <2>1. phase = "stored" /\ steps = 0 BY DEF GraphInit, GraphStart
  <2>2. VerdictIsRight BY <2>1 DEF VerdictIsRight
  <2>3. RunFits BY <2>1, SizeIsNat DEF RunFits
  <2> QED BY <2>2, <2>3, GraphInitInv DEF VerdictInv
<1>2. VerdictInv /\ [GraphNext]_graphVars => VerdictInv' BY VerdictNext
<1>3. VerdictInv => PipelinesRunRight
  BY DEF VerdictInv, GraphInv, RunFits, Size, PipelinesRunRight, RunsAreShort
<1> QED BY <1>1, <1>2, <1>3, PTL DEF GraphSpec
=============================================================================
