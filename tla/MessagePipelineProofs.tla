------------------------ MODULE MessagePipelineProofs ------------------------
(***************************************************************************)
(* What overlapping tasks of one participant keep, for any number of       *)
(* messages, sessions and channels: the record of the answers, the consent *)
(* before the bot, one conversation, and what turns stored.                *)
(***************************************************************************)
EXTENDS MessagePipeline, SequenceTheorems, WellFoundedInduction, TLAPS

\* Before the bot is asked, and before the message is recorded.
BeforeRecord == {"new", "resolve", "end", "create", "activate", "record"}
BeforeBot == BeforeRecord \cup {"consent", "bot"}

\* The stages in which a task holds a copy of the row of its session.
Holding == {"end", "activate", "record", "consent", "bot", "save"}

\* What a task's record says of its progress.
Progress(m) ==
  LET t == run[m] IN
  /\ t.sid <= Len(sessions) /\ (channel.preset => Len(sessions) # 0)
  /\ t.pc \in {"new", "resolve"} => t.sid = 0
  /\ t.pc \in Holding => t.sid # 0
  /\ t.pc = "new" /\ t.attempt = 0 => t.kind = "text"
  /\ t.kind = "adhoc" => t.pc \in {"send", "done"} /\ ~t.bot /\ ~t.saved /\ t.sid # 0
  /\ t.attempt > 0 => channel.retries
  /\ t.pc \in BeforeBot => ~t.bot /\ ~t.saved
  /\ t.pc \in BeforeRecord => t.query = "none"
  /\ t.pc \in {"consent", "bot"} => m \in chat[t.sid].said
  /\ t.query \in Messages => t.sid # 0 /\ t.query \in chat[t.sid].said
  /\ t.bot \/ t.saved => t.sid # 0
  /\ t.pc = "consent" => t.query = m
  /\ t.pc = "save" => t.bot /\ t.reply = "bot"
  /\ t.sent /\ t.attempt = 0 => t.pc \in {"persist", "done"}
  /\ t.pc \in {"send", "persist"} /\ t.kind # "adhoc" => t.reply = "early" \/ (t.reply = "bot" /\ t.bot)

\* A message enters the history in its own stage.
SaidInTime ==
  \A m \in Messages, s \in DOMAIN chat :
    m \in chat[s].said => run[m].attempt > 0 \/ run[m].pc \notin BeforeRecord
FirstIsSaid == \A s \in DOMAIN chat : chat[s].first # "none" => chat[s].first \in chat[s].said

\* What has been stored of the answers to m.
Stored(m) ==
  /\ run[m].bot => Answers(run[m].sid, m) > 0
  /\ run[m].kind # "unsupported" =>
       \A s \in DOMAIN chat :
         Answers(s, m) <= run[m].attempt + (IF run[m].pc = "done" \/ run[m].bot THEN 1 ELSE 0)
RecordInv == (\A m \in Messages : Progress(m) /\ Stored(m)) /\ SaidInTime /\ FirstIsSaid /\ DeliveredIsRecorded

\* Consent of somebody but m in session s.
ConsentedBefore(m, s) == \E other \in Messages \ {m} : IsToken(other) /\ Said(s, other)
Consented(s) == \E other \in Messages : IsToken(other) /\ Said(s, other)

ConsentOf(m) ==
  LET t == run[m] IN
  /\ t.pc \in {"activate", "record", "consent"} =>
       t.row.status \in OpenStatuses /\ (t.row.status = "active" => ConsentedBefore(m, t.sid))
  /\ t.pc = "bot" \/ t.bot =>
       /\ Consented(t.sid)
       /\ t.query \in Messages /\ IsToken(t.query) => t.query = m /\ ConsentedBefore(m, t.sid)
ConsentInv ==
  AsksConsent =>
    /\ \A s \in DOMAIN sessions : sessions[s].status = "active" => Consented(s)
    /\ \A m \in Messages : ConsentOf(m)

\* Tasks that run together are on record.
Paired == \A m, other \in Running : m # other => {m, other} \in concurrent

\* What a task that was alone knows of the sessions.
HoldsOpen(m) ==
  /\ run[m].pc \in Holding => run[m].row = sessions[run[m].sid] /\ Open(run[m].sid)
  /\ run[m].pc = "create" => \A s \in DOMAIN sessions : ~Open(s)
SingleInv ==
  concurrent = {} /\ ~channel.preset =>
    /\ \A s \in DOMAIN sessions : Open(s) <=> ~sessions[s].ended
    /\ \A s, other \in DOMAIN sessions : Open(s) /\ Open(other) => s = other
    /\ \A m \in Running : HoldsOpen(m)

\* Every copy of a session's row has what others have stored before it was loaded.
CopiesKeepTurns ==
  \A m \in Messages, other \in Running :
    run[m].saved /\ ~WithOther(m) /\ run[other].sid = run[m].sid => m \in run[other].row.state
TurnsInv == TurnsKept /\ CopiesKeepTurns

PipelineInv == TypeOK /\ RecordInv /\ ConsentInv /\ Paired /\ SingleInv /\ TurnsInv

-----------------------------------------------------------------------------
(* Sequences.                                                              *)

\* The greatest of finitely many numbers is found by Max.
LEMMA LeastExists ==
  ASSUME NEW T \in SUBSET Nat, T # {}
  PROVE  \E x \in T : \A y \in T : x <= y
<1>1. IsWellFoundedOn(OpToRel(<, Nat), Nat) BY NatLessThanWellFounded
<1>2. PICK x \in T : \A y \in T : ~(<<y, x>> \in OpToRel(<, Nat))
  BY ONLY <1>1, WFMin, T \subseteq Nat, T # {}
<1>3. \A a, b \in Nat : a < b => <<a, b>> \in OpToRel(<, Nat) BY DEF OpToRel
<1>4. ASSUME NEW y \in T PROVE x <= y
  <2>1. x \in Nat /\ y \in Nat OBVIOUS
  <2>2. ~(y < x) BY ONLY <2>1, <1>2, <1>3, y \in T
  <2> QED BY <2>1, <2>2
<1> QED BY <1>4

LEMMA MaxIsGreatest ==
  ASSUME NEW n \in Nat, NEW S \in SUBSET (1 .. n), S # {}
  PROVE  Max(S) \in S /\ \A y \in S : y <= Max(S)
<1> DEFINE T == {k \in 0 .. n : (n - k) \in S}
<1>1. PICK s \in S : TRUE OBVIOUS
<1>2. n - s \in 0 .. n /\ n - (n - s) = s OBVIOUS
<1>3. n - s \in T BY <1>2
<1>4. T \in SUBSET Nat /\ T # {}
  <2>1. \A k \in T : k \in Nat OBVIOUS
  <2> HIDE DEF T
  <2> QED BY <1>3, <2>1
<1>5. PICK t \in T : \A y \in T : t <= y BY <1>4, LeastExists
<1>6. n - t \in S OBVIOUS
<1>7. ASSUME NEW y \in S PROVE n - t >= y
  <2>1. n - y \in 0 .. n /\ n - (n - y) = y OBVIOUS
  <2>2. n - y \in T BY <2>1
  <2> QED BY <1>5, <2>2
<1>8. Max(S) \in S /\ \A y \in S : Max(S) >= y BY <1>6, <1>7 DEF Max
<1> QED BY <1>8

LEMMA NewestIsOpen ==
  ASSUME TypeOK
  PROVE  /\ NewestOpen \in 0 .. Len(sessions)
         /\ NewestOpen = 0 => \A s \in DOMAIN sessions : ~Open(s)
         /\ NewestOpen # 0 => NewestOpen \in DOMAIN sessions /\ Open(NewestOpen)
<1> DEFINE open == {s \in DOMAIN sessions : Open(s)}
<1>1. Len(sessions) \in Nat /\ DOMAIN sessions = 1 .. Len(sessions) BY LenProperties DEF TypeOK
<1>2. CASE open = {} BY <1>1, <1>2 DEF NewestOpen
<1>3. CASE open # {}
  <2>1. Max(open) \in open BY <1>1, <1>3, MaxIsGreatest
  <2>2. NewestOpen = Max(open) BY <1>3 DEF NewestOpen
  <2> QED BY <1>1, <2>1, <2>2
<1> QED BY <1>2, <1>3

\* One row is saved.
LEMMA RowSaved ==
  ASSUME TypeOK, NEW s \in DOMAIN sessions, NEW r \in Row, sessions' = [sessions EXCEPT ![s] = r]
  PROVE  /\ sessions' \in Seq(Row) /\ Len(sessions') = Len(sessions)
         /\ DOMAIN sessions' = DOMAIN sessions
         /\ \A i \in DOMAIN sessions : sessions'[i] = IF i = s THEN r ELSE sessions[i]
BY ExceptSeq, LenProperties DEF TypeOK

\* One history grows.
LEMMA HistorySaved ==
  ASSUME TypeOK, NEW s \in DOMAIN chat, NEW h \in History, chat' = [chat EXCEPT ![s] = h]
  PROVE  /\ chat' \in Seq(History) /\ Len(chat') = Len(chat)
         /\ DOMAIN chat' = DOMAIN chat
         /\ \A i \in DOMAIN chat : chat'[i] = IF i = s THEN h ELSE chat[i]
BY ExceptSeq, LenProperties DEF TypeOK

LEMMA Domains ==
  ASSUME TypeOK
  PROVE  /\ Len(sessions) \in Nat /\ DOMAIN sessions = 1 .. Len(sessions) /\ DOMAIN chat = DOMAIN sessions
         /\ \A s \in DOMAIN sessions : sessions[s] \in Row /\ chat[s] \in History
BY LenProperties, ElementOfSeq DEF TypeOK

LEMMA Answered ==
  ASSUME TypeOK, NEW s \in DOMAIN chat, NEW m \in Messages, Answer(s, m)
  PROVE  /\ chat' \in Seq(History) /\ Len(chat') = Len(chat)
         /\ DOMAIN chat' = DOMAIN chat
         /\ \A i \in DOMAIN chat :
              /\ chat'[i].said = chat[i].said /\ chat'[i].first = chat[i].first
              /\ \A o \in Messages :
                   chat'[i].answers[o] = chat[i].answers[o] + (IF i = s /\ o = m THEN 1 ELSE 0)
<1>1. chat[s] \in History /\ \A i \in DOMAIN chat : chat[i] \in History BY Domains
<1> DEFINE h == [chat[s] EXCEPT !.answers[m] = @ + 1]
<1>2. h \in History BY <1>1 DEF History
<1>3. chat' = [chat EXCEPT ![s] = h] BY DEF Answer
<1>4. /\ chat' \in Seq(History) /\ Len(chat') = Len(chat) /\ DOMAIN chat' = DOMAIN chat
      /\ \A i \in DOMAIN chat : chat'[i] = IF i = s THEN h ELSE chat[i]
  BY <1>2, <1>3, HistorySaved
<1>5. /\ h.said = chat[s].said /\ h.first = chat[s].first
      /\ \A o \in Messages : h.answers[o] = chat[s].answers[o] + (IF o = m THEN 1 ELSE 0)
  BY <1>1 DEF History
<1>6. \A i \in DOMAIN chat, o \in Messages : chat[i].answers[o] \in Nat BY <1>1 DEF History
<1> HIDE DEF h
<1>7. ASSUME NEW i \in DOMAIN chat, NEW o \in Messages
      PROVE  chat'[i].answers[o] = chat[i].answers[o] + (IF i = s /\ o = m THEN 1 ELSE 0)
  <2>1. CASE i = s BY <2>1, <1>4, <1>5
  <2>2. CASE i # s BY <2>2, <1>4, <1>6
  <2> QED BY <2>1, <2>2
<1> QED BY <1>4, <1>5, <1>7

LEMMA Asked ==
  ASSUME TypeOK, NEW s \in DOMAIN chat, NEW m \in Messages, Ask(s, m)
  PROVE  /\ chat' \in Seq(History) /\ Len(chat') = Len(chat)
         /\ DOMAIN chat' = DOMAIN chat
         /\ \A i \in DOMAIN chat :
              /\ chat'[i].answers = chat[i].answers
              /\ chat'[i].said = IF i = s THEN chat[i].said \cup {m} ELSE chat[i].said
              /\ chat'[i].first = IF i = s /\ chat[i].first = "none" THEN m ELSE chat[i].first
<1>1. chat[s] \in History BY Domains
<1> DEFINE h == [chat[s] EXCEPT !.said = @ \cup {m}, !.first = IF @ = "none" THEN m ELSE @]
<1>2. h \in History BY <1>1 DEF History
<1>3. chat' = [chat EXCEPT ![s] = h] BY <1>1 DEF Ask, History
<1>4. /\ chat' \in Seq(History) /\ Len(chat') = Len(chat) /\ DOMAIN chat' = DOMAIN chat
      /\ \A i \in DOMAIN chat : chat'[i] = IF i = s THEN h ELSE chat[i]
  BY <1>2, <1>3, HistorySaved
<1>5. /\ h.answers = chat[s].answers /\ h.said = chat[s].said \cup {m}
      /\ h.first = IF chat[s].first = "none" THEN m ELSE chat[s].first
  BY <1>1 DEF History
<1> QED BY <1>4, <1>5

-----------------------------------------------------------------------------
(* What every step of a task is allowed to do.                             *)

ActionOf(m) == (\E kind \in Kinds : Start(m, kind)) \/ StartAdHoc(m) \/ Retry(m) \/ Stage(m)

\* Typed, and other tasks, what others said and how they were answered stay.
Acts(m) ==
  /\ TypeOK'
  /\ channel' = channel /\ concurrent \subseteq concurrent'
  /\ \A o \in Messages \ {m} : run'[o] = run[o]
  /\ Len(sessions) <= Len(sessions')
  /\ \A s \in DOMAIN chat :
       /\ chat[s].said \subseteq chat'[s].said /\ chat'[s].said \subseteq chat[s].said \cup {m}
       /\ chat'[s].first = chat[s].first \/ (chat'[s].first = m /\ m \in chat'[s].said)
       /\ \A o \in Messages : /\ chat[s].answers[o] <= chat'[s].answers[o]
                              /\ o # m => chat'[s].answers[o] = chat[s].answers[o]
       /\ m \in chat'[s].said => m \in chat[s].said \/ run'[m].pc \notin BeforeRecord
  /\ \A s \in DOMAIN chat' : s \in DOMAIN chat \/ chat'[s] = NoHistory
  /\ run[m].pc # "new" \/ run[m].attempt > 0 => run'[m].kind = run[m].kind
  /\ run[m].attempt > 0 \/ run[m].pc \notin BeforeRecord =>
       run'[m].attempt > 0 \/ run'[m].pc \notin BeforeRecord

\* A history that has not changed, one that was answered or asked, a new one.
ChatAllows(m) ==
  \/ UNCHANGED chat
  \/ \E s \in DOMAIN chat : Answer(s, m)
  \/ \E s \in DOMAIN chat : Ask(s, m) /\ run'[m].pc \notin BeforeRecord

LEMMA ActsByParts ==
  ASSUME TypeOK, NEW m \in Messages, channel' = channel,
         concurrent \subseteq concurrent', concurrent' \subseteq SUBSET Messages,
         consent' \in {"absent", "unset", "yes", "no"},
         NEW t \in Task, run' = [run EXCEPT ![m] = t],
         sessions' \in Seq(Row), Len(sessions') = Len(sessions),
         ChatAllows(m),
         run[m].pc # "new" \/ run[m].attempt > 0 => t.kind = run[m].kind,
         run[m].attempt > 0 \/ run[m].pc \notin BeforeRecord => t.attempt > 0 \/ t.pc \notin BeforeRecord
  PROVE  Acts(m)
<1>1. run' \in [Messages -> Task] /\ run'[m] = t /\ \A o \in Messages \ {m} : run'[o] = run[o]
  BY DEF TypeOK
<1>2. /\ chat' \in Seq(History) /\ Len(chat') = Len(chat) /\ DOMAIN chat' = DOMAIN chat
      /\ \A s \in DOMAIN chat :
           /\ chat[s].said \subseteq chat'[s].said /\ chat'[s].said \subseteq chat[s].said \cup {m}
           /\ chat'[s].first = chat[s].first \/ (chat'[s].first = m /\ m \in chat'[s].said)
           /\ \A o \in Messages : /\ chat[s].answers[o] <= chat'[s].answers[o]
                                  /\ o # m => chat'[s].answers[o] = chat[s].answers[o]
           /\ m \in chat'[s].said => m \in chat[s].said \/ run'[m].pc \notin BeforeRecord
  <2>0. \A s \in DOMAIN chat, o \in Messages : chat[s].answers[o] \in Nat BY Domains DEF History
  <2>1. CASE UNCHANGED chat BY <2>0, <2>1 DEF TypeOK
  <2>2. CASE \E s \in DOMAIN chat : Answer(s, m)
    <3>1. PICK s \in DOMAIN chat : Answer(s, m) BY <2>2
    <3> QED BY <3>1, <2>0, Answered
  <2>3. CASE \E s \in DOMAIN chat : Ask(s, m) /\ run'[m].pc \notin BeforeRecord
    <3>1. PICK s \in DOMAIN chat : Ask(s, m) /\ run'[m].pc \notin BeforeRecord BY <2>3
    <3>2. /\ chat' \in Seq(History) /\ Len(chat') = Len(chat) /\ DOMAIN chat' = DOMAIN chat
          /\ \A i \in DOMAIN chat :
               /\ chat'[i].answers = chat[i].answers
               /\ chat'[i].said = IF i = s THEN chat[i].said \cup {m} ELSE chat[i].said
               /\ chat'[i].first = IF i = s /\ chat[i].first = "none" THEN m ELSE chat[i].first
      BY <3>1, Asked
    <3>3. \A i \in DOMAIN chat, o \in Messages : chat'[i].answers[o] = chat[i].answers[o] BY <3>2
    <3>4. ASSUME NEW i \in DOMAIN chat
          PROVE  /\ chat[i].said \subseteq chat'[i].said /\ chat'[i].said \subseteq chat[i].said \cup {m}
                 /\ chat'[i].first = chat[i].first \/ (chat'[i].first = m /\ m \in chat'[i].said)
      <4>1. CASE i = s BY <3>2, <4>1
      <4>2. CASE i # s BY <3>2, <4>2
      <4> QED BY <4>1, <4>2
    <3>5. \A i \in DOMAIN chat, o \in Messages :
            chat[i].answers[o] <= chat'[i].answers[o] /\ (o # m => chat'[i].answers[o] = chat[i].answers[o])
      BY <3>3, <2>0
    <3> QED BY <3>1, <3>2, <3>4, <3>5
  <2> QED BY <2>1, <2>2, <2>3 DEF ChatAllows
<1>3. TypeOK' BY <1>1, <1>2 DEF TypeOK
<1>4. Len(sessions) <= Len(sessions') BY Domains
<1> QED BY <1>1, <1>2, <1>3, <1>4 DEF Acts

LEMMA RowsTyped ==
  /\ \A status \in OpenStatuses : NewRow(status) \in Row
  /\ \A row \in Row : EndedRow(row) \in Row
  /\ \A row \in Row, status \in OpenStatuses : [row EXCEPT !.status = status] \in Row
BY DEF NewRow, Row, EndedRow, OpenStatuses

LEMMA TasksTyped ==
  /\ \A t \in Task, outcome \in {"none", "answered", "silent", "cancelled", "raised"} :
       Finish(t, outcome) \in Task /\ Finish(t, outcome).pc = "done"
       /\ Finish(t, outcome).kind = t.kind /\ Finish(t, outcome).attempt = t.attempt
  /\ \A t \in Task : /\ Early(t) \in Task /\ Early(t).pc \in {"send", "persist"}
                     /\ Early(t).kind = t.kind /\ Early(t).attempt = t.attempt
  /\ \A kind \in Kinds, v \in Versions, a \in 0 .. MaxRetries : Fresh(kind, v, a) \in Task
<1>1. NewRow("setup") \in Row BY RowsTyped DEF OpenStatuses
<1>2. 0 \in 0 .. MaxSessions BY PipelineAssumption
<1>3. ASSUME NEW t \in Task, NEW outcome \in {"none", "answered", "silent", "cancelled", "raised"}
      PROVE  Finish(t, outcome) \in Task /\ Finish(t, outcome).pc = "done"
             /\ Finish(t, outcome).kind = t.kind /\ Finish(t, outcome).attempt = t.attempt
  <2>1. Finish(t, outcome) \in Task BY <1>1 DEF Finish, Task
  <2> QED BY <2>1 DEF Finish, Task
<1>4. ASSUME NEW t \in Task
      PROVE  /\ Early(t) \in Task /\ Early(t).pc \in {"send", "persist"}
             /\ Early(t).kind = t.kind /\ Early(t).attempt = t.attempt
  <2>1. Terminal \in {"send", "persist"} BY DEF Terminal
  <2>2. Early(t) \in Task BY <2>1 DEF Early, Task
  <2> QED BY <2>1, <2>2 DEF Early, Task
<1>5. \A kind \in Kinds, v \in Versions, a \in 0 .. MaxRetries : Fresh(kind, v, a) \in Task
  BY <1>1, <1>2 DEF Fresh, Task
<1> QED BY <1>3, <1>4, <1>5

\* An early answer of a task that will raise.
LEMMA RaisingTyped ==
  ASSUME NEW t \in Task
  PROVE  LET u == [Early(t) EXCEPT !.raises = TRUE]
         IN  u \in Task /\ u.pc \in {"send", "persist"} /\ u.kind = t.kind /\ u.attempt = t.attempt
<1> DEFINE e == Early(t)
<1>1. e \in Task /\ e.pc \in {"send", "persist"} /\ e.kind = t.kind /\ e.attempt = t.attempt BY TasksTyped
<1> HIDE DEF e
<1>2. [e EXCEPT !.raises = TRUE] \in Task BY <1>1 DEF Task
<1>3. LET u == [e EXCEPT !.raises = TRUE]
      IN  u.pc = e.pc /\ u.kind = e.kind /\ u.attempt = e.attempt
  BY <1>1 DEF Task
<1> QED BY <1>1, <1>2, <1>3 DEF e

LEMMA GotoTyped ==
  ASSUME TypeOK, NEW m \in Messages,
         NEW pc \in {"new", "resolve", "end", "create", "activate", "record", "consent",
                     "bot", "save", "send", "persist", "done"}
  PROVE  Goto(m, pc) \in Task /\ Goto(m, pc).pc = pc
         /\ Goto(m, pc).kind = run[m].kind /\ Goto(m, pc).attempt = run[m].attempt
<1>1. run[m] \in Task BY DEF TypeOK
<1>2. Goto(m, pc) \in Task BY <1>1 DEF Goto, Task
<1> QED BY <1>1, <1>2 DEF Goto, Task

\* A task that is in a session is in one of the participant's.
LEMMA InSession ==
  ASSUME TypeOK, NEW m \in Messages, Progress(m), run[m].sid # 0
  PROVE  run[m].sid \in DOMAIN sessions /\ run[m].sid \in DOMAIN chat
<1>1. run[m].sid \in Nat BY PipelineAssumption DEF TypeOK, Task
<1> QED BY <1>1, Domains DEF Progress

LEMMA Updated ==
  ASSUME TypeOK, NEW m \in Messages, run[m].sid \in DOMAIN sessions,
         NEW status \in OpenStatuses, NEW t \in Task, UpdateStatus(m, status, t)
  PROVE  LET row == [run[m].row EXCEPT !.status = status]
             u == [t EXCEPT !.row = row]
         IN  /\ row \in Row /\ u \in Task /\ run' = [run EXCEPT ![m] = u]
             /\ sessions' \in Seq(Row) /\ Len(sessions') = Len(sessions)
             /\ DOMAIN sessions' = DOMAIN sessions
             /\ \/ row = run[m].row /\ sessions' = sessions
                \/ \A i \in DOMAIN sessions : sessions'[i] = IF i = run[m].sid THEN row ELSE sessions[i]
<1> DEFINE row == [run[m].row EXCEPT !.status = status]
           u == [t EXCEPT !.row = row]
<1>1. run[m].row \in Row BY DEF TypeOK, Task
<1>2. row \in Row BY <1>1, RowsTyped
<1>3. u \in Task BY <1>2 DEF Task
<1>4. run' = [run EXCEPT ![m] = u] BY DEF UpdateStatus, Step
<1>5. CASE row = run[m].row /\ UNCHANGED sessions BY <1>2, <1>3, <1>4, <1>5 DEF TypeOK
<1>6. CASE row # run[m].row
  <2>1. sessions' = [sessions EXCEPT ![run[m].sid] = row] BY <1>6 DEF UpdateStatus, SaveRow
  <2>2. /\ sessions' \in Seq(Row) /\ Len(sessions') = Len(sessions) /\ DOMAIN sessions' = DOMAIN sessions
        /\ \A i \in DOMAIN sessions : sessions'[i] = IF i = run[m].sid THEN row ELSE sessions[i]
    BY <1>2, <2>1, RowSaved
  <2> QED BY <1>2, <1>3, <1>4, <2>2
<1>7. row = run[m].row => UNCHANGED sessions BY DEF UpdateStatus
<1> QED BY <1>5, <1>6, <1>7

LEMMA GivenTyped ==
  ASSUME TypeOK, NEW m \in Messages, Progress(m), NEW kind \in Kinds
  PROVE  /\ Given(m, kind) \in Task /\ Given(m, kind).kind = kind
         /\ Given(m, kind).attempt = run[m].attempt
<1> DEFINE t == Given(m, kind)
<1>1. run[m] \in Task /\ run[m].version \in Versions /\ run[m].attempt \in 0 .. MaxRetries
  BY DEF TypeOK, Task
<1>2. t \in Task /\ t.kind = kind /\ t.attempt = run[m].attempt
  <2>1. Fresh(kind, run[m].version, run[m].attempt) \in Task BY <1>1, TasksTyped
  <2>2. channel.preset => 1 \in 0 .. MaxSessions /\ sessions[1] \in Row
    BY Domains, PipelineAssumption DEF Progress
  <2> DEFINE f == Fresh(kind, run[m].version, run[m].attempt)
  <2>3. f.kind = kind /\ f.attempt = run[m].attempt BY DEF Fresh
  <2>4. t = IF channel.preset THEN [f EXCEPT !.sid = 1, !.row = sessions[1]] ELSE [f EXCEPT !.sid = 0]
    BY <2>1 DEF Given, Task
  <2>5. 0 \in 0 .. MaxSessions BY PipelineAssumption
  <2> HIDE DEF f, t
  <2>6. CASE channel.preset BY <2>1, <2>2, <2>3, <2>4, <2>6 DEF Task, f
  <2>7. CASE ~channel.preset BY <2>1, <2>3, <2>4, <2>5, <2>7 DEF Task, f
  <2> QED BY <2>6, <2>7
<1> QED BY <1>2

LEMMA StartActs ==
  ASSUME TypeOK, NEW m \in Messages, Progress(m), NEW kind \in Kinds, Start(m, kind)
  PROVE  Acts(m)
<1> DEFINE t == Given(m, kind)
<1>1. run[m] \in Task /\ run[m].version \in Versions /\ run[m].attempt \in 0 .. MaxRetries
  BY DEF TypeOK, Task
<1>2. t \in Task /\ t.kind = kind /\ t.attempt = run[m].attempt BY GivenTyped
<1>3. kind = run[m].kind \/ run[m].attempt = 0 BY <1>1 DEF Start
<1>4. PICK u \in Task : run' = [run EXCEPT ![m] = u] /\ u.kind = kind /\ u.attempt = run[m].attempt
  <2> HIDE DEF t
  <2> DEFINE next == IF channel.preset THEN "activate" ELSE "resolve"
             u1 == Finish(t, "silent")
             u2 == Early(t)
             u3 == [t EXCEPT !.pc = next]
  <2>1. u1 \in Task /\ u1.kind = kind /\ u1.attempt = run[m].attempt BY <1>2, TasksTyped
  <2>2. u2 \in Task /\ u2.kind = kind /\ u2.attempt = run[m].attempt BY <1>2, TasksTyped
  <2>3. u3 \in Task /\ u3.kind = kind /\ u3.attempt = run[m].attempt
    <3>1. next \in {"activate", "resolve"} OBVIOUS
    <3> HIDE DEF next
    <3> QED BY <1>2, <3>1 DEF Task
  <2>4. \/ run' = [run EXCEPT ![m] = u1] \/ run' = [run EXCEPT ![m] = u2]
        \/ run' = [run EXCEPT ![m] = u3]
    BY DEF Start, ChannelDisabled, t, Step
  <2> HIDE DEF u1, u2, u3
  <2> QED BY <2>1, <2>2, <2>3, <2>4
<1>5. /\ UNCHANGED <<channel, consent, sessions, chat>>
      /\ concurrent' = concurrent \cup {{m, other} : other \in Running}
      /\ run[m].pc = "new"
  BY DEF Start, Overlap
<1>6. concurrent' \subseteq SUBSET Messages BY <1>5 DEF TypeOK, Running
<1>7. run[m].attempt > 0 \/ run[m].pc \notin BeforeRecord => u.attempt > 0 \/ u.pc \notin BeforeRecord
  BY <1>4, <1>5 DEF BeforeRecord
<1>8. run[m].pc # "new" \/ run[m].attempt > 0 => u.kind = run[m].kind BY <1>1, <1>3, <1>4, <1>5
<1> QED BY <1>4, <1>5, <1>6, <1>7, <1>8, ActsByParts DEF TypeOK, ChatAllows

LEMMA StartAdHocActs ==
  ASSUME TypeOK, NEW m \in Messages, StartAdHoc(m)
  PROVE  Acts(m)
<1>1. run[m] \in Task /\ run[m].version \in Versions /\ run[m].attempt \in 0 .. MaxRetries
  BY DEF TypeOK, Task
<1>2. PICK s \in DOMAIN sessions :
        LET t == [Fresh("adhoc", run[m].version, 0) EXCEPT
                    !.sid = s, !.row = sessions[s], !.reply = "event"]
        IN  \/ Step(m, Finish(t, "silent")) /\ UNCHANGED chat
            \/ GateBlocks /\ Step(m, Finish(t, "silent")) /\ Answer(s, m)
            \/ ~GateBlocks /\ Step(m, [t EXCEPT !.pc = "send"]) /\ UNCHANGED chat
  BY DEF StartAdHoc
<1> DEFINE t == [Fresh("adhoc", run[m].version, 0) EXCEPT
                   !.sid = s, !.row = sessions[s], !.reply = "event"]
<1>3. t \in Task
  <2>1. Fresh("adhoc", run[m].version, 0) \in Task BY <1>1, TasksTyped, PipelineAssumption DEF Kinds
  <2>2. s \in 0 .. MaxSessions /\ sessions[s] \in Row BY Domains, PipelineAssumption DEF TypeOK
  <2> QED BY <2>1, <2>2 DEF Task
<1>4. \/ run' = [run EXCEPT ![m] = Finish(t, "silent")] /\ (UNCHANGED chat \/ Answer(s, m))
      \/ run' = [run EXCEPT ![m] = [t EXCEPT !.pc = "send"]] /\ UNCHANGED chat
  BY <1>2 DEF Step
<1> HIDE DEF t
<1>5. s \in DOMAIN chat BY Domains
<1>6. PICK u \in Task : run' = [run EXCEPT ![m] = u] /\ ChatAllows(m)
  BY <1>3, <1>4, <1>5, TasksTyped DEF Task, ChatAllows
<1>7. /\ UNCHANGED <<channel, consent, sessions>>
      /\ concurrent' = concurrent \cup {{m, other} : other \in Running}
      /\ run[m].pc = "new" /\ run[m].attempt = 0
  BY DEF StartAdHoc, Overlap
<1>8. concurrent' \subseteq SUBSET Messages BY <1>7 DEF TypeOK, Running
<1>9. ~(run[m].attempt > 0 \/ run[m].pc \notin BeforeRecord) /\ ~(run[m].pc # "new" \/ run[m].attempt > 0)
  BY <1>7 DEF BeforeRecord
<1> QED BY <1>6, <1>7, <1>8, <1>9, ActsByParts DEF TypeOK

LEMMA RetryActs ==
  ASSUME TypeOK, NEW m \in Messages, Retry(m)
  PROVE  Acts(m)
<1>1. run[m] \in Task BY DEF TypeOK
<1>2. run[m].version \in Versions /\ run[m].attempt + 1 \in 0 .. MaxRetries /\ run[m].kind \in Kinds
      /\ run[m].attempt + 1 > 0
  BY <1>1, PipelineAssumption DEF Task, Retry, MayRetry
<1> DEFINE f == Fresh(run[m].kind, run[m].version, run[m].attempt + 1)
           u == [f EXCEPT !.sent = run[m].sent]
<1>3. f \in Task /\ f.kind = run[m].kind /\ f.attempt > 0
  <2>1. f \in Task BY <1>2, TasksTyped
  <2> QED BY <1>2, <2>1 DEF Fresh
<1>4. run' = [run EXCEPT ![m] = u] BY DEF Retry, Step
<1> HIDE DEF f
<1>5. u \in Task /\ u.kind = run[m].kind /\ u.attempt > 0 BY <1>1, <1>3 DEF Task
<1>6. UNCHANGED <<channel, consent, sessions, chat, concurrent>> BY DEF Retry
<1> HIDE DEF u
<1> QED BY <1>4, <1>5, <1>6, ActsByParts DEF TypeOK, ChatAllows

\* A stage keeps the kind and the attempt, and never goes back before the record.
LEMMA StageActs ==
  ASSUME TypeOK, NEW m \in Messages, channel' = channel, concurrent' = concurrent,
         consent' \in {"absent", "unset", "yes", "no"},
         NEW t \in Task, run' = [run EXCEPT ![m] = t],
         t.kind = run[m].kind, t.attempt = run[m].attempt,
         run[m].pc \notin BeforeRecord => t.pc \notin BeforeRecord,
         sessions' \in Seq(Row), Len(sessions') = Len(sessions), ChatAllows(m)
  PROVE  Acts(m)
<1>1. concurrent' \subseteq SUBSET Messages BY DEF TypeOK
<1> QED BY <1>1, ActsByParts

LEMMA ResolveActs ==
  ASSUME TypeOK, NEW m \in Messages, Resolve(m)
  PROVE  Acts(m)
<1> DEFINE s == NewestOpen
           pc == IF s = 0 THEN "create" ELSE IF run[m].kind = "reset" THEN "end" ELSE "activate"
           row == IF s = 0 THEN run[m].row ELSE sessions[s]
           u == [run[m] EXCEPT !.pc = pc, !.sid = s, !.row = row]
<1>1. run[m] \in Task /\ run[m].row \in Row BY DEF TypeOK, Task
<1>2. s \in 0 .. Len(sessions) /\ (s # 0 => sessions[s] \in Row) BY NewestIsOpen, Domains
<1>3. s \in 0 .. MaxSessions /\ row \in Row /\ pc \in {"create", "end", "activate"}
  BY <1>1, <1>2, Domains, PipelineAssumption DEF TypeOK
<1>4. run' = [run EXCEPT ![m] = u] BY <1>1 DEF Resolve, Step, Task
<1> HIDE DEF s, pc, row
<1>5. u \in Task /\ u.kind = run[m].kind /\ u.attempt = run[m].attempt BY <1>1, <1>3 DEF Task
<1>6. UNCHANGED <<channel, consent, sessions, chat, concurrent>> /\ run[m].pc = "resolve" BY DEF Resolve
<1> HIDE DEF u
<1> QED BY <1>4, <1>5, <1>6, StageActs DEF TypeOK, ChatAllows, BeforeRecord

LEMMA EndOldActs ==
  ASSUME TypeOK, NEW m \in Messages, Progress(m), EndOld(m)
  PROVE  Acts(m)
<1>1. run[m].pc = "end" /\ UNCHANGED <<channel, consent, chat, concurrent>>
      /\ run' = [run EXCEPT ![m] = Goto(m, "create")]
  BY DEF EndOld, Step
<1>2. run[m].sid \in DOMAIN sessions BY <1>1, InSession DEF Progress, Holding
<1>3. EndedRow(run[m].row) \in Row BY RowsTyped DEF TypeOK, Task
<1>4. sessions' \in Seq(Row) /\ Len(sessions') = Len(sessions)
  BY <1>2, <1>3, RowSaved DEF EndOld, SaveRow
<1> QED BY <1>1, <1>4, GotoTyped, StageActs DEF TypeOK, ChatAllows, BeforeRecord

LEMMA ActivateActs ==
  ASSUME TypeOK, NEW m \in Messages, Progress(m), Activate(m)
  PROVE  Acts(m)
<1>1. run[m].pc = "activate" /\ UNCHANGED <<channel, consent, chat, concurrent>> BY DEF Activate
<1>2. CASE channel.form
  <2>1. UNCHANGED sessions /\ run' = [run EXCEPT ![m] = Goto(m, "record")] BY <1>2 DEF Activate, Step
  <2> QED BY <1>1, <2>1, GotoTyped, StageActs DEF TypeOK, ChatAllows, BeforeRecord
<1>3. CASE ~channel.form
  <2>1. run[m].sid \in DOMAIN sessions BY <1>1, InSession DEF Progress, Holding
  <2>2. UpdateStatus(m, "active", Goto(m, "record")) BY <1>3 DEF Activate
  <2> DEFINE u == [Goto(m, "record") EXCEPT !.row = [run[m].row EXCEPT !.status = "active"]]
  <2>3. u \in Task /\ run' = [run EXCEPT ![m] = u] /\ sessions' \in Seq(Row)
        /\ Len(sessions') = Len(sessions)
    BY <2>1, <2>2, GotoTyped, Updated DEF OpenStatuses
  <2>4. u.kind = run[m].kind /\ u.attempt = run[m].attempt BY GotoTyped DEF Task
  <2> HIDE DEF u
  <2> QED BY <1>1, <2>3, <2>4, StageActs DEF TypeOK, ChatAllows, BeforeRecord
<1> QED BY <1>2, <1>3

LEMMA RefuseTypeActs ==
  ASSUME TypeOK, NEW m \in Messages, Progress(m), RefuseType(m)
  PROVE  Acts(m)
<1>1. run[m].pc = "record" /\ UNCHANGED <<channel, consent, sessions, concurrent>>
      /\ run' = [run EXCEPT ![m] = Early(run[m])] /\ (Answer(run[m].sid, m) \/ UNCHANGED chat)
  BY DEF RefuseType, Step
<1>2. run[m].sid \in DOMAIN chat BY <1>1, InSession DEF Progress, Holding
<1>3. run[m] \in Task BY DEF TypeOK
<1> QED BY <1>1, <1>2, <1>3, TasksTyped, StageActs DEF TypeOK, ChatAllows, BeforeRecord

LEMMA RecordActs ==
  ASSUME TypeOK, NEW m \in Messages, Progress(m), Record(m)
  PROVE  Acts(m)
<1>1. run[m].pc = "record" /\ UNCHANGED <<channel, consent, sessions, concurrent>> BY DEF Record
<1>2. run[m] \in Task BY DEF TypeOK
<1>3. run[m].sid \in DOMAIN chat BY <1>1, InSession DEF Progress, Holding
<1>4. CASE /\ Ask(run[m].sid, m)
           /\ Step(m, [run[m] EXCEPT !.pc = "consent", !.human = TRUE, !.query = m])
  <2> DEFINE u == [run[m] EXCEPT !.pc = "consent", !.human = TRUE, !.query = m]
  <2>1. u \in Task /\ u.kind = run[m].kind /\ u.attempt = run[m].attempt /\ u.pc = "consent"
    BY <1>2 DEF Task
  <2>2. run' = [run EXCEPT ![m] = u] BY <1>4 DEF Step
  <2> HIDE DEF u
  <2>3. u.pc \notin BeforeRecord /\ run'[m] = u BY <2>1, <2>2 DEF BeforeRecord, TypeOK
  <2>4. ChatAllows(m) BY <1>3, <1>4, <2>3 DEF ChatAllows
  <2> QED BY <1>1, <2>1, <2>2, <2>3, <2>4, StageActs DEF TypeOK
<1>5. CASE Step(m, [Early(run[m]) EXCEPT !.raises = TRUE]) /\ UNCHANGED chat
  <2> DEFINE u == [Early(run[m]) EXCEPT !.raises = TRUE]
  <2>1. u \in Task /\ u.kind = run[m].kind /\ u.attempt = run[m].attempt BY <1>2, RaisingTyped
  <2>2. run' = [run EXCEPT ![m] = u] BY <1>5 DEF Step
  <2> HIDE DEF u
  <2> QED BY <1>1, <1>5, <2>1, <2>2, StageActs DEF TypeOK, ChatAllows, BeforeRecord
<1> QED BY <1>4, <1>5 DEF Record

LEMMA ConsentFlowActs ==
  ASSUME TypeOK, NEW m \in Messages, Progress(m), FirstIsSaid, ConsentFlow(m)
  PROVE  Acts(m)
<1>1. run[m].pc = "consent" /\ UNCHANGED <<channel, consent, chat, concurrent>> BY DEF ConsentFlow
<1>2. run[m] \in Task BY DEF TypeOK
<1>3. run[m].sid \in DOMAIN sessions BY <1>1, InSession DEF Progress, Holding
<1>4. ASSUME NEW t \in Task, t.kind = run[m].kind, t.attempt = run[m].attempt, t.pc \notin BeforeRecord,
             run' = [run EXCEPT ![m] = t], sessions' \in Seq(Row), Len(sessions') = Len(sessions)
      PROVE  Acts(m)
  BY <1>1, <1>4, StageActs DEF TypeOK, ChatAllows
<1>5. ASSUME NEW t \in Task, t.kind = run[m].kind, t.attempt = run[m].attempt, t.pc \notin BeforeRecord,
             NEW status \in OpenStatuses, UpdateStatus(m, status, t)
      PROVE  Acts(m)
  <2> DEFINE u == [t EXCEPT !.row = [run[m].row EXCEPT !.status = status]]
  <2>0. UpdateStatus(m, status, t) BY <1>5
  <2>1. u \in Task /\ run' = [run EXCEPT ![m] = u] /\ sessions' \in Seq(Row)
        /\ Len(sessions') = Len(sessions)
    BY <1>3, <2>0, Updated
  <2>2. u.kind = run[m].kind /\ u.attempt = run[m].attempt /\ u.pc \notin BeforeRecord BY <1>5 DEF Task
  <2> HIDE DEF u
  <2> QED BY <1>4, <2>1, <2>2
<1> DEFINE original == chat[run[m].sid].first
           early == Early(run[m])
           go == Goto(m, "bot")
           ask == [go EXCEPT !.query = original]
           seed == [go EXCEPT !.query = "seed"]
           stop == Finish(run[m], "silent")
           next == IF Substantive(original) THEN ask ELSE IF channel.seed THEN seed ELSE stop
<1>6. early \in Task /\ early.kind = run[m].kind /\ early.attempt = run[m].attempt /\ early.pc \notin BeforeRecord
  BY <1>2, TasksTyped DEF BeforeRecord
<1>7. go \in Task /\ go.kind = run[m].kind /\ go.attempt = run[m].attempt /\ go.pc \notin BeforeRecord
  BY GotoTyped DEF BeforeRecord
<1>8. stop \in Task /\ stop.kind = run[m].kind /\ stop.attempt = run[m].attempt /\ stop.pc \notin BeforeRecord
  BY <1>2, TasksTyped DEF BeforeRecord
<1>9. original \in Messages \cup {"none"} BY <1>3, Domains DEF History
<1> HIDE DEF original, early, go, stop
<1>10. ask \in Task /\ ask.kind = run[m].kind /\ ask.attempt = run[m].attempt /\ ask.pc \notin BeforeRecord
  BY <1>7, <1>9 DEF Task
<1>11. seed \in Task /\ seed.kind = run[m].kind /\ seed.attempt = run[m].attempt /\ seed.pc \notin BeforeRecord
  BY <1>7 DEF Task
<1> HIDE DEF ask, seed
<1>12. next \in Task /\ next.kind = run[m].kind /\ next.attempt = run[m].attempt /\ next.pc \notin BeforeRecord
  BY <1>8, <1>10, <1>11
<1>13. \/ Step(m, go) /\ UNCHANGED sessions
       \/ UpdateStatus(m, "pending", early)
       \/ Step(m, early) /\ UNCHANGED sessions
       \/ UpdateStatus(m, "active", next)
  BY DEF ConsentFlow, original, early, go, ask, seed, stop
<1> HIDE DEF next
<1>14. sessions \in Seq(Row) /\ {"pending", "active"} \subseteq OpenStatuses BY DEF TypeOK, OpenStatuses
<1>15. CASE Step(m, go) /\ UNCHANGED sessions BY <1>4, <1>7, <1>14, <1>15 DEF Step
<1>16. CASE Step(m, early) /\ UNCHANGED sessions BY <1>4, <1>6, <1>14, <1>16 DEF Step
<1>17. CASE UpdateStatus(m, "pending", early) BY <1>5, <1>6, <1>14, <1>17
<1>18. CASE UpdateStatus(m, "active", next) BY <1>5, <1>12, <1>14, <1>18
<1> QED BY <1>13, <1>15, <1>16, <1>17, <1>18

LEMMA AskBotActs ==
  ASSUME TypeOK, NEW m \in Messages, Progress(m), AskBot(m)
  PROVE  Acts(m)
<1>1. run[m].pc = "bot" /\ UNCHANGED <<channel, sessions, concurrent>>
      /\ consent' \in {"absent", "unset", "yes", "no"}
  BY DEF AskBot, TypeOK
<1>2. run[m] \in Task BY DEF TypeOK
<1>3. run[m].sid \in DOMAIN chat BY <1>1, InSession DEF Progress, Holding
<1>4. ASSUME NEW t \in Task, t.kind = run[m].kind, t.attempt = run[m].attempt, t.pc \notin BeforeRecord,
             Step(m, t), ChatAllows(m)
      PROVE  Acts(m)
  BY <1>1, <1>4, StageActs DEF TypeOK, Step
<1>5. CASE Answer(run[m].sid, m) /\ Step(m, [Goto(m, "save") EXCEPT !.bot = TRUE, !.reply = "bot"])
  <2> DEFINE g == Goto(m, "save")
             u == [g EXCEPT !.bot = TRUE, !.reply = "bot"]
  <2>1. g \in Task /\ g.pc = "save" /\ g.kind = run[m].kind /\ g.attempt = run[m].attempt BY GotoTyped
  <2>2. Step(m, u) BY <1>5
  <2> HIDE DEF g
  <2>3. u \in Task /\ u.kind = run[m].kind /\ u.attempt = run[m].attempt /\ u.pc \notin BeforeRecord
    BY <2>1 DEF Task, BeforeRecord
  <2> HIDE DEF u
  <2> QED BY <1>3, <1>4, <1>5, <2>2, <2>3 DEF ChatAllows
<1>6. CASE BotFails(m) /\ UNCHANGED chat
  <2>1. ChatAllows(m) BY <1>6 DEF ChatAllows
  <2>2. CASE Step(m, Early(run[m])) BY <1>2, <1>4, <2>1, <2>2, TasksTyped DEF BeforeRecord
  <2>3. CASE Step(m, Finish(run[m], "cancelled")) BY <1>2, <1>4, <2>1, <2>3, TasksTyped DEF BeforeRecord
  <2>4. CASE Step(m, [Early(run[m]) EXCEPT !.raises = TRUE])
    BY <1>2, <1>4, <2>1, <2>4, RaisingTyped DEF BeforeRecord
  <2> QED BY <1>6, <2>2, <2>3, <2>4 DEF BotFails
<1> QED BY <1>5, <1>6 DEF AskBot

LEMMA SaveStateActs ==
  ASSUME TypeOK, NEW m \in Messages, Progress(m), SaveState(m)
  PROVE  Acts(m)
<1>1. run[m].pc = "save" /\ UNCHANGED <<channel, consent, chat, concurrent>> BY DEF SaveState
<1>2. run[m] \in Task /\ run[m].row \in Row BY DEF TypeOK, Task
<1> DEFINE s == run[m].sid
           row == [run[m].row EXCEPT !.state = AddTurn(@, m)]
<1>3. s \in DOMAIN sessions BY <1>1, InSession DEF Progress, Holding
<1>4. PICK ends, fails \in BOOLEAN :
        LET saved == IF ends THEN EndedRow(row) ELSE row
        IN  /\ IF ends THEN SaveRow(s, saved) ELSE sessions' = [sessions EXCEPT ![s].state = row.state]
            /\ Step(m, Formatted([run[m] EXCEPT !.row = saved, !.saved = TRUE], fails))
  BY DEF SaveState
<1>5. row \in Row BY <1>2 DEF Row, AddTurn
<1> DEFINE saved == IF ends THEN EndedRow(row) ELSE row
           t == [run[m] EXCEPT !.row = saved, !.saved = TRUE]
           u == Formatted(t, fails)
<1>6. saved \in Row BY <1>5, RowsTyped
<1>7. sessions' \in Seq(Row) /\ Len(sessions') = Len(sessions)
  <2>1. CASE ends
    <3>1. sessions' = [sessions EXCEPT ![s] = saved] BY <1>4, <2>1 DEF SaveRow
    <3> QED BY <1>3, <1>6, <3>1, RowSaved
  <2>2. CASE ~ends
    <3>0. sessions[s] \in Row BY <1>3, Domains
    <3>1. [sessions[s] EXCEPT !.state = row.state] \in Row BY <1>5, <3>0 DEF Row
    <3>2. sessions' = [sessions EXCEPT ![s] = [sessions[s] EXCEPT !.state = row.state]] BY <1>4, <2>2
    <3> QED BY <1>3, <3>1, <3>2, RowSaved
  <2> QED BY <2>1, <2>2
<1> HIDE DEF saved, s
<1>8. t \in Task /\ t.kind = run[m].kind /\ t.attempt = run[m].attempt BY <1>2, <1>6 DEF Task
<1>9. run' = [run EXCEPT ![m] = u] BY <1>4 DEF Step, saved
<1> HIDE DEF t
<1>10. u \in Task /\ u.kind = run[m].kind /\ u.attempt = run[m].attempt /\ u.pc \notin BeforeRecord
  <2> DEFINE r == [Early(t) EXCEPT !.raises = TRUE]
             k == [t EXCEPT !.pc = Terminal]
  <2>1. r \in Task /\ r.kind = run[m].kind /\ r.attempt = run[m].attempt /\ r.pc \notin BeforeRecord
    BY <1>8, RaisingTyped DEF BeforeRecord
  <2>2. Terminal \in {"send", "persist"} BY DEF Terminal
  <2>3. k \in Task /\ k.kind = run[m].kind /\ k.attempt = run[m].attempt /\ k.pc \notin BeforeRecord
    BY <1>8, <2>2 DEF Task, BeforeRecord
  <2>4. u = IF fails THEN r ELSE k BY DEF Formatted
  <2> HIDE DEF r, k, u
  <2> QED BY <2>1, <2>3, <2>4
<1> HIDE DEF u
<1> QED BY <1>1, <1>7, <1>9, <1>10, StageActs DEF TypeOK, ChatAllows

LEMMA SendActs ==
  ASSUME TypeOK, NEW m \in Messages, Progress(m), Send(m)
  PROVE  Acts(m)
<1>1. run[m].pc = "send" /\ UNCHANGED <<channel, sessions, chat, concurrent>>
      /\ consent' \in {"absent", "unset", "yes", "no"}
  BY DEF Send, TypeOK, RevokeConsent
<1>2. run[m] \in Task BY DEF TypeOK
<1>3. ASSUME NEW t \in Task, t.kind = run[m].kind, t.attempt = run[m].attempt, t.pc \notin BeforeRecord,
             Step(m, t)
      PROVE  Acts(m)
  BY <1>1, <1>3, StageActs DEF TypeOK, Step, ChatAllows
<1> DEFINE g == Goto(m, "persist")
           f == [run[m] EXCEPT !.sent = TRUE]
<1>4. g \in Task /\ g.pc = "persist" /\ g.kind = run[m].kind /\ g.attempt = run[m].attempt BY GotoTyped
<1>5. f \in Task /\ f.kind = run[m].kind /\ f.attempt = run[m].attempt BY <1>2 DEF Task
<1>6. \/ \E through \in BOOLEAN : Step(m, [g EXCEPT !.sent = run[m].sent \/ through])
      \/ Step(m, g) \/ Step(m, Finish(f, "raised"))
  BY DEF Send, UnknownFailure
<1> HIDE DEF g, f
<1>7. CASE \E through \in BOOLEAN : Step(m, [g EXCEPT !.sent = run[m].sent \/ through])
  <2>1. PICK through \in BOOLEAN : Step(m, [g EXCEPT !.sent = run[m].sent \/ through]) BY <1>7
  <2> DEFINE u == [g EXCEPT !.sent = run[m].sent \/ through]
  <2>2. u \in Task /\ u.kind = run[m].kind /\ u.attempt = run[m].attempt /\ u.pc \notin BeforeRecord
    BY <1>2, <1>4 DEF Task, BeforeRecord
  <2> HIDE DEF u
  <2> QED BY <1>3, <2>1, <2>2 DEF u
<1>8. CASE Step(m, g) BY <1>3, <1>4, <1>8 DEF BeforeRecord
<1>9. CASE Step(m, Finish(f, "raised")) BY <1>3, <1>5, <1>9, TasksTyped DEF BeforeRecord
<1> QED BY <1>6, <1>7, <1>8, <1>9

LEMMA PersistActs ==
  ASSUME TypeOK, NEW m \in Messages, Progress(m), Persist(m)
  PROVE  Acts(m)
<1>1. run[m].pc = "persist" /\ UNCHANGED <<channel, consent, concurrent>> BY DEF Persist, AtPersist
<1>2. run[m] \in Task /\ run[m].row \in Row /\ run[m].version \in Versions BY DEF TypeOK, Task
<1> DEFINE t == run[m]
           s == run[m].sid
           versions == t.row.versions \cup {t.version}
           outcome == IF t.raises THEN "raised" ELSE "answered"
<1>3. /\ IF StoresAnswer(t) THEN Answer(s, m) ELSE UNCHANGED chat
      /\ IF s = 0 \/ versions = t.row.versions THEN UNCHANGED sessions
         ELSE sessions' = [sessions EXCEPT ![s].versions = versions]
      /\ run' = [run EXCEPT ![m] = Finish(t, outcome)]
  BY DEF Persist, Step
<1>4. s # 0 => s \in DOMAIN sessions /\ s \in DOMAIN chat BY InSession
<1>5. sessions' \in Seq(Row) /\ Len(sessions') = Len(sessions)
  <2>1. CASE UNCHANGED sessions BY <2>1 DEF TypeOK
  <2>2. CASE s # 0 /\ sessions' = [sessions EXCEPT ![s].versions = versions]
    <3>0. sessions[s] \in Row BY <1>4, <2>2, Domains
    <3>1. versions \in SUBSET Versions BY <1>2 DEF Row
    <3> HIDE DEF versions
    <3>2. [sessions[s] EXCEPT !.versions = versions] \in Row BY <3>0, <3>1 DEF Row
    <3>3. sessions' = [sessions EXCEPT ![s] = [sessions[s] EXCEPT !.versions = versions]] BY <2>2
    <3> QED BY <1>4, <2>2, <3>2, <3>3, RowSaved
  <2> QED BY <1>3, <2>1, <2>2
<1>6. ChatAllows(m)
  <2>1. CASE StoresAnswer(t) BY <1>3, <1>4, <2>1 DEF ChatAllows, StoresAnswer, Persists
  <2>2. CASE ~StoresAnswer(t) BY <1>3, <2>2 DEF ChatAllows
  <2> QED BY <2>1, <2>2
<1>7. outcome \in {"none", "answered", "silent", "cancelled", "raised"} OBVIOUS
<1> DEFINE u == Finish(t, outcome)
<1> HIDE DEF outcome
<1>8. u \in Task /\ u.kind = run[m].kind /\ u.attempt = run[m].attempt /\ u.pc \notin BeforeRecord
  BY <1>2, <1>7, TasksTyped DEF BeforeRecord
<1> QED BY <1>1, <1>3, <1>5, <1>6, <1>8, StageActs DEF TypeOK

LEMMA SendAdHocActs ==
  ASSUME TypeOK, NEW m \in Messages, Progress(m), SendAdHoc(m)
  PROVE  Acts(m)
<1>1. run[m].pc = "send" /\ run[m].kind = "adhoc" /\ UNCHANGED <<channel, sessions, concurrent>>
      /\ consent' \in {"absent", "unset", "yes", "no"}
  BY DEF SendAdHoc, TypeOK, RevokeConsent
<1>2. run[m] \in Task BY DEF TypeOK
<1>3. run[m].sid \in DOMAIN chat BY <1>1, InSession DEF Progress
<1>4. ChatAllows(m) BY <1>3 DEF SendAdHoc, ChatAllows
<1>5. PICK sent \in BOOLEAN, outcome \in {"answered", "raised"} :
        Step(m, Finish([run[m] EXCEPT !.sent = sent], outcome))
  <2>1. run[m].sent \in BOOLEAN /\ [run[m] EXCEPT !.sent = run[m].sent] = run[m] BY <1>2 DEF Task
  <2>2. \/ \E through \in BOOLEAN : Step(m, Finish([run[m] EXCEPT !.sent = through], "answered"))
        \/ Step(m, Finish(run[m], "answered"))
        \/ Step(m, Finish([run[m] EXCEPT !.sent = TRUE], "raised"))
    BY DEF SendAdHoc
  <2> QED BY <2>1, <2>2
<1> DEFINE f == [run[m] EXCEPT !.sent = sent]
           u == Finish(f, outcome)
<1>6. f \in Task /\ f.kind = run[m].kind /\ f.attempt = run[m].attempt BY <1>2 DEF Task
<1>7. run' = [run EXCEPT ![m] = u] BY <1>5 DEF Step
<1> HIDE DEF f
<1>8. u \in Task /\ u.kind = run[m].kind /\ u.attempt = run[m].attempt /\ u.pc \notin BeforeRecord
  BY <1>6, TasksTyped DEF BeforeRecord
<1> HIDE DEF u
<1> QED BY <1>1, <1>4, <1>7, <1>8, StageActs DEF TypeOK

LEMMA CreateSessionActs ==
  ASSUME TypeOK, NEW m \in Messages, CreateSession(m)
  PROVE  /\ Acts(m)
         /\ Len(sessions') = Len(sessions) + 1
         /\ sessions'[Len(sessions) + 1] = NewRow("setup")
         /\ \A s \in DOMAIN sessions : sessions'[s] = sessions[s]
<1> DEFINE n == Len(sessions) + 1
<1>1. /\ run[m].pc = "create" /\ Len(sessions) < MaxSessions
      /\ UNCHANGED <<channel, consent, concurrent>>
      /\ sessions' = Append(sessions, NewRow("setup")) /\ chat' = Append(chat, NoHistory)
  BY DEF CreateSession
<1>2. run[m] \in Task BY DEF TypeOK
<1>3. NewRow("setup") \in Row BY RowsTyped DEF OpenStatuses
<1>4. NoHistory \in History BY DEF NoHistory, History
<1>5. /\ Len(sessions) \in Nat /\ Len(chat) = Len(sessions)
      /\ DOMAIN sessions = 1 .. Len(sessions) /\ DOMAIN chat = 1 .. Len(sessions)
  BY Domains DEF TypeOK
<1>6. /\ sessions' \in Seq(Row) /\ Len(sessions') = n /\ DOMAIN sessions' = 1 .. n
      /\ sessions'[n] = NewRow("setup") /\ \A s \in DOMAIN sessions : sessions'[s] = sessions[s]
  <2>1. sessions \in Seq(Row) BY DEF TypeOK
  <2>2. /\ sessions' \in Seq(Row) /\ Len(sessions') = n
        /\ \A s \in 1 .. Len(sessions) : sessions'[s] = sessions[s]
        /\ sessions'[n] = NewRow("setup")
    BY <1>1, <1>3, <2>1, AppendProperties
  <2> QED BY <1>5, <2>2, LenProperties
<1>7. /\ chat' \in Seq(History) /\ Len(chat') = n /\ DOMAIN chat' = 1 .. n
      /\ chat'[n] = NoHistory /\ \A s \in DOMAIN chat : chat'[s] = chat[s]
  <2>1. chat \in Seq(History) BY DEF TypeOK
  <2>2. /\ chat' \in Seq(History) /\ Len(chat') = n
        /\ \A s \in 1 .. Len(chat) : chat'[s] = chat[s]
        /\ chat'[n] = NoHistory
    BY <1>1, <1>4, <1>5, <2>1, AppendProperties
  <2> QED BY <1>5, <2>2, LenProperties
<1> DEFINE t == [run[m] EXCEPT !.sid = n, !.row = NewRow("setup"), !.pc = "activate"]
           u == IF t.kind = "reset" THEN Early(t) ELSE t
<1>8. t \in Task /\ t.kind = run[m].kind /\ t.attempt = run[m].attempt
  <2>1. n \in 0 .. MaxSessions BY <1>1, <1>5, PipelineAssumption
  <2> HIDE DEF n
  <2> QED BY <1>2, <1>3, <2>1 DEF Task
<1>9. run' = [run EXCEPT ![m] = u] BY DEF CreateSession, Step
<1> HIDE DEF t
<1>10. u \in Task /\ u.kind = run[m].kind /\ u.attempt = run[m].attempt BY <1>8, TasksTyped
<1> HIDE DEF u
<1>11. run' \in [Messages -> Task] /\ run'[m] = u /\ \A o \in Messages \ {m} : run'[o] = run[o]
  BY <1>9, <1>10 DEF TypeOK
<1>12. TypeOK'
  <2>1. Len(sessions') <= MaxSessions BY <1>1, <1>5, <1>6, PipelineAssumption
  <2>2. /\ sessions' \in Seq(Row) /\ chat' \in Seq(History) /\ Len(chat') = Len(sessions')
        /\ run' \in [Messages -> Task]
    BY <1>6, <1>7, <1>11
  <2> QED BY <1>1, <2>1, <2>2 DEF TypeOK
<1>13. run[m].attempt > 0 \/ run[m].pc \notin BeforeRecord =>
         run'[m].attempt > 0 \/ run'[m].pc \notin BeforeRecord
  BY <1>1, <1>10, <1>11 DEF BeforeRecord
<1>14. \A s \in DOMAIN chat' : s \in DOMAIN chat \/ chat'[s] = NoHistory BY <1>5, <1>7
<1>15. \A s \in DOMAIN chat, o \in Messages : chat[s].answers[o] \in Nat BY Domains DEF History
<1> HIDE DEF n
<1>16. \A s \in DOMAIN chat :
       /\ chat[s].said \subseteq chat'[s].said /\ chat'[s].said \subseteq chat[s].said \cup {m}
       /\ chat'[s].first = chat[s].first \/ (chat'[s].first = m /\ m \in chat'[s].said)
       /\ \A o \in Messages : /\ chat[s].answers[o] <= chat'[s].answers[o]
                              /\ o # m => chat'[s].answers[o] = chat[s].answers[o]
       /\ m \in chat'[s].said => m \in chat[s].said \/ run'[m].pc \notin BeforeRecord
  BY <1>7, <1>15
<1>17. Acts(m) BY <1>1, <1>5, <1>6, <1>10, <1>11, <1>12, <1>13, <1>14, <1>16 DEF Acts, n
<1> QED BY <1>6, <1>17 DEF n

LEMMA TaskActs ==
  ASSUME TypeOK, RecordInv, NEW m \in Messages, ActionOf(m)
  PROVE  Acts(m)
<1>1. Progress(m) /\ FirstIsSaid BY DEF RecordInv
<1> QED BY <1>1, StartActs, StartAdHocActs, RetryActs, ResolveActs, EndOldActs, CreateSessionActs,
           ActivateActs, RefuseTypeActs, RecordActs, ConsentFlowActs, AskBotActs, SaveStateActs,
           SendActs, PersistActs, SendAdHocActs DEF ActionOf, Stage

-----------------------------------------------------------------------------
(* The record of the answers.                                              *)

Delivered(m) ==
  (/\ Done(m) /\ run[m].sent /\ run[m].attempt = 0 /\ run[m].sid # 0
   /\ run[m].kind # "reset" /\ ~(run[m].kind = "adhoc" /\ run[m].outcome = "raised"))
      => Answers(run[m].sid, m) > 0

\* What others do keeps what is known of a task.
LEMMA OthersKeepRecord ==
  ASSUME TypeOK, RecordInv, NEW m \in Messages, Acts(m), NEW o \in Messages \ {m}
  PROVE  Progress(o)' /\ Stored(o)' /\ Delivered(o)'
<1>1. /\ TypeOK' /\ run'[o] = run[o] /\ channel' = channel /\ Len(sessions) <= Len(sessions')
      /\ \A s \in DOMAIN chat : /\ chat[s].said \subseteq chat'[s].said
                                /\ chat'[s].answers[o] = chat[s].answers[o]
      /\ \A s \in DOMAIN chat' : s \in DOMAIN chat \/ chat'[s] = NoHistory
  BY DEF Acts
<1>2. Progress(o) /\ Stored(o) /\ Delivered(o) BY DEF RecordInv, DeliveredIsRecorded, Delivered
<1>3. run[o].sid # 0 => run[o].sid \in DOMAIN chat BY <1>2, InSession
<1>4. Len(sessions) \in Nat /\ Len(sessions') \in Nat /\ run[o].sid \in Nat
  <2>1. Len(sessions) \in Nat /\ run[o].sid \in 0 .. MaxSessions BY Domains DEF TypeOK, Task
  <2>2. Len(sessions') \in Nat BY <1>1, LenProperties DEF TypeOK
  <2> QED BY <2>1, <2>2, PipelineAssumption
<1>5. Progress(o)' BY <1>1, <1>2, <1>3, <1>4 DEF Progress, Holding
<1>6. run[o].attempt \in Nat BY PipelineAssumption DEF TypeOK, Task
<1>7. Stored(o)'
  <2>1. run[o].bot => (Answers(run[o].sid, o) > 0)' BY <1>1, <1>2, <1>3 DEF Stored, Progress, Answers
  <2>2. ASSUME run[o].kind # "unsupported", NEW s \in DOMAIN chat'
        PROVE  chat'[s].answers[o] <= run[o].attempt + (IF run[o].pc = "done" \/ run[o].bot THEN 1 ELSE 0)
    <3>1. CASE s \in DOMAIN chat BY <1>1, <1>2, <2>2, <3>1 DEF Stored, Answers
    <3>2. CASE chat'[s] = NoHistory BY <1>6, <3>2 DEF NoHistory
    <3> QED BY <1>1, <2>2, <3>1, <3>2
  <2> QED BY <1>1, <2>1, <2>2 DEF Stored, Answers
<1>8. Delivered(o)' BY <1>1, <1>2, <1>3 DEF Delivered, Done, Answers
<1> QED BY <1>5, <1>7, <1>8

LEMMA RecordByTask ==
  ASSUME TypeOK, RecordInv, NEW m \in Messages, Acts(m), Progress(m)', Stored(m)', Delivered(m)'
  PROVE  RecordInv'
<1>1. \A o \in Messages : Progress(o)' /\ Stored(o)' /\ Delivered(o)' BY OthersKeepRecord
<1>2. SaidInTime'
  <2>1. ASSUME NEW o \in Messages, NEW s \in DOMAIN chat', o \in chat'[s].said
        PROVE  run'[o].attempt > 0 \/ run'[o].pc \notin BeforeRecord
    <3>1. s \in DOMAIN chat BY <2>1 DEF Acts, NoHistory
    <3>2. SaidInTime BY DEF RecordInv
    <3>3. CASE o = m BY <2>1, <3>1, <3>2, <3>3 DEF Acts, SaidInTime
    <3>4. CASE o # m
      <4>1. o \in chat[s].said /\ run'[o] = run[o] BY <2>1, <3>1, <3>4 DEF Acts
      <4> QED BY <3>1, <3>2, <4>1 DEF SaidInTime
    <3> QED BY <3>3, <3>4
  <2> QED BY <2>1 DEF SaidInTime
<1>3. FirstIsSaid'
  <2>1. ASSUME NEW s \in DOMAIN chat', chat'[s].first # "none" PROVE chat'[s].first \in chat'[s].said
    <3>1. s \in DOMAIN chat BY <2>1 DEF Acts, NoHistory
    <3>2. FirstIsSaid BY DEF RecordInv
    <3> QED BY <2>1, <3>1, <3>2 DEF Acts, FirstIsSaid
  <2> QED BY <2>1 DEF FirstIsSaid
<1>4. DeliveredIsRecorded' BY <1>1 DEF DeliveredIsRecorded, Delivered
<1> QED BY <1>1, <1>2, <1>3, <1>4 DEF RecordInv

-----------------------------------------------------------------------------
(* What each step makes of its task, field by field.                       *)

Keeps(u, t) ==
  /\ u.kind = t.kind /\ u.attempt = t.attempt /\ u.sid = t.sid /\ u.query = t.query
  /\ u.bot = t.bot /\ u.saved = t.saved /\ u.sent = t.sent
AnswersEarly(u, t) == Keeps(u, t) /\ u.row = t.row /\ u.reply = "early" /\ u.pc = Terminal
Ends(u, t) == Keeps(u, t) /\ u.pc = "done"

LEMMA Fields ==
  ASSUME NEW t \in Task
  PROVE  /\ AnswersEarly(Early(t), t)
         /\ AnswersEarly([Early(t) EXCEPT !.raises = TRUE], t)
         /\ \A outcome : Ends(Finish(t, outcome), t) /\ Finish(t, outcome).outcome = outcome
<1>1. AnswersEarly(Early(t), t) BY DEF AnswersEarly, Keeps, Early, Task
<1>2. AnswersEarly([Early(t) EXCEPT !.raises = TRUE], t) BY DEF AnswersEarly, Keeps, Early, Task
<1>3. \A outcome : Ends(Finish(t, outcome), t) /\ Finish(t, outcome).outcome = outcome
  BY DEF Ends, Keeps, Finish, Task
<1> QED BY <1>1, <1>2, <1>3

LEMMA Set ==
  ASSUME TypeOK, NEW m \in Messages, NEW u, Step(m, u)
  PROVE  run'[m] = u
BY DEF TypeOK, Step

LEMMA StartMoves ==
  ASSUME TypeOK, NEW m \in Messages, Progress(m), NEW kind \in Kinds, Start(m, kind)
  PROVE  LET u == run'[m] IN
         /\ run[m].pc = "new" /\ kind # "adhoc" /\ UNCHANGED <<sessions, chat>>
         /\ u.kind = kind /\ u.attempt = run[m].attempt /\ ~u.bot /\ ~u.saved /\ ~u.sent
         /\ u.query = "none" /\ u.sid = IF channel.preset THEN 1 ELSE 0
         /\ \/ u.pc = "done"
            \/ u.pc = Terminal /\ u.reply = "early" /\ (channel.preset => u.row = sessions[1])
            \/ u.pc = "activate" /\ channel.preset /\ u.row = sessions[1]
            \/ u.pc = "resolve" /\ ~channel.preset
<1> DEFINE t == Given(m, kind)
           f == Fresh(kind, run[m].version, run[m].attempt)
           v == [t EXCEPT !.pc = IF channel.preset THEN "activate" ELSE "resolve"]
<1>1. run[m] \in Task /\ run[m].version \in Versions /\ run[m].attempt \in 0 .. MaxRetries
  BY DEF TypeOK, Task
<1>2. f \in Task BY <1>1, TasksTyped
<1>3. f.kind = kind /\ f.attempt = run[m].attempt /\ ~f.bot /\ ~f.saved /\ ~f.sent /\ f.query = "none"
  BY DEF Fresh
<1>4. t = IF channel.preset THEN [f EXCEPT !.sid = 1, !.row = sessions[1]] ELSE [f EXCEPT !.sid = 0]
  BY <1>2 DEF Given, Task
<1>5. channel.preset => 1 \in 0 .. MaxSessions /\ sessions[1] \in Row
  BY Domains, PipelineAssumption DEF Progress
<1>6. 0 \in 0 .. MaxSessions BY PipelineAssumption
<1>7. Step(m, Finish(t, "silent")) \/ Step(m, Early(t)) \/ Step(m, v)
  BY DEF Start, ChannelDisabled
<1> HIDE DEF f
<1> DEFINE Is(x) == /\ x.kind = kind /\ x.attempt = run[m].attempt /\ ~x.bot /\ ~x.saved /\ ~x.sent
                    /\ x.query = "none" /\ x.sid = IF channel.preset THEN 1 ELSE 0
<1>8. t \in Task /\ Is(t) /\ (channel.preset => t.row = sessions[1])
  <2> HIDE DEF t
  <2>1. CASE channel.preset BY <1>2, <1>3, <1>4, <1>5, <2>1 DEF Task
  <2>2. CASE ~channel.preset BY <1>2, <1>3, <1>4, <1>6, <2>2 DEF Task
  <2> QED BY <2>1, <2>2
<1>9. run[m].pc = "new" /\ kind # "adhoc" /\ UNCHANGED <<sessions, chat>> BY DEF Start
<1> HIDE DEF t
<1>10. CASE Step(m, Finish(t, "silent"))
  <2>1. run'[m] = Finish(t, "silent") BY <1>10, Set
  <2>2. Ends(run'[m], t) BY <1>8, <2>1, Fields
  <2> QED BY <1>8, <1>9, <2>2 DEF Ends, Keeps
<1>11. CASE Step(m, Early(t))
  <2>1. run'[m] = Early(t) BY <1>11, Set
  <2>2. AnswersEarly(run'[m], t) BY <1>8, <2>1, Fields
  <2> QED BY <1>8, <1>9, <2>2 DEF AnswersEarly, Keeps
<1>12. CASE Step(m, v)
  <2>1. run'[m] = v BY <1>12, Set
  <2>2. Keeps(v, t) /\ v.row = t.row /\ v.pc = IF channel.preset THEN "activate" ELSE "resolve"
    BY <1>8 DEF Task, Keeps
  <2> HIDE DEF v
  <2> QED BY <1>8, <1>9, <2>1, <2>2 DEF Keeps
<1> QED BY <1>7, <1>10, <1>11, <1>12

LEMMA StartAdHocMoves ==
  ASSUME TypeOK, NEW m \in Messages, StartAdHoc(m)
  PROVE  LET u == run'[m] IN
         /\ run[m].pc = "new" /\ run[m].attempt = 0 /\ UNCHANGED sessions
         /\ u.kind = "adhoc" /\ u.attempt = 0 /\ ~u.bot /\ ~u.saved /\ ~u.sent
         /\ u.query = "none" /\ u.sid \in DOMAIN sessions
         /\ \/ u.pc = "done" /\ (UNCHANGED chat \/ Answer(u.sid, m))
            \/ u.pc = "send" /\ u.row = sessions[u.sid] /\ UNCHANGED chat
<1>1. run[m] \in Task /\ run[m].version \in Versions BY DEF TypeOK, Task
<1>2. PICK s \in DOMAIN sessions :
        LET t == [Fresh("adhoc", run[m].version, 0) EXCEPT
                    !.sid = s, !.row = sessions[s], !.reply = "event"]
        IN  \/ Step(m, Finish(t, "silent")) /\ UNCHANGED chat
            \/ GateBlocks /\ Step(m, Finish(t, "silent")) /\ Answer(s, m)
            \/ ~GateBlocks /\ Step(m, [t EXCEPT !.pc = "send"]) /\ UNCHANGED chat
  BY DEF StartAdHoc
<1> DEFINE f == Fresh("adhoc", run[m].version, 0)
           t == [f EXCEPT !.sid = s, !.row = sessions[s], !.reply = "event"]
           v == [t EXCEPT !.pc = "send"]
<1>3. f \in Task BY <1>1, TasksTyped, PipelineAssumption DEF Kinds
<1>4. f.kind = "adhoc" /\ f.attempt = 0 /\ ~f.bot /\ ~f.saved /\ ~f.sent /\ f.query = "none"
  BY DEF Fresh
<1>5. s \in 0 .. MaxSessions /\ sessions[s] \in Row BY Domains, PipelineAssumption DEF TypeOK
<1>6. \/ Step(m, Finish(t, "silent")) /\ (UNCHANGED chat \/ Answer(s, m))
      \/ Step(m, v) /\ UNCHANGED chat
  BY <1>2
<1> HIDE DEF f
<1>7. t \in Task /\ t.sid = s /\ t.row = sessions[s] /\ t.kind = "adhoc" /\ t.attempt = 0 /\ ~t.bot
      /\ ~t.saved /\ ~t.sent /\ t.query = "none"
  BY <1>3, <1>4, <1>5 DEF Task
<1> HIDE DEF t
<1>8. run[m].pc = "new" /\ run[m].attempt = 0 /\ UNCHANGED sessions BY DEF StartAdHoc
<1>9. CASE Step(m, Finish(t, "silent")) /\ (UNCHANGED chat \/ Answer(s, m))
  <2>1. run'[m] = Finish(t, "silent") BY <1>9, Set
  <2>2. Ends(run'[m], t) BY <1>7, <2>1, Fields
  <2> QED BY <1>7, <1>8, <1>9, <2>2 DEF Ends, Keeps
<1>10. CASE Step(m, v) /\ UNCHANGED chat
  <2>1. run'[m] = v BY <1>10, Set
  <2>2. Keeps(v, t) /\ v.row = t.row /\ v.pc = "send" BY <1>7 DEF Task, Keeps
  <2> HIDE DEF v
  <2> QED BY <1>7, <1>8, <1>10, <2>1, <2>2 DEF Keeps
<1> QED BY <1>6, <1>9, <1>10

LEMMA RetryMoves ==
  ASSUME TypeOK, NEW m \in Messages, Retry(m)
  PROVE  LET u == run'[m] IN
         /\ run[m].pc = "done" /\ run[m].kind # "adhoc" /\ channel.retries /\ UNCHANGED <<sessions, chat>>
         /\ u.kind = run[m].kind /\ u.attempt = run[m].attempt + 1 /\ ~u.bot /\ ~u.saved
         /\ u.query = "none" /\ u.sid = 0 /\ u.pc = "new"
<1>1. run[m] \in Task BY DEF TypeOK
<1>2. run[m].version \in Versions /\ run[m].attempt + 1 \in 0 .. MaxRetries /\ run[m].kind \in Kinds
  BY <1>1, PipelineAssumption DEF Task, Retry, MayRetry
<1> DEFINE f == Fresh(run[m].kind, run[m].version, run[m].attempt + 1)
           u == [f EXCEPT !.sent = run[m].sent]
<1>3. f \in Task BY <1>2, TasksTyped
<1>4. f.kind = run[m].kind /\ f.attempt = run[m].attempt + 1 /\ ~f.bot /\ ~f.saved /\ f.query = "none"
      /\ f.sid = 0 /\ f.pc = "new"
  BY DEF Fresh
<1>5. Step(m, u) BY DEF Retry
<1>6. run'[m] = u BY <1>5, Set
<1> HIDE DEF f
<1>7. u.kind = run[m].kind /\ u.attempt = run[m].attempt + 1 /\ ~u.bot /\ ~u.saved /\ u.query = "none"
      /\ u.sid = 0 /\ u.pc = "new"
  BY <1>3, <1>4 DEF Task
<1> QED BY <1>6, <1>7 DEF Retry

LEMMA GotoFields ==
  ASSUME TypeOK, NEW m \in Messages, NEW pc
  PROVE  LET g == Goto(m, pc) IN Keeps(g, run[m]) /\ g.row = run[m].row /\ g.reply = run[m].reply /\ g.pc = pc
<1>1. run[m] \in Task BY DEF TypeOK
<1> QED BY <1>1 DEF Goto, Keeps, Task

LEMMA ResolveMoves ==
  ASSUME TypeOK, NEW m \in Messages, Resolve(m)
  PROVE  LET t == run[m]
             u == run'[m]
         IN  /\ t.pc = "resolve" /\ UNCHANGED <<sessions, chat>>
             /\ u.kind = t.kind /\ u.attempt = t.attempt /\ u.bot = t.bot /\ u.saved = t.saved
             /\ u.sent = t.sent /\ u.query = t.query
             /\ \/ u.sid = 0 /\ u.pc = "create" /\ \A s \in DOMAIN sessions : ~Open(s)
                \/ /\ u.sid \in DOMAIN sessions /\ Open(u.sid) /\ u.row = sessions[u.sid]
                   /\ u.pc \in {"end", "activate"}
<1> DEFINE s == NewestOpen
           pc == IF s = 0 THEN "create" ELSE IF run[m].kind = "reset" THEN "end" ELSE "activate"
           row == IF s = 0 THEN run[m].row ELSE sessions[s]
           u == [run[m] EXCEPT !.pc = pc, !.sid = s, !.row = row]
<1>1. run[m] \in Task BY DEF TypeOK
<1>2. Step(m, u) BY <1>1 DEF Resolve, Task
<1>3. run'[m] = u BY <1>2, Set
<1>4. \/ s = 0 /\ \A i \in DOMAIN sessions : ~Open(i)
      \/ s # 0 /\ s \in DOMAIN sessions /\ Open(s)
  BY NewestIsOpen
<1>5. pc \in {"create", "end", "activate"} /\ (s = 0 => pc = "create")
      /\ (s # 0 => pc \in {"end", "activate"} /\ row = sessions[s])
  OBVIOUS
<1> HIDE DEF s, pc, row
<1>6. /\ u.kind = run[m].kind /\ u.attempt = run[m].attempt /\ u.bot = run[m].bot
      /\ u.saved = run[m].saved /\ u.sent = run[m].sent /\ u.query = run[m].query
      /\ u.sid = s /\ u.pc = pc /\ u.row = row
  BY <1>1 DEF Task
<1> HIDE DEF u
<1> QED BY <1>3, <1>4, <1>5, <1>6 DEF Resolve

LEMMA EndOldMoves ==
  ASSUME TypeOK, NEW m \in Messages, Progress(m), EndOld(m)
  PROVE  LET t == run[m]
             u == run'[m]
         IN  /\ t.pc = "end" /\ UNCHANGED chat /\ Keeps(u, t) /\ u.pc = "create"
             /\ t.sid \in DOMAIN sessions /\ DOMAIN sessions' = DOMAIN sessions
             /\ \A i \in DOMAIN sessions :
                  sessions'[i] = IF i = t.sid THEN EndedRow(t.row) ELSE sessions[i]
<1>1. run[m].pc = "end" /\ UNCHANGED chat /\ Step(m, Goto(m, "create")) BY DEF EndOld
<1>2. run[m].sid \in DOMAIN sessions BY <1>1, InSession DEF Progress, Holding
<1>3. EndedRow(run[m].row) \in Row BY RowsTyped DEF TypeOK, Task
<1>4. sessions' = [sessions EXCEPT ![run[m].sid] = EndedRow(run[m].row)] BY DEF EndOld, SaveRow
<1>5. /\ DOMAIN sessions' = DOMAIN sessions
      /\ \A i \in DOMAIN sessions :
           sessions'[i] = IF i = run[m].sid THEN EndedRow(run[m].row) ELSE sessions[i]
  BY <1>2, <1>3, <1>4, RowSaved
<1>6. run'[m] = Goto(m, "create") BY <1>1, Set
<1> QED BY <1>1, <1>2, <1>5, <1>6, GotoFields

LEMMA CreateSessionMoves ==
  ASSUME TypeOK, NEW m \in Messages, CreateSession(m)
  PROVE  LET t == run[m]
             u == run'[m]
         IN  /\ t.pc = "create" /\ u.kind = t.kind /\ u.attempt = t.attempt /\ u.bot = t.bot
             /\ u.saved = t.saved /\ u.sent = t.sent /\ u.query = t.query
             /\ u.sid = Len(sessions) + 1 /\ u.row = NewRow("setup")
             /\ u.pc = "activate" \/ (u.kind = "reset" /\ u.pc = Terminal /\ u.reply = "early")
             /\ DOMAIN sessions' = DOMAIN sessions \cup {u.sid} /\ u.sid \notin DOMAIN sessions
             /\ DOMAIN chat' = DOMAIN sessions'
             /\ sessions'[u.sid] = NewRow("setup")
             /\ \A s \in DOMAIN sessions : sessions'[s] = sessions[s] /\ chat'[s] = chat[s]
<1> DEFINE n == Len(sessions) + 1
           t == [run[m] EXCEPT !.sid = n, !.row = NewRow("setup"), !.pc = "activate"]
           u == IF t.kind = "reset" THEN Early(t) ELSE t
<1>0. run[m].pc = "create" /\ Len(sessions) < MaxSessions BY DEF CreateSession
<1>1. run[m] \in Task BY DEF TypeOK
<1>2. n \in 0 .. MaxSessions /\ NewRow("setup") \in Row
  BY <1>0, Domains, PipelineAssumption, RowsTyped DEF OpenStatuses
<1>3. run'[m] = u
  <2>1. Step(m, u) BY DEF CreateSession
  <2> QED BY <2>1, Set
<1>4. /\ Len(sessions') = n /\ sessions'[n] = NewRow("setup")
      /\ \A s \in DOMAIN sessions : sessions'[s] = sessions[s]
      /\ Acts(m)
  BY CreateSessionActs
<1>5. /\ DOMAIN sessions = 1 .. Len(sessions) /\ DOMAIN sessions' = 1 .. n /\ Len(sessions) \in Nat
      /\ DOMAIN chat = DOMAIN sessions /\ DOMAIN chat' = DOMAIN sessions'
  <2>1. TypeOK' BY <1>4 DEF Acts
  <2>2. sessions' \in Seq(Row) /\ chat' \in Seq(History) /\ Len(chat') = Len(sessions') BY <2>1 DEF TypeOK
  <2> QED BY <1>4, <2>2, Domains, LenProperties
<1>6. \A s \in DOMAIN sessions : chat'[s] = chat[s]
  <2>1. chat' = Append(chat, NoHistory) BY DEF CreateSession
  <2>2. chat \in Seq(History) /\ NoHistory \in History BY DEF TypeOK, NoHistory, History
  <2>3. Len(chat) = Len(sessions) BY DEF TypeOK
  <2> QED BY <1>5, <2>1, <2>2, <2>3, AppendProperties
<1>7. n \notin DOMAIN sessions /\ DOMAIN sessions' = DOMAIN sessions \cup {n} BY <1>5
<1> HIDE DEF n
<1>8. /\ t \in Task /\ t.kind = run[m].kind /\ t.attempt = run[m].attempt /\ t.bot = run[m].bot
      /\ t.saved = run[m].saved /\ t.sent = run[m].sent /\ t.query = run[m].query
      /\ t.sid = n /\ t.row = NewRow("setup") /\ t.pc = "activate"
  BY <1>1, <1>2 DEF Task
<1> HIDE DEF t
<1>9. u = t \/ (t.kind = "reset" /\ AnswersEarly(u, t)) BY <1>8, Fields
<1> HIDE DEF u
<1>10. /\ u.kind = run[m].kind /\ u.attempt = run[m].attempt /\ u.bot = run[m].bot
       /\ u.saved = run[m].saved /\ u.sent = run[m].sent /\ u.query = run[m].query
       /\ u.sid = n /\ u.row = NewRow("setup")
       /\ u.pc = "activate" \/ (u.kind = "reset" /\ u.pc = Terminal /\ u.reply = "early")
  BY <1>8, <1>9 DEF AnswersEarly, Keeps
<1> QED BY <1>0, <1>3, <1>4, <1>5, <1>6, <1>7, <1>10 DEF n

LEMMA ActivateMoves ==
  ASSUME TypeOK, NEW m \in Messages, Progress(m), Activate(m)
  PROVE  LET t == run[m]
             u == run'[m]
         IN  /\ t.pc = "activate" /\ UNCHANGED chat /\ Keeps(u, t) /\ u.pc = "record"
             /\ t.sid \in DOMAIN sessions /\ DOMAIN sessions' = DOMAIN sessions
             /\ \/ channel.form /\ UNCHANGED sessions /\ u.row = t.row
                \/ /\ ~channel.form /\ u.row = [t.row EXCEPT !.status = "active"]
                   /\ \/ UNCHANGED sessions /\ u.row = t.row
                      \/ \A i \in DOMAIN sessions :
                           sessions'[i] = IF i = t.sid THEN u.row ELSE sessions[i]
<1>1. run[m].pc = "activate" /\ UNCHANGED chat BY DEF Activate
<1>2. run[m].sid \in DOMAIN sessions BY <1>1, InSession DEF Progress, Holding
<1> DEFINE g == Goto(m, "record")
<1>3. g \in Task /\ Keeps(g, run[m]) /\ g.row = run[m].row /\ g.pc = "record" BY GotoTyped, GotoFields
<1>4. CASE channel.form
  <2>1. UNCHANGED sessions /\ Step(m, g) BY <1>4 DEF Activate
  <2>2. run'[m] = g BY <2>1, Set
  <2> HIDE DEF g
  <2> QED BY <1>1, <1>2, <1>3, <1>4, <2>1, <2>2
<1>5. CASE ~channel.form
  <2>1. UpdateStatus(m, "active", g) BY <1>5 DEF Activate
  <2> HIDE DEF g
  <2> DEFINE row == [run[m].row EXCEPT !.status = "active"]
             u == [g EXCEPT !.row = row]
  <2>2. /\ row \in Row /\ u \in Task /\ run' = [run EXCEPT ![m] = u] /\ DOMAIN sessions' = DOMAIN sessions
        /\ \/ row = run[m].row /\ sessions' = sessions
           \/ \A i \in DOMAIN sessions : sessions'[i] = IF i = run[m].sid THEN row ELSE sessions[i]
    BY <1>2, <1>3, <2>1, Updated DEF OpenStatuses
  <2>3. run'[m] = u BY <2>2 DEF TypeOK
  <2> HIDE DEF row
  <2>4. Keeps(u, g) /\ u.row = row /\ u.pc = g.pc BY <1>3 DEF Keeps, Task
  <2> HIDE DEF u
  <2> QED BY <1>1, <1>2, <1>3, <1>5, <2>2, <2>3, <2>4 DEF Keeps, row
<1> QED BY <1>4, <1>5

LEMMA RefuseTypeMoves ==
  ASSUME TypeOK, NEW m \in Messages, Progress(m), RefuseType(m)
  PROVE  LET t == run[m]
             u == run'[m]
         IN  /\ t.pc = "record" /\ t.kind = "unsupported" /\ UNCHANGED sessions
             /\ AnswersEarly(u, t) /\ t.sid \in DOMAIN chat /\ (Answer(t.sid, m) \/ UNCHANGED chat)
<1>1. run[m] \in Task BY DEF TypeOK
<1>2. run[m].pc = "record" /\ run[m].kind = "unsupported" /\ UNCHANGED sessions
      /\ Step(m, Early(run[m])) /\ (Answer(run[m].sid, m) \/ UNCHANGED chat)
  BY DEF RefuseType
<1>3. run'[m] = Early(run[m]) BY <1>2, Set
<1>4. run[m].sid \in DOMAIN chat BY <1>2, InSession DEF Progress, Holding
<1> QED BY <1>1, <1>2, <1>3, <1>4, Fields

LEMMA RecordMoves ==
  ASSUME TypeOK, NEW m \in Messages, Progress(m), Record(m)
  PROVE  LET t == run[m]
             u == run'[m]
         IN  /\ t.pc = "record" /\ t.kind # "unsupported" /\ UNCHANGED sessions /\ t.sid \in DOMAIN chat
             /\ \/ /\ Ask(t.sid, m) /\ u.pc = "consent" /\ u.query = m /\ u.row = t.row
                   /\ u.kind = t.kind /\ u.attempt = t.attempt /\ u.sid = t.sid /\ u.bot = t.bot
                   /\ u.saved = t.saved /\ u.sent = t.sent
                \/ AnswersEarly(u, t) /\ UNCHANGED chat
<1>1. run[m] \in Task BY DEF TypeOK
<1>2. run[m].pc = "record" /\ run[m].kind # "unsupported" /\ UNCHANGED sessions BY DEF Record
<1>3. run[m].sid \in DOMAIN chat BY <1>2, InSession DEF Progress, Holding
<1>4. CASE /\ Ask(run[m].sid, m)
           /\ Step(m, [run[m] EXCEPT !.pc = "consent", !.human = TRUE, !.query = m])
  <2>1. run'[m] = [run[m] EXCEPT !.pc = "consent", !.human = TRUE, !.query = m] BY <1>4, Set
  <2> QED BY <1>1, <1>2, <1>3, <1>4, <2>1 DEF Task
<1>5. CASE Step(m, [Early(run[m]) EXCEPT !.raises = TRUE]) /\ UNCHANGED chat
  <2>1. run'[m] = [Early(run[m]) EXCEPT !.raises = TRUE] BY <1>5, Set
  <2> QED BY <1>1, <1>2, <1>3, <1>5, <2>1, Fields
<1> QED BY <1>4, <1>5 DEF Record

\* The consent conversation takes place, at this status of the copy.
Conversing(t, status) == channel.conv /\ channel.form /\ t.row.status = status

LEMMA ConsentFlowMoves ==
  ASSUME TypeOK, NEW m \in Messages, Progress(m), ConsentFlow(m)
  PROVE  LET t == run[m]
             u == run'[m]
             updated(status) ==
               \/ UNCHANGED sessions /\ [t.row EXCEPT !.status = status] = t.row
               \/ \A i \in DOMAIN sessions :
                    sessions'[i] = IF i = t.sid THEN [t.row EXCEPT !.status = status] ELSE sessions[i]
         IN  /\ t.pc = "consent" /\ UNCHANGED chat /\ t.sid \in DOMAIN sessions
             /\ DOMAIN sessions' = DOMAIN sessions
             /\ u.kind = t.kind /\ u.attempt = t.attempt /\ u.sid = t.sid /\ u.bot = t.bot
             /\ u.saved = t.saved /\ u.sent = t.sent
             /\ \/ /\ ~(channel.conv /\ channel.form /\ t.row.status \in {"setup", "pending"})
                   /\ u.query = t.query /\ u.row = t.row /\ u.pc = "bot" /\ UNCHANGED sessions
                \/ /\ Conversing(t, "setup") /\ updated("pending") /\ u.query = t.query
                   /\ u.pc = Terminal /\ u.reply = "early" /\ u.row = [t.row EXCEPT !.status = "pending"]
                \/ /\ AnswersEarly(u, t) /\ UNCHANGED sessions
                \/ /\ Conversing(t, "pending") /\ t.kind = "token" /\ updated("active")
                   /\ u.row = [t.row EXCEPT !.status = "active"]
                   /\ \/ u.pc = "bot" /\ u.query = "seed"
                      \/ u.pc = "bot" /\ u.query = chat[t.sid].first /\ ~IsToken(chat[t.sid].first)
                      \/ u.pc = "done" /\ u.query = t.query
<1>1. run[m] \in Task BY DEF TypeOK
<1>2. run[m].pc = "consent" /\ UNCHANGED chat BY DEF ConsentFlow
<1>3. run[m].sid \in DOMAIN sessions BY <1>2, InSession DEF Progress, Holding
<1> DEFINE original == chat[run[m].sid].first
           early == Early(run[m])
           go == Goto(m, "bot")
           ask == [go EXCEPT !.query = original]
           seed == [go EXCEPT !.query = "seed"]
           stop == Finish(run[m], "silent")
           next == IF Substantive(original) THEN ask ELSE IF channel.seed THEN seed ELSE stop
           row(status) == [run[m].row EXCEPT !.status = status]
<1>4. early \in Task /\ AnswersEarly(early, run[m]) BY <1>1, TasksTyped, Fields
<1>5. go \in Task /\ Keeps(go, run[m]) /\ go.row = run[m].row /\ go.pc = "bot" BY GotoTyped, GotoFields
<1>6. stop \in Task /\ Ends(stop, run[m]) BY <1>1, TasksTyped, Fields
<1>7. original \in Messages \cup {"none"} BY <1>3, Domains DEF History
<1>8. ASSUME NEW status \in OpenStatuses, NEW v \in Task, UpdateStatus(m, status, v)
      PROVE  /\ Keeps(run'[m], v) /\ run'[m].row = row(status) /\ run'[m].pc = v.pc
             /\ run'[m].reply = v.reply /\ DOMAIN sessions' = DOMAIN sessions
             /\ \/ UNCHANGED sessions /\ row(status) = run[m].row
                \/ \A i \in DOMAIN sessions :
                     sessions'[i] = IF i = run[m].sid THEN row(status) ELSE sessions[i]
  <2> DEFINE u == [v EXCEPT !.row = row(status)]
  <2>0. UpdateStatus(m, status, v) BY <1>8
  <2>1. /\ row(status) \in Row /\ u \in Task /\ run' = [run EXCEPT ![m] = u]
        /\ DOMAIN sessions' = DOMAIN sessions
        /\ \/ row(status) = run[m].row /\ sessions' = sessions
           \/ \A i \in DOMAIN sessions : sessions'[i] = IF i = run[m].sid THEN row(status) ELSE sessions[i]
    BY <1>3, <2>0, Updated
  <2>2. run'[m] = u BY <2>1 DEF TypeOK
  <2> HIDE DEF row
  <2>3. Keeps(u, v) /\ u.row = row(status) /\ u.pc = v.pc /\ u.reply = v.reply BY DEF Keeps, Task
  <2> HIDE DEF u
  <2> QED BY <2>1, <2>2, <2>3
<1> DEFINE a == /\ ~(channel.conv /\ channel.form /\ run[m].row.status \in {"setup", "pending"})
                /\ Step(m, go) /\ UNCHANGED sessions
           b == Conversing(run[m], "setup") /\ UpdateStatus(m, "pending", early)
           c == Step(m, early) /\ UNCHANGED sessions
           d == Conversing(run[m], "pending") /\ GaveConsent(m) /\ UpdateStatus(m, "active", next)
<1>9. a \/ b \/ c \/ d BY DEF ConsentFlow, Conversing
<1> HIDE DEF go, early, stop, original
<1>10. {"pending", "active"} \subseteq OpenStatuses BY DEF OpenStatuses
<1>11. CASE a
  <2>1. run'[m] = go BY <1>11, Set
  <2> QED BY <1>2, <1>3, <1>5, <1>11, <2>1 DEF Keeps
<1>12. CASE b
  <2>1. UpdateStatus(m, "pending", early) BY <1>12
  <2>2. /\ Keeps(run'[m], early) /\ run'[m].row = row("pending") /\ run'[m].pc = early.pc
        /\ run'[m].reply = early.reply /\ DOMAIN sessions' = DOMAIN sessions
        /\ \/ UNCHANGED sessions /\ row("pending") = run[m].row
           \/ \A i \in DOMAIN sessions :
                sessions'[i] = IF i = run[m].sid THEN row("pending") ELSE sessions[i]
    BY <1>4, <1>8, <1>10, <2>1
  <2> QED BY <1>2, <1>3, <1>4, <1>12, <2>2 DEF AnswersEarly, Keeps
<1>13. CASE c
  <2>1. run'[m] = early BY <1>13, Set
  <2> QED BY <1>2, <1>3, <1>4, <1>13, <2>1 DEF AnswersEarly, Keeps
<1>14. CASE d
  <2>1. ask \in Task /\ ask.query = original /\ ask.pc = "bot" /\ ask.kind = run[m].kind
        /\ ask.attempt = run[m].attempt /\ ask.sid = run[m].sid /\ ask.bot = run[m].bot
        /\ ask.saved = run[m].saved /\ ask.sent = run[m].sent
    BY <1>5, <1>7 DEF Keeps, Task
  <2>2. seed \in Task /\ seed.query = "seed" /\ seed.pc = "bot" /\ seed.kind = run[m].kind
        /\ seed.attempt = run[m].attempt /\ seed.sid = run[m].sid /\ seed.bot = run[m].bot
        /\ seed.saved = run[m].saved /\ seed.sent = run[m].sent
    BY <1>5 DEF Keeps, Task
  <2> HIDE DEF ask, seed
  <2>3. next \in Task BY <1>6, <2>1, <2>2
  <2>4. /\ next.kind = run[m].kind /\ next.attempt = run[m].attempt /\ next.sid = run[m].sid
        /\ next.bot = run[m].bot /\ next.saved = run[m].saved /\ next.sent = run[m].sent
        /\ \/ next.pc = "bot" /\ next.query = "seed"
           \/ next.pc = "bot" /\ next.query = original /\ ~IsToken(original)
           \/ next.pc = "done" /\ next.query = run[m].query
    BY <1>6, <2>1, <2>2 DEF Ends, Keeps, Substantive
  <2>5. UpdateStatus(m, "active", next) /\ run[m].kind = "token" BY <1>14 DEF GaveConsent, IsToken
  <2> HIDE DEF next
  <2>6. /\ Keeps(run'[m], next) /\ run'[m].row = row("active") /\ run'[m].pc = next.pc
        /\ DOMAIN sessions' = DOMAIN sessions
        /\ \/ UNCHANGED sessions /\ row("active") = run[m].row
           \/ \A i \in DOMAIN sessions :
                sessions'[i] = IF i = run[m].sid THEN row("active") ELSE sessions[i]
    BY <1>8, <1>10, <2>3, <2>5
  <2> QED BY <1>2, <1>3, <1>14, <2>4, <2>5, <2>6 DEF Keeps, original
<1> QED BY <1>9, <1>11, <1>12, <1>13, <1>14

LEMMA AskBotMoves ==
  ASSUME TypeOK, NEW m \in Messages, Progress(m), AskBot(m)
  PROVE  LET t == run[m]
             u == run'[m]
         IN  /\ t.pc = "bot" /\ UNCHANGED sessions /\ t.sid \in DOMAIN chat
             /\ \/ /\ Answer(t.sid, m) /\ u.pc = "save" /\ u.bot /\ u.reply = "bot" /\ u.row = t.row
                   /\ u.kind = t.kind /\ u.attempt = t.attempt /\ u.sid = t.sid /\ u.query = t.query
                   /\ u.saved = t.saved /\ u.sent = t.sent
                \/ AnswersEarly(u, t) /\ UNCHANGED chat
                \/ Ends(u, t) /\ u.outcome = "cancelled" /\ UNCHANGED chat
<1>1. run[m] \in Task BY DEF TypeOK
<1>2. run[m].pc = "bot" /\ UNCHANGED sessions BY DEF AskBot
<1>3. run[m].sid \in DOMAIN chat BY <1>2, InSession DEF Progress, Holding
<1>4. CASE Answer(run[m].sid, m) /\ Step(m, [Goto(m, "save") EXCEPT !.bot = TRUE, !.reply = "bot"])
  <2> DEFINE g == Goto(m, "save")
             u == [g EXCEPT !.bot = TRUE, !.reply = "bot"]
  <2>1. g \in Task /\ Keeps(g, run[m]) /\ g.row = run[m].row /\ g.pc = "save" BY GotoTyped, GotoFields
  <2>2. run'[m] = u BY <1>4, Set
  <2> HIDE DEF g
  <2>3. /\ u.pc = "save" /\ u.bot /\ u.reply = "bot" /\ u.row = run[m].row /\ u.kind = run[m].kind
        /\ u.attempt = run[m].attempt /\ u.sid = run[m].sid /\ u.query = run[m].query
        /\ u.saved = run[m].saved /\ u.sent = run[m].sent
    BY <2>1 DEF Task, Keeps
  <2> HIDE DEF u
  <2> QED BY <1>2, <1>3, <1>4, <2>2, <2>3
<1>5. CASE BotFails(m) /\ UNCHANGED chat
  <2>1. AnswersEarly(run'[m], run[m]) \/ (Ends(run'[m], run[m]) /\ run'[m].outcome = "cancelled")
    BY <1>1, <1>5, Set, Fields DEF BotFails
  <2> QED BY <1>2, <1>3, <1>5, <2>1
<1> QED BY <1>4, <1>5 DEF AskBot

LEMMA SaveStateMoves ==
  ASSUME TypeOK, NEW m \in Messages, Progress(m), SaveState(m)
  PROVE  LET t == run[m]
             u == run'[m]
         IN  /\ t.pc = "save" /\ UNCHANGED chat /\ t.sid \in DOMAIN sessions
             /\ DOMAIN sessions' = DOMAIN sessions
             /\ u.kind = t.kind /\ u.attempt = t.attempt /\ u.sid = t.sid /\ u.query = t.query
             /\ u.bot = t.bot /\ u.saved /\ u.sent = t.sent /\ u.pc = Terminal
             /\ u.reply = t.reply \/ u.reply = "early"
             /\ u.row.state = t.row.state \cup {m}
             /\ u.row.status = t.row.status \/ u.row.status = "pending_review"
             /\ \A i \in DOMAIN sessions \ {t.sid} : sessions'[i] = sessions[i]
             /\ sessions'[t.sid].state = t.row.state \cup {m}
             /\ \/ sessions'[t.sid].status = "pending_review" /\ sessions'[t.sid].ended
                \/ /\ sessions'[t.sid].status = sessions[t.sid].status
                   /\ sessions'[t.sid].ended = sessions[t.sid].ended
<1>1. run[m] \in Task /\ run[m].row \in Row BY DEF TypeOK, Task
<1>2. run[m].pc = "save" /\ UNCHANGED chat BY DEF SaveState
<1> DEFINE t == run[m]
           s == run[m].sid
           row == [run[m].row EXCEPT !.state = AddTurn(@, m)]
<1>3. s \in DOMAIN sessions BY <1>2, InSession DEF Progress, Holding
<1>4. PICK ends, fails \in BOOLEAN :
        LET saved == IF ends THEN EndedRow(row) ELSE row
        IN  /\ IF ends THEN SaveRow(s, saved) ELSE sessions' = [sessions EXCEPT ![s].state = row.state]
            /\ Step(m, Formatted([run[m] EXCEPT !.row = saved, !.saved = TRUE], fails))
  BY DEF SaveState
<1>5. row \in Row /\ row.state = t.row.state \cup {m} /\ row.status = t.row.status
  BY <1>1 DEF Row, AddTurn
<1> DEFINE saved == IF ends THEN EndedRow(row) ELSE row
           v == [run[m] EXCEPT !.row = saved, !.saved = TRUE]
           u == Formatted(v, fails)
<1>6. saved \in Row /\ saved.state = t.row.state \cup {m}
      /\ (saved.status = t.row.status \/ saved.status = "pending_review")
      /\ (ends => saved.status = "pending_review" /\ saved.ended)
  <2> HIDE DEF row
  <2>1. EndedRow(row) \in Row /\ EndedRow(row).state = row.state
        /\ EndedRow(row).status = "pending_review" /\ EndedRow(row).ended
    BY <1>5, RowsTyped DEF EndedRow, Row
  <2> QED BY <1>5, <2>1
<1>7. /\ DOMAIN sessions' = DOMAIN sessions
      /\ \A i \in DOMAIN sessions \ {s} : sessions'[i] = sessions[i]
      /\ sessions'[s].state = t.row.state \cup {m}
      /\ \/ sessions'[s].status = "pending_review" /\ sessions'[s].ended
         \/ sessions'[s].status = sessions[s].status /\ sessions'[s].ended = sessions[s].ended
  <2>1. CASE ends
    <3>1. sessions' = [sessions EXCEPT ![s] = saved] BY <1>4, <2>1 DEF SaveRow
    <3>2. DOMAIN sessions' = DOMAIN sessions
          /\ \A i \in DOMAIN sessions : sessions'[i] = IF i = s THEN saved ELSE sessions[i]
      BY <1>3, <1>6, <3>1, RowSaved
    <3> HIDE DEF saved, s
    <3> QED BY <1>3, <1>6, <2>1, <3>2
  <2>2. CASE ~ends
    <3> DEFINE r == [sessions[s] EXCEPT !.state = row.state]
    <3>0. sessions[s] \in Row BY <1>3, Domains
    <3>1. sessions' = [sessions EXCEPT ![s] = r] BY <1>4, <2>2
    <3> HIDE DEF row
    <3>2. r \in Row /\ r.state = row.state /\ r.status = sessions[s].status /\ r.ended = sessions[s].ended
      BY <1>5, <3>0 DEF Row
    <3> HIDE DEF r
    <3>3. DOMAIN sessions' = DOMAIN sessions
          /\ \A i \in DOMAIN sessions : sessions'[i] = IF i = s THEN r ELSE sessions[i]
      BY <1>3, <3>1, <3>2, RowSaved
    <3> QED BY <1>3, <1>5, <3>2, <3>3
  <2> QED BY <2>1, <2>2
<1>8. run'[m] = u BY <1>4, Set
<1> HIDE DEF saved
<1>9. /\ v \in Task /\ v.kind = t.kind /\ v.attempt = t.attempt /\ v.sid = t.sid /\ v.query = t.query
      /\ v.bot = t.bot /\ v.saved /\ v.sent = t.sent /\ v.reply = t.reply /\ v.row = saved
  BY <1>1, <1>6 DEF Task
<1> HIDE DEF v
<1>10. /\ u.kind = v.kind /\ u.attempt = v.attempt /\ u.sid = v.sid /\ u.query = v.query
       /\ u.bot = v.bot /\ u.saved = v.saved /\ u.sent = v.sent /\ u.pc = Terminal /\ u.row = v.row
       /\ u.reply = v.reply \/ u.reply = "early"
  <2> DEFINE k == [v EXCEPT !.pc = Terminal]
  <2>1. Keeps(k, v) /\ k.row = v.row /\ k.pc = Terminal /\ k.reply = v.reply BY <1>9 DEF Keeps, Task
  <2>2. AnswersEarly([Early(v) EXCEPT !.raises = TRUE], v) BY <1>9, Fields
  <2>3. u = k \/ u = [Early(v) EXCEPT !.raises = TRUE] BY DEF Formatted
  <2> HIDE DEF k
  <2> QED BY <2>1, <2>2, <2>3 DEF AnswersEarly, Keeps
<1> HIDE DEF u
<1> QED BY <1>2, <1>3, <1>6, <1>7, <1>8, <1>9, <1>10

LEMMA SendMoves ==
  ASSUME TypeOK, NEW m \in Messages, Progress(m), Send(m)
  PROVE  LET t == run[m]
             u == run'[m]
         IN  /\ t.pc = "send" /\ t.kind # "adhoc" /\ UNCHANGED <<sessions, chat>>
             /\ u.kind = t.kind /\ u.attempt = t.attempt /\ u.sid = t.sid /\ u.query = t.query
             /\ u.bot = t.bot /\ u.saved = t.saved
             /\ \/ u.pc = "persist" /\ u.reply = t.reply /\ u.row = t.row
                \/ u.pc = "done" /\ t.reply = "bot"
<1>1. run[m] \in Task BY DEF TypeOK
<1>2. run[m].pc = "send" /\ run[m].kind # "adhoc" /\ UNCHANGED <<sessions, chat>> BY DEF Send
<1> DEFINE g == Goto(m, "persist")
           f == [run[m] EXCEPT !.sent = TRUE]
<1>3. g \in Task /\ Keeps(g, run[m]) /\ g.row = run[m].row /\ g.reply = run[m].reply /\ g.pc = "persist"
  BY GotoTyped, GotoFields
<1>4. /\ f \in Task /\ f.kind = run[m].kind /\ f.attempt = run[m].attempt /\ f.sid = run[m].sid
      /\ f.query = run[m].query /\ f.bot = run[m].bot /\ f.saved = run[m].saved
  BY <1>1 DEF Task
<1>5. \/ \E through \in BOOLEAN : Step(m, [g EXCEPT !.sent = run[m].sent \/ through])
      \/ Step(m, g)
      \/ run[m].reply = "bot" /\ Step(m, Finish(f, "raised"))
  BY DEF Send, UnknownFailure
<1> HIDE DEF g, f
<1>6. CASE \E through \in BOOLEAN : Step(m, [g EXCEPT !.sent = run[m].sent \/ through])
  <2>1. PICK through \in BOOLEAN : Step(m, [g EXCEPT !.sent = run[m].sent \/ through]) BY <1>6
  <2> DEFINE u == [g EXCEPT !.sent = run[m].sent \/ through]
  <2>2. run'[m] = u BY <2>1, Set
  <2>3. /\ u.kind = g.kind /\ u.attempt = g.attempt /\ u.sid = g.sid /\ u.query = g.query
        /\ u.bot = g.bot /\ u.saved = g.saved /\ u.pc = g.pc /\ u.reply = g.reply /\ u.row = g.row
    BY <1>3 DEF Task
  <2> HIDE DEF u
  <2> QED BY <1>2, <1>3, <2>2, <2>3 DEF Keeps
<1>7. CASE Step(m, g)
  <2>1. run'[m] = g BY <1>7, Set
  <2> QED BY <1>2, <1>3, <2>1 DEF Keeps
<1>8. CASE run[m].reply = "bot" /\ Step(m, Finish(f, "raised"))
  <2>1. run'[m] = Finish(f, "raised") BY <1>8, Set
  <2>2. Ends(run'[m], f) BY <1>4, <2>1, Fields
  <2> QED BY <1>2, <1>4, <1>8, <2>2 DEF Ends, Keeps
<1> QED BY <1>5, <1>6, <1>7, <1>8

LEMMA PersistMoves ==
  ASSUME TypeOK, NEW m \in Messages, Progress(m), Persist(m)
  PROVE  LET t == run[m]
             u == run'[m]
         IN  /\ t.pc = "persist" /\ Ends(u, t)
             /\ IF StoresAnswer(t) THEN Answer(t.sid, m) /\ t.sid \in DOMAIN chat ELSE UNCHANGED chat
             /\ DOMAIN sessions' = DOMAIN sessions
             /\ \A i \in DOMAIN sessions : /\ sessions'[i].status = sessions[i].status
                                           /\ sessions'[i].ended = sessions[i].ended
                                           /\ sessions'[i].state = sessions[i].state
<1>1. run[m] \in Task /\ run[m].row \in Row /\ run[m].version \in Versions BY DEF TypeOK, Task
<1>2. run[m].pc = "persist" BY DEF Persist, AtPersist
<1> DEFINE t == run[m]
           s == run[m].sid
           versions == t.row.versions \cup {t.version}
           outcome == IF t.raises THEN "raised" ELSE "answered"
<1>3. /\ IF StoresAnswer(t) THEN Answer(s, m) ELSE UNCHANGED chat
      /\ IF s = 0 \/ versions = t.row.versions THEN UNCHANGED sessions
         ELSE sessions' = [sessions EXCEPT ![s].versions = versions]
      /\ Step(m, Finish(t, outcome))
  BY DEF Persist
<1>4. s # 0 => s \in DOMAIN sessions /\ s \in DOMAIN chat BY InSession
<1>5. /\ DOMAIN sessions' = DOMAIN sessions
      /\ \A i \in DOMAIN sessions : /\ sessions'[i].status = sessions[i].status
                                    /\ sessions'[i].ended = sessions[i].ended
                                    /\ sessions'[i].state = sessions[i].state
  <2>1. CASE UNCHANGED sessions BY <2>1
  <2>2. CASE s # 0 /\ sessions' = [sessions EXCEPT ![s].versions = versions]
    <3> DEFINE r == [sessions[s] EXCEPT !.versions = versions]
    <3>0. sessions[s] \in Row BY <1>4, <2>2, Domains
    <3>1. versions \in SUBSET Versions BY <1>1 DEF Row
    <3>2. sessions' = [sessions EXCEPT ![s] = r] BY <2>2
    <3> HIDE DEF versions
    <3>3. r \in Row /\ r.status = sessions[s].status /\ r.ended = sessions[s].ended
          /\ r.state = sessions[s].state
      BY <3>0, <3>1 DEF Row
    <3> HIDE DEF r
    <3>4. DOMAIN sessions' = DOMAIN sessions
          /\ \A i \in DOMAIN sessions : sessions'[i] = IF i = s THEN r ELSE sessions[i]
      BY <1>4, <2>2, <3>2, <3>3, RowSaved
    <3> QED BY <3>3, <3>4
  <2> QED BY <1>3, <2>1, <2>2
<1>6. run'[m] = Finish(t, outcome) BY <1>3, Set
<1>7. Ends(run'[m], t) BY <1>1, <1>6, Fields
<1>8. StoresAnswer(t) => s \in DOMAIN chat BY <1>4 DEF StoresAnswer, Persists
<1> QED BY <1>2, <1>3, <1>5, <1>7, <1>8

LEMMA SendAdHocMoves ==
  ASSUME TypeOK, NEW m \in Messages, Progress(m), SendAdHoc(m)
  PROVE  LET t == run[m]
             u == run'[m]
         IN  /\ t.pc = "send" /\ t.kind = "adhoc" /\ UNCHANGED sessions /\ t.sid \in DOMAIN chat
             /\ u.kind = t.kind /\ u.attempt = t.attempt /\ u.sid = t.sid /\ u.query = t.query
             /\ u.bot = t.bot /\ u.saved = t.saved /\ u.pc = "done"
             /\ (u.outcome = "raised" /\ UNCHANGED chat) \/ Answer(t.sid, m)
<1>1. run[m] \in Task BY DEF TypeOK
<1>2. run[m].pc = "send" /\ run[m].kind = "adhoc" /\ UNCHANGED sessions BY DEF SendAdHoc
<1>3. run[m].sid \in DOMAIN chat BY <1>2, InSession DEF Progress
<1>4. PICK sent \in BOOLEAN, outcome \in {"answered", "raised"} :
        /\ Step(m, Finish([run[m] EXCEPT !.sent = sent], outcome))
        /\ (outcome = "raised" /\ UNCHANGED chat) \/ Answer(run[m].sid, m)
  <2>1. run[m].sent \in BOOLEAN /\ [run[m] EXCEPT !.sent = run[m].sent] = run[m] BY <1>1 DEF Task
  <2>2. \/ /\ \E through \in BOOLEAN : Step(m, Finish([run[m] EXCEPT !.sent = through], "answered"))
           /\ Answer(run[m].sid, m)
        \/ Step(m, Finish(run[m], "answered")) /\ Answer(run[m].sid, m)
        \/ Step(m, Finish([run[m] EXCEPT !.sent = TRUE], "raised")) /\ UNCHANGED chat
    BY DEF SendAdHoc
  <2> QED BY <2>1, <2>2
<1> DEFINE f == [run[m] EXCEPT !.sent = sent]
<1>5. /\ f \in Task /\ f.kind = run[m].kind /\ f.attempt = run[m].attempt /\ f.sid = run[m].sid
      /\ f.query = run[m].query /\ f.bot = run[m].bot /\ f.saved = run[m].saved
  BY <1>1 DEF Task
<1>6. run'[m] = Finish(f, outcome) BY <1>4, Set
<1> HIDE DEF f
<1>7. Ends(run'[m], f) /\ run'[m].outcome = outcome BY <1>5, <1>6, Fields
<1> QED BY <1>2, <1>3, <1>4, <1>5, <1>7 DEF Ends, Keeps

-----------------------------------------------------------------------------
(* The record after each step.                                             *)

LEMMA NoAnswer ==
  ASSUME TypeOK, NEW m \in Messages, Stored(m), UNCHANGED chat, run'[m].attempt \in Nat,
         run'[m].kind # "unsupported" => run[m].kind # "unsupported",
         run'[m].attempt >= run[m].attempt,
         run[m].pc = "done" \/ run[m].bot =>
           run'[m].pc = "done" \/ run'[m].bot \/ run'[m].attempt > run[m].attempt,
         run'[m].bot => run[m].bot /\ run'[m].sid = run[m].sid
  PROVE  Stored(m)'
<1>1. run[m].attempt \in Nat BY PipelineAssumption DEF TypeOK, Task
<1>2. \A s \in DOMAIN chat : chat[s].answers[m] \in Nat BY Domains DEF History
<1>3. run'[m].bot => (Answers(run[m].sid, m) > 0)' BY DEF Stored, Answers
<1>4. ASSUME run'[m].kind # "unsupported", NEW s \in DOMAIN chat
      PROVE  chat[s].answers[m] <= run'[m].attempt + (IF run'[m].pc = "done" \/ run'[m].bot THEN 1 ELSE 0)
  <2>1. chat[s].answers[m] <= run[m].attempt + (IF run[m].pc = "done" \/ run[m].bot THEN 1 ELSE 0)
    BY <1>4 DEF Stored, Answers
  <2> QED BY <1>1, <1>2, <2>1
<1> QED BY <1>3, <1>4 DEF Stored, Answers

LEMMA OneAnswer ==
  ASSUME TypeOK, NEW m \in Messages, Stored(m), NEW s \in DOMAIN chat, Answer(s, m),
         run'[m].kind # "unsupported" => run[m].kind # "unsupported",
         run'[m].attempt = run[m].attempt, run[m].pc # "done", ~run[m].bot,
         run'[m].pc = "done" \/ run'[m].bot,
         run'[m].bot => run'[m].sid = s
  PROVE  Stored(m)' /\ (Answers(s, m) > 0)'
<1>1. run[m].attempt \in Nat BY PipelineAssumption DEF TypeOK, Task
<1>2. \A i \in DOMAIN chat : chat[i].answers[m] \in Nat BY Domains DEF History
<1>3. /\ DOMAIN chat' = DOMAIN chat
      /\ \A i \in DOMAIN chat :
           chat'[i].answers[m] = chat[i].answers[m] + (IF i = s THEN 1 ELSE 0)
  BY Answered
<1>4. (Answers(s, m) > 0)' BY <1>2, <1>3 DEF Answers
<1>5. ASSUME run'[m].kind # "unsupported", NEW i \in DOMAIN chat
      PROVE  chat'[i].answers[m] <= run'[m].attempt + 1
  <2>1. chat[i].answers[m] <= run[m].attempt + 0 BY <1>5 DEF Stored, Answers
  <2> QED BY <1>1, <1>2, <1>3, <2>1
<1>6. \A i \in DOMAIN chat' : run'[m].kind # "unsupported" =>
        Answers(i, m)' <= run'[m].attempt + (IF run'[m].pc = "done" \/ run'[m].bot THEN 1 ELSE 0)
  BY <1>3, <1>5 DEF Answers
<1> QED BY <1>4, <1>6 DEF Stored

LEMMA AfterActs ==
  ASSUME TypeOK, NEW m \in Messages, Acts(m)
  PROVE  /\ TypeOK' /\ channel' = channel /\ run'[m] \in Task /\ run'[m].attempt \in Nat
         /\ run[m].attempt \in Nat /\ run'[m].sid \in Nat /\ run[m].sid \in Nat
         /\ Len(sessions) \in Nat /\ Len(sessions') \in Nat /\ Len(sessions) <= Len(sessions')
         /\ DOMAIN sessions' = 1 .. Len(sessions') /\ DOMAIN chat' = DOMAIN sessions'
         /\ DOMAIN sessions = 1 .. Len(sessions) /\ DOMAIN chat = DOMAIN sessions
         /\ DOMAIN chat \subseteq DOMAIN chat'
         /\ \A s \in DOMAIN chat : chat[s].said \subseteq chat'[s].said
<1>1. TypeOK' /\ channel' = channel /\ Len(sessions) <= Len(sessions')
      /\ \A s \in DOMAIN chat : chat[s].said \subseteq chat'[s].said
  BY DEF Acts
<1>2. run'[m] \in Task /\ run[m] \in Task BY <1>1 DEF TypeOK
<1>3. run'[m].attempt \in Nat /\ run[m].attempt \in Nat /\ run'[m].sid \in Nat /\ run[m].sid \in Nat
  BY <1>2, PipelineAssumption DEF Task
<1>4. /\ sessions' \in Seq(Row) /\ chat' \in Seq(History) /\ Len(chat') = Len(sessions')
  BY <1>1 DEF TypeOK
<1>5. Len(sessions') \in Nat /\ DOMAIN sessions' = 1 .. Len(sessions') /\ DOMAIN chat' = DOMAIN sessions'
  BY <1>4, LenProperties
<1>6. Len(sessions) \in Nat /\ DOMAIN sessions = 1 .. Len(sessions) /\ DOMAIN chat = DOMAIN sessions
  BY Domains
<1> QED BY <1>1, <1>2, <1>3, <1>5, <1>6

Recorded(m) == Progress(m)' /\ Stored(m)' /\ Delivered(m)'

LEMMA TerminalIs == Terminal \in {"send", "persist"}
BY DEF Terminal

LEMMA StartRecorded ==
  ASSUME TypeOK, RecordInv, NEW m \in Messages, Acts(m), NEW kind \in Kinds, Start(m, kind)
  PROVE  Recorded(m)
<1>1. Progress(m) /\ Stored(m) BY DEF RecordInv
<1> DEFINE u == run'[m]
<1>2. /\ run[m].pc = "new" /\ kind # "adhoc" /\ UNCHANGED <<sessions, chat>>
      /\ u.kind = kind /\ u.attempt = run[m].attempt /\ ~u.bot /\ ~u.saved /\ ~u.sent
      /\ u.query = "none" /\ u.sid = IF channel.preset THEN 1 ELSE 0
      /\ \/ u.pc = "done"
         \/ u.pc = Terminal /\ u.reply = "early"
         \/ u.pc = "activate" /\ channel.preset
         \/ u.pc = "resolve" /\ ~channel.preset
  BY <1>1, StartMoves
<1>3. channel' = channel /\ run'[m].attempt \in Nat /\ Len(sessions) \in Nat BY AfterActs
<1>4. (u.attempt > 0 => kind = run[m].kind) /\ (u.attempt = 0 => run[m].kind = "text")
  BY <1>1, <1>2, <1>3 DEF Progress, Start
<1>5. "none" \notin Messages BY PipelineAssumption
<1>6. Progress(m)' BY <1>1, <1>2, <1>3, <1>5, TerminalIs DEF Progress, Holding, BeforeBot, BeforeRecord
<1>7. ~run[m].bot BY <1>1, <1>2 DEF Progress, BeforeBot, BeforeRecord
<1>8. Stored(m)' BY <1>1, <1>2, <1>3, <1>4, <1>7, NoAnswer
<1>9. Delivered(m)' BY <1>2 DEF Delivered
<1> QED BY <1>6, <1>8, <1>9 DEF Recorded

LEMMA StartAdHocRecorded ==
  ASSUME TypeOK, RecordInv, NEW m \in Messages, Acts(m), StartAdHoc(m)
  PROVE  Recorded(m)
<1>1. Progress(m) /\ Stored(m) BY DEF RecordInv
<1> DEFINE u == run'[m]
<1>2. /\ run[m].pc = "new" /\ run[m].attempt = 0 /\ UNCHANGED sessions
      /\ u.kind = "adhoc" /\ u.attempt = 0 /\ ~u.bot /\ ~u.saved /\ ~u.sent
      /\ u.query = "none" /\ u.sid \in DOMAIN sessions
      /\ \/ u.pc = "done" /\ (UNCHANGED chat \/ Answer(u.sid, m))
         \/ u.pc = "send" /\ u.row = sessions[u.sid] /\ UNCHANGED chat
  BY StartAdHocMoves
<1>3. channel' = channel /\ run'[m].attempt \in Nat /\ Len(sessions) \in Nat /\ u.sid \in DOMAIN chat
      /\ 1 <= u.sid /\ u.sid <= Len(sessions)
  BY <1>2, AfterActs
<1>4. run[m].kind = "text" /\ ~run[m].bot BY <1>1, <1>2 DEF Progress, BeforeBot, BeforeRecord
<1>5. "none" \notin Messages BY PipelineAssumption
<1>6. Progress(m)' BY <1>1, <1>2, <1>3, <1>5 DEF Progress, Holding, BeforeBot, BeforeRecord
<1>7. Stored(m)'
  <2>1. CASE UNCHANGED chat BY <1>1, <1>2, <1>3, <1>4, <2>1, NoAnswer
  <2>2. CASE u.pc = "done" /\ Answer(u.sid, m) BY <1>1, <1>2, <1>3, <1>4, <2>2, OneAnswer
  <2> QED BY <1>2, <2>1, <2>2
<1>8. Delivered(m)' BY <1>2 DEF Delivered
<1> QED BY <1>6, <1>7, <1>8 DEF Recorded

LEMMA RetryRecorded ==
  ASSUME TypeOK, RecordInv, NEW m \in Messages, Acts(m), Retry(m)
  PROVE  Recorded(m)
<1>1. Progress(m) /\ Stored(m) BY DEF RecordInv
<1> DEFINE u == run'[m]
<1>2. /\ run[m].pc = "done" /\ run[m].kind # "adhoc" /\ channel.retries /\ UNCHANGED <<sessions, chat>>
      /\ u.kind = run[m].kind /\ u.attempt = run[m].attempt + 1 /\ ~u.bot /\ ~u.saved
      /\ u.query = "none" /\ u.sid = 0 /\ u.pc = "new"
  BY RetryMoves
<1>3. channel' = channel /\ run'[m].attempt \in Nat /\ run[m].attempt \in Nat /\ Len(sessions) \in Nat
  BY AfterActs
<1>4. "none" \notin Messages BY PipelineAssumption
<1>5. Progress(m)' BY <1>1, <1>2, <1>3, <1>4 DEF Progress, Holding, BeforeBot, BeforeRecord
<1>6. Stored(m)' BY <1>1, <1>2, <1>3, NoAnswer
<1>7. Delivered(m)' BY <1>2 DEF Delivered, Done
<1> QED BY <1>5, <1>6, <1>7 DEF Recorded

LEMMA ResolveRecorded ==
  ASSUME TypeOK, RecordInv, NEW m \in Messages, Acts(m), Resolve(m)
  PROVE  Recorded(m)
<1>1. Progress(m) /\ Stored(m) BY DEF RecordInv
<1> DEFINE u == run'[m]
<1>2. /\ run[m].pc = "resolve" /\ UNCHANGED <<sessions, chat>>
      /\ u.kind = run[m].kind /\ u.attempt = run[m].attempt /\ u.bot = run[m].bot
      /\ u.saved = run[m].saved /\ u.sent = run[m].sent /\ u.query = run[m].query
      /\ \/ u.sid = 0 /\ u.pc = "create"
         \/ u.sid \in DOMAIN sessions /\ u.pc \in {"end", "activate"}
  BY ResolveMoves
<1>3. channel' = channel /\ run'[m].attempt \in Nat /\ run[m].attempt \in Nat /\ Len(sessions) \in Nat
      /\ DOMAIN sessions = 1 .. Len(sessions)
  BY AfterActs
<1>4. ~run[m].bot /\ ~run[m].saved /\ run[m].sid = 0 /\ run[m].query \notin Messages
      /\ ~(run[m].sent /\ run[m].attempt = 0) /\ run[m].kind # "adhoc"
  BY <1>1, <1>2 DEF Progress, BeforeBot, BeforeRecord
<1>5. Progress(m)' BY <1>1, <1>2, <1>3, <1>4 DEF Progress, Holding, BeforeBot, BeforeRecord
<1>6. Stored(m)' BY <1>1, <1>2, <1>3, <1>4, NoAnswer
<1>7. Delivered(m)' BY <1>2 DEF Delivered, Done
<1> QED BY <1>5, <1>6, <1>7 DEF Recorded

LEMMA EndOldRecorded ==
  ASSUME TypeOK, RecordInv, NEW m \in Messages, Acts(m), EndOld(m)
  PROVE  Recorded(m)
<1>1. Progress(m) /\ Stored(m) BY DEF RecordInv
<1> DEFINE u == run'[m]
<1>2. run[m].pc = "end" /\ UNCHANGED chat /\ Keeps(u, run[m]) /\ u.pc = "create"
  BY <1>1, EndOldMoves
<1>3. channel' = channel /\ run'[m].attempt \in Nat /\ run[m].attempt \in Nat /\ Len(sessions) \in Nat
      /\ Len(sessions') \in Nat /\ Len(sessions) <= Len(sessions') /\ run[m].sid \in Nat
  BY AfterActs
<1>4. Progress(m)' BY <1>1, <1>2, <1>3 DEF Progress, Holding, BeforeBot, BeforeRecord, Keeps
<1>5. Stored(m)' BY <1>1, <1>2, <1>3, NoAnswer DEF Keeps
<1>6. Delivered(m)' BY <1>2 DEF Delivered, Done
<1> QED BY <1>4, <1>5, <1>6 DEF Recorded

LEMMA CreateSessionRecorded ==
  ASSUME TypeOK, RecordInv, NEW m \in Messages, Acts(m), CreateSession(m)
  PROVE  Recorded(m)
<1>1. Progress(m) /\ Stored(m) BY DEF RecordInv
<1> DEFINE u == run'[m]
           t == run[m]
<1>2. /\ t.pc = "create" /\ u.kind = t.kind /\ u.attempt = t.attempt /\ u.bot = t.bot
      /\ u.saved = t.saved /\ u.sent = t.sent /\ u.query = t.query
      /\ u.sid = Len(sessions) + 1
      /\ u.pc = "activate" \/ (u.kind = "reset" /\ u.pc = Terminal /\ u.reply = "early")
      /\ DOMAIN sessions' = DOMAIN sessions \cup {u.sid} /\ u.sid \notin DOMAIN sessions
      /\ DOMAIN chat' = DOMAIN sessions'
      /\ \A s \in DOMAIN sessions : chat'[s] = chat[s]
  BY CreateSessionMoves
<1>3. channel' = channel /\ run'[m].attempt \in Nat /\ run[m].attempt \in Nat /\ Len(sessions) \in Nat
      /\ Len(sessions') \in Nat /\ u.sid \in 1 .. Len(sessions') /\ run[m].sid \in Nat
      /\ DOMAIN chat' = DOMAIN sessions' /\ DOMAIN chat = DOMAIN sessions
  BY <1>2, AfterActs
<1>4. ~t.bot /\ ~t.saved BY <1>1, <1>2 DEF Progress, BeforeBot, BeforeRecord
<1>5. t.query = "none" /\ "none" \notin Messages
  BY <1>1, <1>2, PipelineAssumption DEF Progress, BeforeRecord
<1>6. Progress(m)' BY <1>1, <1>2, <1>3, <1>4, <1>5, TerminalIs DEF Progress, Holding, BeforeBot, BeforeRecord
<1>7. Stored(m)'
  <2>1. ASSUME u.kind # "unsupported", NEW s \in DOMAIN chat' PROVE chat'[s].answers[m] <= u.attempt
    <3>1. CASE s \in DOMAIN chat
      <4>1. chat[s].answers[m] \in Nat BY <3>1, Domains DEF History
      <4>2. chat[s].answers[m] <= t.attempt + 0 BY <1>1, <1>2, <1>4, <2>1, <3>1 DEF Stored, Answers
      <4> QED BY <1>2, <1>3, <3>1, <4>1, <4>2
    <3>2. CASE s \notin DOMAIN chat
      <4>1. chat'[s] = NoHistory BY <3>2 DEF Acts
      <4> QED BY <1>3, <4>1 DEF NoHistory
    <3> QED BY <3>1, <3>2
  <2> QED BY <1>2, <1>3, <1>4, <2>1, TerminalIs DEF Stored, Answers
<1>8. Delivered(m)' BY <1>2, TerminalIs DEF Delivered, Done
<1> QED BY <1>6, <1>7, <1>8 DEF Recorded

LEMMA ActivateRecorded ==
  ASSUME TypeOK, RecordInv, NEW m \in Messages, Acts(m), Activate(m)
  PROVE  Recorded(m)
<1>1. Progress(m) /\ Stored(m) BY DEF RecordInv
<1> DEFINE u == run'[m]
<1>2. run[m].pc = "activate" /\ UNCHANGED chat /\ Keeps(u, run[m]) /\ u.pc = "record"
  BY <1>1, ActivateMoves
<1>3. channel' = channel /\ run'[m].attempt \in Nat /\ run[m].attempt \in Nat /\ Len(sessions) \in Nat
      /\ Len(sessions') \in Nat /\ Len(sessions) <= Len(sessions') /\ run[m].sid \in Nat
  BY AfterActs
<1>4. Progress(m)' BY <1>1, <1>2, <1>3 DEF Progress, Holding, BeforeBot, BeforeRecord, Keeps
<1>5. Stored(m)' BY <1>1, <1>2, <1>3, NoAnswer DEF Keeps
<1>6. Delivered(m)' BY <1>2 DEF Delivered, Done
<1> QED BY <1>4, <1>5, <1>6 DEF Recorded

LEMMA RefuseTypeRecorded ==
  ASSUME TypeOK, RecordInv, NEW m \in Messages, Acts(m), RefuseType(m)
  PROVE  Recorded(m)
<1>1. Progress(m) BY DEF RecordInv
<1> DEFINE u == run'[m]
<1>2. /\ run[m].pc = "record" /\ run[m].kind = "unsupported" /\ AnswersEarly(u, run[m])
      /\ run[m].sid \in DOMAIN chat
  BY <1>1, RefuseTypeMoves
<1>3. channel' = channel /\ run'[m].attempt \in Nat /\ run[m].attempt \in Nat /\ Len(sessions) \in Nat
      /\ Len(sessions') \in Nat /\ Len(sessions) <= Len(sessions') /\ run[m].sid \in Nat
      /\ chat[run[m].sid].said \subseteq chat'[run[m].sid].said
  BY <1>2, AfterActs
<1>4. ~run[m].bot BY <1>1, <1>2 DEF Progress, BeforeBot, BeforeRecord
<1>5. Progress(m)'
  BY <1>1, <1>2, <1>3, <1>4, TerminalIs DEF Progress, Holding, BeforeBot, BeforeRecord, Keeps, AnswersEarly
<1>6. Stored(m)' BY <1>2, <1>4 DEF Stored, AnswersEarly, Keeps
<1>7. Delivered(m)' BY <1>2, TerminalIs DEF Delivered, Done, AnswersEarly
<1> QED BY <1>5, <1>6, <1>7 DEF Recorded

LEMMA RecordRecorded ==
  ASSUME TypeOK, RecordInv, NEW m \in Messages, Acts(m), Record(m)
  PROVE  Recorded(m)
<1>1. Progress(m) /\ Stored(m) BY DEF RecordInv
<1> DEFINE u == run'[m]
           t == run[m]
<1>2. /\ t.pc = "record" /\ t.kind # "unsupported" /\ UNCHANGED sessions /\ t.sid \in DOMAIN chat
      /\ \/ /\ Ask(t.sid, m) /\ u.pc = "consent" /\ u.query = m /\ u.row = t.row
            /\ u.kind = t.kind /\ u.attempt = t.attempt /\ u.sid = t.sid /\ u.bot = t.bot
            /\ u.saved = t.saved /\ u.sent = t.sent
         \/ AnswersEarly(u, t) /\ UNCHANGED chat
  BY <1>1, RecordMoves
<1>3. channel' = channel /\ run'[m].attempt \in Nat /\ run[m].attempt \in Nat /\ Len(sessions) \in Nat
      /\ t.sid \in Nat
  BY AfterActs
<1>4. ~run[m].bot BY <1>1, <1>2 DEF Progress, BeforeBot, BeforeRecord
<1>5. CASE /\ Ask(t.sid, m) /\ u.pc = "consent" /\ u.query = m /\ u.row = t.row
           /\ u.kind = t.kind /\ u.attempt = t.attempt /\ u.sid = t.sid /\ u.bot = t.bot
           /\ u.saved = t.saved /\ u.sent = t.sent
  <2>1. DOMAIN chat' = DOMAIN chat /\ m \in chat'[t.sid].said
        /\ \A i \in DOMAIN chat : chat'[i].answers = chat[i].answers
    BY <1>2, <1>5, Asked
  <2>2. Progress(m)' BY <1>1, <1>2, <1>3, <1>4, <1>5, <2>1 DEF Progress, Holding, BeforeBot, BeforeRecord
  <2>3. Stored(m)' BY <1>1, <1>2, <1>3, <1>4, <1>5, <2>1 DEF Stored, Answers
  <2>4. Delivered(m)' BY <1>5 DEF Delivered, Done
  <2> QED BY <2>2, <2>3, <2>4 DEF Recorded
<1>6. CASE AnswersEarly(u, t) /\ UNCHANGED chat
  <2>1. Progress(m)'
    BY <1>1, <1>2, <1>3, <1>4, <1>6, TerminalIs DEF Progress, Holding, BeforeBot, BeforeRecord, AnswersEarly, Keeps
  <2>2. Stored(m)' BY <1>1, <1>2, <1>3, <1>4, <1>6, NoAnswer DEF AnswersEarly, Keeps
  <2>3. Delivered(m)' BY <1>6, TerminalIs DEF Delivered, Done, AnswersEarly
  <2> QED BY <2>1, <2>2, <2>3 DEF Recorded
<1> QED BY <1>2, <1>5, <1>6

LEMMA ConsentFlowRecorded ==
  ASSUME TypeOK, RecordInv, NEW m \in Messages, Acts(m), ConsentFlow(m)
  PROVE  Recorded(m)
<1>1. Progress(m) /\ Stored(m) BY DEF RecordInv
<1> DEFINE u == run'[m]
           t == run[m]
<1>2. /\ t.pc = "consent" /\ UNCHANGED chat /\ t.sid \in DOMAIN sessions
      /\ u.kind = t.kind /\ u.attempt = t.attempt /\ u.sid = t.sid /\ u.bot = t.bot
      /\ u.saved = t.saved /\ u.sent = t.sent
      /\ \/ u.query = t.query /\ u.pc = "bot"
         \/ u.query = t.query /\ u.pc = Terminal /\ u.reply = "early"
         \/ u.query = "seed" /\ u.pc = "bot"
         \/ u.query = chat[t.sid].first /\ u.pc = "bot"
         \/ u.query = t.query /\ u.pc = "done"
  BY <1>1, ConsentFlowMoves DEF AnswersEarly, Keeps
<1>3. channel' = channel /\ run'[m].attempt \in Nat /\ run[m].attempt \in Nat /\ Len(sessions) \in Nat
      /\ Len(sessions') \in Nat /\ Len(sessions) <= Len(sessions') /\ t.sid \in Nat
      /\ t.sid \in DOMAIN chat
  BY <1>2, AfterActs
<1>4. ~t.bot /\ ~(t.sent /\ t.attempt = 0) /\ t.sid # 0 /\ t.kind # "adhoc"
      /\ m \in chat[t.sid].said
  BY <1>1, <1>2 DEF Progress, Holding, BeforeBot
<1>5. chat[t.sid].first # "none" => chat[t.sid].first \in chat[t.sid].said
  BY <1>3 DEF RecordInv, FirstIsSaid
<1>6. "none" \notin Messages /\ "seed" \notin Messages BY PipelineAssumption
<1>7. u.query \in Messages => u.query \in chat[t.sid].said
  BY <1>1, <1>2, <1>5, <1>6 DEF Progress
<1>8. Progress(m)'
  BY <1>1, <1>2, <1>3, <1>4, <1>7, TerminalIs DEF Progress, Holding, BeforeBot, BeforeRecord
<1>9. Stored(m)' BY <1>1, <1>2, <1>3, <1>4, NoAnswer
<1>10. Delivered(m)' BY <1>2, <1>4 DEF Delivered
<1> QED BY <1>8, <1>9, <1>10 DEF Recorded

LEMMA AskBotRecorded ==
  ASSUME TypeOK, RecordInv, NEW m \in Messages, Acts(m), AskBot(m)
  PROVE  Recorded(m)
<1>1. Progress(m) /\ Stored(m) BY DEF RecordInv
<1> DEFINE u == run'[m]
           t == run[m]
<1>2. /\ t.pc = "bot" /\ UNCHANGED sessions /\ t.sid \in DOMAIN chat
      /\ \/ /\ Answer(t.sid, m) /\ u.pc = "save" /\ u.bot /\ u.reply = "bot" /\ u.row = t.row
            /\ u.kind = t.kind /\ u.attempt = t.attempt /\ u.sid = t.sid /\ u.query = t.query
            /\ u.saved = t.saved /\ u.sent = t.sent
         \/ AnswersEarly(u, t) /\ UNCHANGED chat
         \/ Ends(u, t) /\ UNCHANGED chat
  BY <1>1, AskBotMoves
<1>3. channel' = channel /\ run'[m].attempt \in Nat /\ run[m].attempt \in Nat /\ Len(sessions) \in Nat
      /\ t.sid \in Nat /\ chat[t.sid].said \subseteq chat'[t.sid].said
  BY <1>2, AfterActs
<1>4. ~t.bot /\ ~(t.sent /\ t.attempt = 0) /\ t.sid # 0 /\ t.kind # "adhoc"
  BY <1>1, <1>2 DEF Progress, Holding, BeforeBot
<1>5. Progress(m)'
  <2>1. CASE Answer(t.sid, m) /\ u.pc = "save" /\ u.bot /\ u.reply = "bot" /\ u.kind = t.kind /\ u.attempt = t.attempt
             /\ u.sid = t.sid /\ u.query = t.query /\ u.saved = t.saved /\ u.sent = t.sent
    BY <1>1, <1>2, <1>3, <1>4, <2>1 DEF Progress, Holding, BeforeBot, BeforeRecord
  <2>2. CASE AnswersEarly(u, t)
    BY <1>1, <1>2, <1>3, <1>4, <2>2, TerminalIs
    DEF Progress, Holding, BeforeBot, BeforeRecord, AnswersEarly, Keeps
  <2>3. CASE Ends(u, t)
    BY <1>1, <1>2, <1>3, <1>4, <2>3 DEF Progress, Holding, BeforeBot, BeforeRecord, Ends, Keeps
  <2> QED BY <1>2, <2>1, <2>2, <2>3
<1>6. Stored(m)'
  <2>1. CASE Answer(t.sid, m) /\ u.pc = "save" /\ u.bot /\ u.kind = t.kind /\ u.attempt = t.attempt
             /\ u.sid = t.sid
    BY <1>1, <1>2, <1>3, <1>4, <2>1, OneAnswer
  <2>2. CASE (AnswersEarly(u, t) \/ Ends(u, t)) /\ UNCHANGED chat
    BY <1>1, <1>2, <1>3, <1>4, <2>2, NoAnswer DEF AnswersEarly, Ends, Keeps
  <2> QED BY <1>2, <2>1, <2>2
<1>7. Delivered(m)' BY <1>2, <1>4, TerminalIs DEF Delivered, Done, AnswersEarly, Ends, Keeps
<1> QED BY <1>5, <1>6, <1>7 DEF Recorded

LEMMA SaveStateRecorded ==
  ASSUME TypeOK, RecordInv, NEW m \in Messages, Acts(m), SaveState(m)
  PROVE  Recorded(m)
<1>1. Progress(m) /\ Stored(m) BY DEF RecordInv
<1> DEFINE u == run'[m]
           t == run[m]
<1>2. /\ t.pc = "save" /\ UNCHANGED chat /\ t.sid \in DOMAIN sessions
      /\ u.kind = t.kind /\ u.attempt = t.attempt /\ u.sid = t.sid /\ u.query = t.query
      /\ u.bot = t.bot /\ u.saved /\ u.sent = t.sent /\ u.pc = Terminal
      /\ u.reply = t.reply \/ u.reply = "early"
  BY <1>1, SaveStateMoves
<1>3. channel' = channel /\ run'[m].attempt \in Nat /\ run[m].attempt \in Nat /\ Len(sessions) \in Nat
      /\ Len(sessions') \in Nat /\ Len(sessions) <= Len(sessions') /\ t.sid \in Nat
  BY <1>2, AfterActs
<1>4. t.bot /\ t.reply = "bot" BY <1>1, <1>2 DEF Progress
<1>5. Progress(m)'
  BY <1>1, <1>2, <1>3, <1>4, TerminalIs DEF Progress, Holding, BeforeBot, BeforeRecord
<1>6. Stored(m)' BY <1>1, <1>2, <1>3, NoAnswer
<1>7. Delivered(m)' BY <1>2, TerminalIs DEF Delivered, Done
<1> QED BY <1>5, <1>6, <1>7 DEF Recorded

LEMMA SendRecorded ==
  ASSUME TypeOK, RecordInv, NEW m \in Messages, Acts(m), Send(m)
  PROVE  Recorded(m)
<1>1. Progress(m) /\ Stored(m) BY DEF RecordInv
<1> DEFINE u == run'[m]
           t == run[m]
<1>2. /\ t.pc = "send" /\ t.kind # "adhoc" /\ UNCHANGED <<sessions, chat>>
      /\ u.kind = t.kind /\ u.attempt = t.attempt /\ u.sid = t.sid /\ u.query = t.query
      /\ u.bot = t.bot /\ u.saved = t.saved
      /\ \/ u.pc = "persist" /\ u.reply = t.reply /\ u.row = t.row
         \/ u.pc = "done" /\ t.reply = "bot"
  BY <1>1, SendMoves
<1>3. channel' = channel /\ run'[m].attempt \in Nat /\ run[m].attempt \in Nat /\ Len(sessions) \in Nat
  BY <1>2, AfterActs
<1>4. t.reply = "early" \/ (t.reply = "bot" /\ t.bot) BY <1>1, <1>2 DEF Progress
<1>5. Progress(m)' BY <1>1, <1>2, <1>3, <1>4 DEF Progress, Holding, BeforeBot, BeforeRecord
<1>6. Stored(m)' BY <1>1, <1>2, <1>3, NoAnswer
<1>7. Delivered(m)' BY <1>1, <1>2, <1>4 DEF Delivered, Done, Stored, Answers
<1> QED BY <1>5, <1>6, <1>7 DEF Recorded

LEMMA PersistRecorded ==
  ASSUME TypeOK, RecordInv, NEW m \in Messages, Acts(m), Persist(m)
  PROVE  Recorded(m)
<1>1. Progress(m) /\ Stored(m) BY DEF RecordInv
<1> DEFINE u == run'[m]
           t == run[m]
<1>2. /\ t.pc = "persist" /\ Ends(u, t)
      /\ IF StoresAnswer(t) THEN Answer(t.sid, m) /\ t.sid \in DOMAIN chat ELSE UNCHANGED chat
  BY <1>1, PersistMoves
<1>3. /\ channel' = channel /\ run'[m].attempt \in Nat /\ run[m].attempt \in Nat /\ Len(sessions) \in Nat
      /\ Len(sessions') \in Nat /\ Len(sessions) <= Len(sessions') /\ t.sid \in Nat
      /\ \A s \in DOMAIN chat : chat[s].said \subseteq chat'[s].said
  BY <1>2, AfterActs
<1>4. t.sid # 0 => t.sid \in DOMAIN chat BY <1>1, InSession
<1>5. t.reply = "early" \/ (t.reply = "bot" /\ t.bot)
  BY <1>1, <1>2 DEF Progress
<1>6. Progress(m)' BY <1>1, <1>2, <1>3, <1>4 DEF Progress, Holding, BeforeBot, BeforeRecord, Ends, Keeps
<1>7. Stored(m)' /\ Delivered(m)'
  <2>1. CASE StoresAnswer(t)
    <3>1. ~t.bot BY <2>1 DEF StoresAnswer
    <3>2. Stored(m)' /\ (Answers(t.sid, m) > 0)'
      BY <1>1, <1>2, <1>3, <2>1, <3>1, OneAnswer DEF Ends, Keeps
    <3> QED BY <1>2, <3>2 DEF Delivered, Ends, Keeps, Answers
  <2>2. CASE ~StoresAnswer(t)
    <3>1. UNCHANGED chat BY <1>2, <2>2
    <3>2. Stored(m)' BY <1>1, <1>2, <1>3, <3>1, NoAnswer DEF Ends, Keeps
    <3>3. t.sid # 0 /\ t.kind # "reset" => t.bot BY <1>5, <2>2 DEF StoresAnswer, Persists
    <3> QED BY <1>1, <1>2, <3>1, <3>2, <3>3 DEF Delivered, Ends, Keeps, Stored, Answers
  <2> QED BY <2>1, <2>2
<1> QED BY <1>6, <1>7 DEF Recorded

LEMMA SendAdHocRecorded ==
  ASSUME TypeOK, RecordInv, NEW m \in Messages, Acts(m), SendAdHoc(m)
  PROVE  Recorded(m)
<1>1. Progress(m) /\ Stored(m) BY DEF RecordInv
<1> DEFINE u == run'[m]
           t == run[m]
<1>2. /\ t.pc = "send" /\ t.kind = "adhoc" /\ UNCHANGED sessions /\ t.sid \in DOMAIN chat
      /\ u.kind = t.kind /\ u.attempt = t.attempt /\ u.sid = t.sid /\ u.query = t.query
      /\ u.bot = t.bot /\ u.saved = t.saved /\ u.pc = "done"
      /\ (u.outcome = "raised" /\ UNCHANGED chat) \/ Answer(t.sid, m)
  BY <1>1, SendAdHocMoves
<1>3. /\ channel' = channel /\ run'[m].attempt \in Nat /\ run[m].attempt \in Nat /\ Len(sessions) \in Nat
      /\ t.sid \in Nat /\ \A s \in DOMAIN chat : chat[s].said \subseteq chat'[s].said
  BY <1>2, AfterActs
<1>4. ~t.bot BY <1>1, <1>2 DEF Progress
<1>5. Progress(m)' BY <1>1, <1>2, <1>3, <1>4 DEF Progress, Holding, BeforeBot, BeforeRecord
<1>6. CASE u.outcome = "raised" /\ UNCHANGED chat
  <2>1. Stored(m)' BY <1>1, <1>2, <1>3, <1>4, <1>6, NoAnswer
  <2> QED BY <1>2, <1>5, <1>6, <2>1 DEF Delivered, Recorded
<1>7. CASE Answer(t.sid, m)
  <2>1. Stored(m)' /\ (Answers(t.sid, m) > 0)' BY <1>1, <1>2, <1>3, <1>4, <1>7, OneAnswer
  <2> QED BY <1>2, <1>5, <2>1 DEF Delivered, Recorded, Answers
<1> QED BY <1>2, <1>6, <1>7

LEMMA TaskKeepsRecord ==
  ASSUME TypeOK, RecordInv, NEW m \in Messages, ActionOf(m)
  PROVE  RecordInv'
<1>1. Acts(m) BY TaskActs
<1>2. Recorded(m)
  BY <1>1, StartRecorded, StartAdHocRecorded, RetryRecorded, ResolveRecorded, EndOldRecorded,
     CreateSessionRecorded, ActivateRecorded, RefuseTypeRecorded, RecordRecorded, ConsentFlowRecorded,
     AskBotRecorded, SaveStateRecorded, SendRecorded, PersistRecorded, SendAdHocRecorded
  DEF ActionOf, Stage
<1> QED BY <1>1, <1>2, RecordByTask DEF Recorded

-----------------------------------------------------------------------------
(* The consent.                                                            *)

\* Whoever has spoken keeps the kind of what was said.
LEMMA KindsOfSaidStay ==
  ASSUME TypeOK, RecordInv, NEW m \in Messages, Acts(m), NEW o \in Messages,
         NEW s \in DOMAIN chat, o \in chat[s].said
  PROVE  run'[o].kind = run[o].kind
<1>1. CASE o # m BY <1>1 DEF Acts
<1>2. CASE o = m
  <2>1. run[m].attempt > 0 \/ run[m].pc \notin BeforeRecord BY <1>2 DEF RecordInv, SaidInTime
  <2> QED BY <1>2, <2>1 DEF Acts, BeforeRecord
<1> QED BY <1>1, <1>2

LEMMA ConsentStays ==
  ASSUME TypeOK, RecordInv, NEW m \in Messages, Acts(m), NEW s \in DOMAIN chat
  PROVE  /\ Consented(s) => Consented(s)'
         /\ \A o \in Messages : ConsentedBefore(o, s) => ConsentedBefore(o, s)'
<1>1. ASSUME NEW other \in Messages, IsToken(other), Said(s, other)
      PROVE  (IsToken(other) /\ Said(s, other))'
  <2>1. other \in chat[s].said BY <1>1 DEF Said
  <2>2. other \in chat'[s].said BY <2>1 DEF Acts
  <2>3. run'[other].kind = run[other].kind BY <2>1, KindsOfSaidStay
  <2> QED BY <1>1, <2>2, <2>3 DEF Said, IsToken
<1>2. Consented(s) => Consented(s)' BY <1>1 DEF Consented
<1>3. ASSUME NEW o \in Messages, ConsentedBefore(o, s) PROVE ConsentedBefore(o, s)'
  <2>1. PICK other \in Messages \ {o} : IsToken(other) /\ Said(s, other) BY <1>3 DEF ConsentedBefore
  <2>2. (IsToken(other) /\ Said(s, other))' BY <1>1, <2>1
  <2> QED BY <2>2 DEF ConsentedBefore
<1> QED BY <1>2, <1>3

LEMMA OthersKeepConsent ==
  ASSUME TypeOK, RecordInv, NEW m \in Messages, Acts(m), NEW o \in Messages \ {m}, ConsentOf(o)
  PROVE  ConsentOf(o)'
<1> DEFINE t == run[o]
<1>1. Progress(o) BY DEF RecordInv
<1>2. run'[o] = t BY DEF Acts
<1>3. t.pc \in {"activate", "record", "consent"} \/ t.pc = "bot" \/ t.bot => t.sid # 0
  BY <1>1 DEF Progress, Holding
<1>4. t.sid # 0 => t.sid \in DOMAIN chat BY <1>1, InSession
<1>5. PICK s, q : s = t.sid /\ q = t.query OBVIOUS
<1>6. ASSUME s # 0
      PROVE  /\ Consented(s) => Consented(s)'
             /\ ConsentedBefore(o, s) => ConsentedBefore(o, s)'
  <2>1. s \in DOMAIN chat BY <1>4, <1>5, <1>6
  <2> QED BY <2>1, ConsentStays
<1>7. ASSUME t.pc = "bot" \/ t.bot, q \in Messages PROVE IsToken(q)' <=> IsToken(q)
  <2>1. s \in DOMAIN chat /\ q \in chat[s].said BY <1>1, <1>4, <1>5, <1>7 DEF Progress
  <2>2. run'[q].kind = run[q].kind BY <1>7, <2>1, KindsOfSaidStay
  <2> QED BY <2>2 DEF IsToken
<1>8. ASSUME t.pc \in {"activate", "record", "consent"}
      PROVE  t.row.status \in OpenStatuses /\ (t.row.status = "active" => ConsentedBefore(o, s)')
  BY <1>3, <1>5, <1>6, <1>8 DEF ConsentOf
<1>9. ASSUME t.pc = "bot" \/ t.bot
      PROVE  /\ Consented(s)'
             /\ q \in Messages /\ IsToken(q)' => q = o /\ ConsentedBefore(o, s)'
  BY <1>3, <1>5, <1>6, <1>7, <1>9 DEF ConsentOf
<1> QED BY <1>2, <1>5, <1>8, <1>9 DEF ConsentOf, ConsentedBefore, Consented, IsToken, Said

OnlyConsentedActive ==
  \A s \in DOMAIN sessions' :
    sessions'[s].status = "active" => (s \in DOMAIN sessions /\ sessions[s].status = "active") \/ Consented(s)'
ConsentKept(m) == AsksConsent => OnlyConsentedActive /\ ConsentOf(m)'

LEMMA ConsentByTask ==
  ASSUME TypeOK, RecordInv, ConsentInv, NEW m \in Messages, Acts(m), ConsentKept(m)
  PROVE  ConsentInv'
<1>1. AsksConsent' <=> AsksConsent BY DEF AsksConsent, Acts
<1>2. ASSUME AsksConsent PROVE \A o \in Messages : ConsentOf(o)'
  BY <1>2, OthersKeepConsent DEF ConsentInv, ConsentKept
<1>3. ASSUME AsksConsent, NEW s \in DOMAIN sessions', sessions'[s].status = "active" PROVE Consented(s)'
  <2>1. CASE s \in DOMAIN sessions /\ sessions[s].status = "active"
    <3>1. Consented(s) /\ s \in DOMAIN chat BY <1>3, <2>1, Domains DEF ConsentInv
    <3> QED BY <3>1, ConsentStays
  <2> QED BY <1>3, <2>1 DEF ConsentKept, OnlyConsentedActive
<1> QED BY <1>1, <1>2, <1>3 DEF ConsentInv

\* Once asked, the bot was asked after the consent.
LEMMA ConsentCarried ==
  ASSUME TypeOK, RecordInv, NEW m \in Messages, Acts(m), ConsentOf(m),
         run'[m].pc \notin {"activate", "record", "consent"},
         run'[m].pc = "bot" \/ run'[m].bot =>
           /\ run[m].pc = "bot" \/ run[m].bot
           /\ run'[m].sid = run[m].sid /\ run'[m].query = run[m].query
  PROVE  ConsentOf(m)'
<1> DEFINE t == run[m]
<1>1. Progress(m) BY DEF RecordInv
<1>2. PICK s, q : s = t.sid /\ q = t.query OBVIOUS
<1>3. CASE ~(run'[m].pc = "bot" \/ run'[m].bot) BY <1>3 DEF ConsentOf
<1>4. CASE run'[m].pc = "bot" \/ run'[m].bot
  <2>1. t.pc = "bot" \/ t.bot BY <1>4
  <2>2. s # 0 BY <1>1, <1>2, <2>1 DEF Progress, Holding
  <2>3. s \in DOMAIN chat BY <1>1, <1>2, <2>2, InSession
  <2>4. Consented(s) /\ (q \in Messages /\ IsToken(q) => q = m /\ ConsentedBefore(m, s))
    BY <1>2, <2>1 DEF ConsentOf
  <2>5. Consented(s)' /\ (ConsentedBefore(m, s) => ConsentedBefore(m, s)') BY <2>3, <2>4, ConsentStays
  <2>6. ASSUME q \in Messages PROVE IsToken(q)' <=> IsToken(q)
    <3>1. q \in chat[s].said BY <1>1, <1>2, <2>6 DEF Progress
    <3>2. run'[q].kind = run[q].kind BY <2>3, <2>6, <3>1, KindsOfSaidStay
    <3> QED BY <3>2 DEF IsToken
  <2>7. Consented(s)' /\ (q \in Messages /\ IsToken(q)' => q = m /\ ConsentedBefore(m, s)')
    BY <2>4, <2>5, <2>6
  <2>8. run'[m].sid = s /\ run'[m].query = q BY <1>2, <1>4
  <2> QED BY <2>7, <2>8 DEF ConsentOf, ConsentedBefore, Consented, IsToken, Said
<1> QED BY <1>3, <1>4

\* Before the bot is asked, what counts is the copy's status.
LEMMA ConsentByCopy ==
  ASSUME NEW m \in Messages, NEW s, run'[m].sid = s,
         run'[m].pc \in {"activate", "record", "consent"}, ~run'[m].bot,
         run'[m].row.status \in OpenStatuses,
         run'[m].row.status = "active" => ConsentedBefore(m, s)'
  PROVE  ConsentOf(m)'
BY DEF ConsentOf, ConsentedBefore, IsToken, Said

LEMMA ConsentNotMet ==
  ASSUME NEW m \in Messages, run'[m].pc \notin {"activate", "record", "consent", "bot"}, ~run'[m].bot
  PROVE  ConsentOf(m)'
BY DEF ConsentOf

LEMMA StartConsent ==
  ASSUME TypeOK, RecordInv, NEW m \in Messages, Acts(m), NEW kind \in Kinds, Start(m, kind)
  PROVE  ConsentKept(m)
<1>1. Progress(m) BY DEF RecordInv
<1>2. UNCHANGED sessions /\ ~run'[m].bot
      /\ (run'[m].pc \in {"done", "send", "persist", "resolve"} \/ channel.preset)
  BY <1>1, TerminalIs, StartMoves
<1> QED BY <1>2, ConsentNotMet DEF ConsentKept, AsksConsent, OnlyConsentedActive

LEMMA StartAdHocConsent ==
  ASSUME TypeOK, NEW m \in Messages, StartAdHoc(m)
  PROVE  ConsentKept(m)
<1>1. UNCHANGED sessions /\ ~run'[m].bot /\ run'[m].pc \in {"done", "send"} BY StartAdHocMoves
<1> QED BY <1>1, ConsentNotMet DEF ConsentKept, OnlyConsentedActive

LEMMA RetryConsent ==
  ASSUME TypeOK, NEW m \in Messages, Retry(m)
  PROVE  ConsentKept(m)
<1>1. UNCHANGED sessions /\ ~run'[m].bot /\ run'[m].pc = "new" BY RetryMoves
<1> QED BY <1>1, ConsentNotMet DEF ConsentKept, OnlyConsentedActive

LEMMA ResolveConsent ==
  ASSUME TypeOK, RecordInv, ConsentInv, NEW m \in Messages, Acts(m), Resolve(m)
  PROVE  ConsentKept(m)
<1> DEFINE t == run[m]
           u == run'[m]
<1>0. SUFFICES ASSUME AsksConsent PROVE OnlyConsentedActive /\ ConsentOf(m)' BY DEF ConsentKept
<1>1. Progress(m) BY DEF RecordInv
<1>2. /\ t.pc = "resolve" /\ UNCHANGED <<sessions, chat>> /\ u.bot = t.bot
      /\ \/ u.sid = 0 /\ u.pc = "create"
         \/ /\ u.sid \in DOMAIN sessions /\ Open(u.sid) /\ u.row = sessions[u.sid]
            /\ u.pc \in {"end", "activate"}
  BY ResolveMoves
<1>3. ~t.bot BY <1>1, <1>2 DEF Progress, BeforeBot, BeforeRecord
<1>4. OnlyConsentedActive BY <1>2 DEF OnlyConsentedActive
<1>5. CASE u.pc \in {"create", "end"} BY <1>2, <1>3, <1>4, <1>5, ConsentNotMet
<1>6. CASE /\ u.sid \in DOMAIN sessions /\ Open(u.sid) /\ u.row = sessions[u.sid]
           /\ u.pc = "activate"
  <2>1. PICK s \in DOMAIN sessions : s = u.sid BY <1>6
  <2>2. s \in DOMAIN chat BY <2>1, Domains
  <2>3. u.row.status \in OpenStatuses BY <1>6 DEF Open
  <2>4. ASSUME u.row.status = "active" PROVE ConsentedBefore(m, s)'
    <3>1. Consented(s) BY <1>0, <1>6, <2>1, <2>4 DEF ConsentInv
    <3>2. t.attempt = 0
      <4>1. channel \in Channels /\ channel.conv BY <1>0 DEF AsksConsent, TypeOK
      <4>2. ~channel.retries BY <4>1, ChannelAssumption
      <4> QED BY <1>1, <4>2, AfterActs DEF Progress
    <3>3. m \notin chat[s].said BY <1>2, <2>2, <3>2 DEF RecordInv, SaidInTime, BeforeRecord
    <3>4. ConsentedBefore(m, s) BY <3>1, <3>3 DEF Consented, ConsentedBefore, Said
    <3> QED BY <2>2, <3>4, ConsentStays
  <2> QED BY <1>2, <1>3, <1>4, <1>6, <2>1, <2>3, <2>4, ConsentByCopy
<1> QED BY <1>2, <1>5, <1>6

LEMMA EndOldConsent ==
  ASSUME TypeOK, RecordInv, NEW m \in Messages, EndOld(m)
  PROVE  ConsentKept(m)
<1>1. Progress(m) BY DEF RecordInv
<1>2. /\ run[m].pc = "end" /\ run'[m].bot = run[m].bot /\ run'[m].pc = "create"
      /\ run[m].sid \in DOMAIN sessions /\ DOMAIN sessions' = DOMAIN sessions
      /\ \A i \in DOMAIN sessions :
           sessions'[i] = IF i = run[m].sid THEN EndedRow(run[m].row) ELSE sessions[i]
  BY <1>1, EndOldMoves DEF Keeps
<1>3. ~run[m].bot BY <1>1, <1>2 DEF Progress, BeforeBot, BeforeRecord
<1>4. EndedRow(run[m].row).status = "pending_review" BY DEF EndedRow, TypeOK, Task, Row
<1> QED BY <1>2, <1>3, <1>4, ConsentNotMet DEF ConsentKept, OnlyConsentedActive

LEMMA CreateSessionConsent ==
  ASSUME TypeOK, RecordInv, NEW m \in Messages, CreateSession(m)
  PROVE  ConsentKept(m)
<1>1. Progress(m) BY DEF RecordInv
<1> DEFINE u == run'[m]
<1>2. /\ run[m].pc = "create" /\ u.bot = run[m].bot /\ u.row = NewRow("setup")
      /\ u.pc = "activate" \/ u.pc = Terminal
      /\ DOMAIN sessions' = DOMAIN sessions \cup {u.sid}
      /\ sessions'[u.sid] = NewRow("setup")
      /\ \A s \in DOMAIN sessions : sessions'[s] = sessions[s]
  BY CreateSessionMoves
<1>3. ~run[m].bot BY <1>1, <1>2 DEF Progress, BeforeBot, BeforeRecord
<1>4. NewRow("setup").status = "setup" BY DEF NewRow
<1>5. OnlyConsentedActive BY <1>2, <1>4 DEF OnlyConsentedActive
<1>6. ConsentOf(m)'
  <2>1. CASE u.pc = Terminal BY <1>2, <1>3, <2>1, TerminalIs, ConsentNotMet
  <2>2. CASE u.pc = "activate" BY <1>2, <1>3, <1>4, <2>2, ConsentByCopy DEF OpenStatuses
  <2> QED BY <1>2, <2>1, <2>2
<1> QED BY <1>5, <1>6 DEF ConsentKept

LEMMA ActivateConsent ==
  ASSUME TypeOK, RecordInv, ConsentInv, NEW m \in Messages, Acts(m), Activate(m)
  PROVE  ConsentKept(m)
<1> DEFINE t == run[m]
           u == run'[m]
<1>0. SUFFICES ASSUME AsksConsent PROVE OnlyConsentedActive /\ ConsentOf(m)' BY DEF ConsentKept
<1>1. Progress(m) /\ ConsentOf(m) BY <1>0 DEF RecordInv, ConsentInv
<1>2. /\ t.pc = "activate" /\ u.bot = t.bot /\ u.sid = t.sid /\ u.pc = "record"
      /\ t.sid \in DOMAIN sessions /\ UNCHANGED sessions /\ u.row = t.row
  BY <1>0, <1>1, ActivateMoves DEF AsksConsent, Keeps
<1>3. ~t.bot BY <1>1, <1>2 DEF Progress, BeforeBot, BeforeRecord
<1>4. PICK s \in DOMAIN chat : s = t.sid BY <1>2, Domains
<1>5. t.row.status \in OpenStatuses /\ (t.row.status = "active" => ConsentedBefore(m, s))
  BY <1>1, <1>2, <1>4 DEF ConsentOf
<1>6. ConsentedBefore(m, s) => ConsentedBefore(m, s)' BY ConsentStays
<1>7. ConsentOf(m)' BY <1>2, <1>3, <1>4, <1>5, <1>6, ConsentByCopy
<1> QED BY <1>2, <1>7 DEF OnlyConsentedActive

LEMMA RefuseTypeConsent ==
  ASSUME TypeOK, RecordInv, NEW m \in Messages, RefuseType(m)
  PROVE  ConsentKept(m)
<1>1. Progress(m) BY DEF RecordInv
<1>2. run[m].pc = "record" /\ run'[m].bot = run[m].bot /\ run'[m].pc = Terminal /\ UNCHANGED sessions
  BY <1>1, RefuseTypeMoves DEF AnswersEarly, Keeps
<1>3. ~run[m].bot BY <1>1, <1>2 DEF Progress, BeforeBot, BeforeRecord
<1> QED BY <1>2, <1>3, TerminalIs, ConsentNotMet DEF ConsentKept, OnlyConsentedActive

LEMMA RecordConsent ==
  ASSUME TypeOK, RecordInv, ConsentInv, NEW m \in Messages, Acts(m), Record(m)
  PROVE  ConsentKept(m)
<1> DEFINE t == run[m]
           u == run'[m]
<1>0. SUFFICES ASSUME AsksConsent PROVE OnlyConsentedActive /\ ConsentOf(m)' BY DEF ConsentKept
<1>1. Progress(m) /\ ConsentOf(m) BY <1>0 DEF RecordInv, ConsentInv
<1>2. /\ t.pc = "record" /\ UNCHANGED sessions /\ t.sid \in DOMAIN chat /\ u.bot = t.bot /\ u.sid = t.sid
      /\ (u.pc = "consent" /\ u.row = t.row) \/ u.pc = Terminal
  BY <1>1, RecordMoves DEF AnswersEarly, Keeps
<1>3. ~t.bot BY <1>1, <1>2 DEF Progress, BeforeBot, BeforeRecord
<1>4. PICK s \in DOMAIN chat : s = t.sid BY <1>2
<1>5. t.row.status \in OpenStatuses /\ (t.row.status = "active" => ConsentedBefore(m, s))
  BY <1>1, <1>2, <1>4 DEF ConsentOf
<1>6. ConsentedBefore(m, s) => ConsentedBefore(m, s)' BY ConsentStays
<1>7. ConsentOf(m)'
  <2>1. CASE u.pc = Terminal BY <1>2, <1>3, <2>1, TerminalIs, ConsentNotMet
  <2>2. CASE u.pc = "consent" /\ u.row = t.row BY <1>2, <1>3, <1>4, <1>5, <1>6, <2>2, ConsentByCopy
  <2> QED BY <1>2, <2>1, <2>2
<1> QED BY <1>2, <1>7 DEF OnlyConsentedActive

LEMMA ConsentFlowConsent ==
  ASSUME TypeOK, RecordInv, ConsentInv, NEW m \in Messages, Acts(m), ConsentFlow(m)
  PROVE  ConsentKept(m)
<1> DEFINE t == run[m]
           u == run'[m]
           updated(status) ==
             \/ UNCHANGED sessions /\ [t.row EXCEPT !.status = status] = t.row
             \/ \A i \in DOMAIN sessions :
                  sessions'[i] = IF i = t.sid THEN [t.row EXCEPT !.status = status] ELSE sessions[i]
<1>0. SUFFICES ASSUME AsksConsent PROVE OnlyConsentedActive /\ ConsentOf(m)' BY DEF ConsentKept
<1>1. Progress(m) /\ ConsentOf(m) BY <1>0 DEF RecordInv, ConsentInv
<1>2. /\ t.pc = "consent" /\ UNCHANGED chat /\ t.sid \in DOMAIN sessions
      /\ DOMAIN sessions' = DOMAIN sessions /\ u.sid = t.sid /\ u.bot = t.bot
      /\ \/ /\ ~(t.row.status \in {"setup", "pending"})
            /\ u.query = t.query /\ u.pc = "bot" /\ UNCHANGED sessions
         \/ updated("pending") /\ u.pc = Terminal
         \/ u.pc = Terminal /\ UNCHANGED sessions
         \/ /\ t.kind = "token" /\ updated("active")
            /\ \/ u.pc = "bot" /\ u.query = "seed"
               \/ u.pc = "bot" /\ u.query = chat[t.sid].first /\ ~IsToken(chat[t.sid].first)
               \/ u.pc = "done" /\ u.query = t.query
  BY <1>0, <1>1, ConsentFlowMoves DEF AnswersEarly, Keeps, AsksConsent
<1>3. ~t.bot /\ m \in chat[t.sid].said /\ t.query = m
  BY <1>1, <1>2 DEF Progress, BeforeBot, BeforeRecord
<1>4. PICK s \in DOMAIN chat : s = t.sid BY <1>2, Domains
<1>5. t.row.status \in OpenStatuses /\ (t.row.status = "active" => ConsentedBefore(m, s))
  BY <1>1, <1>2, <1>4 DEF ConsentOf
<1>6. ConsentedBefore(m, s) => ConsentedBefore(m, s)' BY ConsentStays
<1>7. [t.row EXCEPT !.status = "pending"].status = "pending" BY DEF TypeOK, Task, Row
<1>8. CASE /\ ~(t.row.status \in {"setup", "pending"})
           /\ u.query = t.query /\ u.pc = "bot" /\ UNCHANGED sessions
  <2>1. ConsentedBefore(m, s)' BY <1>5, <1>6, <1>8 DEF OpenStatuses
  <2>2. Consented(s)' BY <2>1 DEF Consented, ConsentedBefore
  <2>3. u.sid = s /\ u.query = m BY <1>2, <1>3, <1>4, <1>8
  <2>4. ConsentOf(m)' BY <1>8, <2>1, <2>2, <2>3 DEF ConsentOf, Consented, ConsentedBefore, IsToken, Said
  <2> QED BY <1>8, <2>4 DEF OnlyConsentedActive
<1>9. CASE updated("pending") /\ u.pc = Terminal
  <2>1. OnlyConsentedActive BY <1>2, <1>7, <1>9 DEF OnlyConsentedActive
  <2> QED BY <1>2, <1>3, <1>9, <2>1, TerminalIs, ConsentNotMet
<1>10. CASE u.pc = Terminal /\ UNCHANGED sessions
  BY <1>2, <1>3, <1>10, TerminalIs, ConsentNotMet DEF OnlyConsentedActive
<1>11. CASE /\ t.kind = "token" /\ updated("active")
            /\ \/ u.pc = "bot" /\ u.query = "seed"
               \/ u.pc = "bot" /\ u.query = chat[t.sid].first /\ ~IsToken(chat[t.sid].first)
               \/ u.pc = "done" /\ u.query = t.query
  <2>1. Consented(s)
    <3>1. IsToken(m) /\ Said(s, m) BY <1>3, <1>4, <1>11 DEF IsToken, Said
    <3> QED BY <3>1 DEF Consented
  <2>2. Consented(s)' BY <2>1, ConsentStays
  <2>3. OnlyConsentedActive
    <3>1. ASSUME NEW i \in DOMAIN sessions', sessions'[i].status = "active"
          PROVE  (i \in DOMAIN sessions /\ sessions[i].status = "active") \/ Consented(i)'
      <4>1. CASE i = s BY <2>2, <4>1
      <4>2. CASE i # s BY <1>2, <1>4, <1>11, <3>1, <4>2
      <4> QED BY <4>1, <4>2
    <3> QED BY <3>1 DEF OnlyConsentedActive
  <2>4. CASE u.pc = "done" BY <1>2, <1>3, <2>3, <2>4, ConsentNotMet
  <2>5. CASE u.pc = "bot" /\ u.query = "seed"
    <3>1. "seed" \notin Messages BY PipelineAssumption
    <3> QED BY <1>2, <1>4, <2>2, <2>3, <2>5, <3>1 DEF ConsentOf, Consented, IsToken, Said
  <2>6. CASE u.pc = "bot" /\ u.query = chat[t.sid].first /\ ~IsToken(chat[t.sid].first)
    <3>1. PICK q : q = chat[s].first OBVIOUS
    <3>2. q \in Messages => q \in chat[s].said
      BY <3>1, PipelineAssumption DEF RecordInv, FirstIsSaid
    <3>3. q \in Messages => ~IsToken(q)'
      <4>1. SUFFICES ASSUME q \in Messages PROVE ~IsToken(q)' OBVIOUS
      <4>2. run'[q].kind = run[q].kind BY <3>2, <4>1, KindsOfSaidStay
      <4>3. ~IsToken(q) BY <1>4, <2>6, <3>1
      <4> QED BY <4>2, <4>3 DEF IsToken
    <3>4. u.query = q /\ u.sid = s BY <1>2, <1>4, <2>6, <3>1
    <3> QED BY <2>2, <2>3, <2>6, <3>3, <3>4 DEF ConsentOf, Consented, IsToken, Said
  <2> QED BY <1>11, <2>4, <2>5, <2>6
<1> QED BY <1>2, <1>8, <1>9, <1>10, <1>11

LEMMA AskBotConsent ==
  ASSUME TypeOK, RecordInv, ConsentInv, NEW m \in Messages, Acts(m), AskBot(m)
  PROVE  ConsentKept(m)
<1>0. SUFFICES ASSUME AsksConsent PROVE OnlyConsentedActive /\ ConsentOf(m)' BY DEF ConsentKept
<1>1. Progress(m) /\ ConsentOf(m) BY <1>0 DEF RecordInv, ConsentInv
<1>2. /\ run[m].pc = "bot" /\ UNCHANGED sessions
      /\ run'[m].sid = run[m].sid /\ run'[m].query = run[m].query
      /\ run'[m].pc \in {"save", "send", "persist", "done"}
  BY <1>1, AskBotMoves, TerminalIs DEF AnswersEarly, Ends, Keeps
<1> QED BY <1>1, <1>2, ConsentCarried DEF OnlyConsentedActive

LEMMA SaveStateConsent ==
  ASSUME TypeOK, RecordInv, ConsentInv, NEW m \in Messages, Acts(m), SaveState(m)
  PROVE  ConsentKept(m)
<1>0. SUFFICES ASSUME AsksConsent PROVE OnlyConsentedActive /\ ConsentOf(m)' BY DEF ConsentKept
<1>1. Progress(m) /\ ConsentOf(m) BY <1>0 DEF RecordInv, ConsentInv
<1> DEFINE s == run[m].sid
<1>2. /\ s \in DOMAIN sessions /\ DOMAIN sessions' = DOMAIN sessions
      /\ run'[m].sid = s /\ run'[m].query = run[m].query /\ run'[m].bot = run[m].bot
      /\ run'[m].pc = Terminal
      /\ \A i \in DOMAIN sessions \ {s} : sessions'[i] = sessions[i]
      /\ \/ sessions'[s].status = "pending_review"
         \/ sessions'[s].status = sessions[s].status
  BY <1>1, SaveStateMoves
<1>3. OnlyConsentedActive BY <1>2 DEF OnlyConsentedActive
<1> QED BY <1>1, <1>2, <1>3, TerminalIs, ConsentCarried

LEMMA SendConsent ==
  ASSUME TypeOK, RecordInv, ConsentInv, NEW m \in Messages, Acts(m), Send(m)
  PROVE  ConsentKept(m)
<1>0. SUFFICES ASSUME AsksConsent PROVE OnlyConsentedActive /\ ConsentOf(m)' BY DEF ConsentKept
<1>1. Progress(m) /\ ConsentOf(m) BY <1>0 DEF RecordInv, ConsentInv
<1>2. /\ UNCHANGED sessions /\ run'[m].sid = run[m].sid /\ run'[m].query = run[m].query
      /\ run'[m].bot = run[m].bot /\ run'[m].pc \in {"persist", "done"}
  BY <1>1, SendMoves
<1> QED BY <1>1, <1>2, ConsentCarried DEF OnlyConsentedActive

LEMMA PersistConsent ==
  ASSUME TypeOK, RecordInv, ConsentInv, NEW m \in Messages, Acts(m), Persist(m)
  PROVE  ConsentKept(m)
<1>0. SUFFICES ASSUME AsksConsent PROVE OnlyConsentedActive /\ ConsentOf(m)' BY DEF ConsentKept
<1>1. Progress(m) /\ ConsentOf(m) BY <1>0 DEF RecordInv, ConsentInv
<1>2. /\ DOMAIN sessions' = DOMAIN sessions
      /\ \A i \in DOMAIN sessions : sessions'[i].status = sessions[i].status
      /\ run'[m].sid = run[m].sid /\ run'[m].query = run[m].query
      /\ run'[m].bot = run[m].bot /\ run'[m].pc = "done"
  BY <1>1, PersistMoves DEF Ends, Keeps
<1> QED BY <1>1, <1>2, ConsentCarried DEF OnlyConsentedActive

LEMMA SendAdHocConsent ==
  ASSUME TypeOK, RecordInv, ConsentInv, NEW m \in Messages, Acts(m), SendAdHoc(m)
  PROVE  ConsentKept(m)
<1>0. SUFFICES ASSUME AsksConsent PROVE OnlyConsentedActive /\ ConsentOf(m)' BY DEF ConsentKept
<1>1. Progress(m) /\ ConsentOf(m) BY <1>0 DEF RecordInv, ConsentInv
<1>2. /\ UNCHANGED sessions /\ run'[m].sid = run[m].sid /\ run'[m].query = run[m].query
      /\ run'[m].bot = run[m].bot /\ run'[m].pc = "done"
  BY <1>1, SendAdHocMoves
<1> QED BY <1>1, <1>2, ConsentCarried DEF OnlyConsentedActive

LEMMA TaskKeepsConsent ==
  ASSUME TypeOK, RecordInv, ConsentInv, NEW m \in Messages, ActionOf(m)
  PROVE  ConsentInv'
<1>1. Acts(m) BY TaskActs
<1>2. ConsentKept(m)
  BY <1>1, StartConsent, StartAdHocConsent, RetryConsent, ResolveConsent, EndOldConsent,
     CreateSessionConsent, ActivateConsent, RefuseTypeConsent, RecordConsent, ConsentFlowConsent,
     AskBotConsent, SaveStateConsent, SendConsent, PersistConsent, SendAdHocConsent
  DEF ActionOf, Stage
<1> QED BY <1>1, <1>2, ConsentByTask

-----------------------------------------------------------------------------
(* Tasks that run together.                                                *)

LEMMA OverlapNoted ==
  ASSUME TypeOK, NEW m \in Messages, ActionOf(m)
  PROVE  \/ /\ run[m].pc = "new" /\ \A other \in Running : {m, other} \in concurrent'
            /\ concurrent \subseteq concurrent'
         \/ m \in Running /\ concurrent' = concurrent
         \/ run'[m].pc = "new" /\ concurrent' = concurrent
<1>1. CASE (\E kind \in Kinds : Start(m, kind)) \/ StartAdHoc(m)
  BY <1>1 DEF Start, StartAdHoc, Overlap
<1>2. CASE Retry(m) BY <1>2, RetryMoves DEF Retry
<1>3. CASE Stage(m)
  BY <1>3 DEF Stage, Running, Resolve, EndOld, CreateSession, Activate, RefuseType, Record, ConsentFlow,
              AskBot, SaveState, Send, Persist, AtPersist, SendAdHoc
<1> QED BY <1>1, <1>2, <1>3 DEF ActionOf

LEMMA RunningOthers ==
  ASSUME NEW m \in Messages, Acts(m), NEW o \in Messages \ {m}
  PROVE  o \in Running' <=> o \in Running
BY DEF Acts, Running

LEMMA TaskKeepsPairs ==
  ASSUME TypeOK, RecordInv, Paired, NEW m \in Messages, ActionOf(m)
  PROVE  Paired'
<1>1. Acts(m) BY TaskActs
<1>2. \A o \in Messages \ {m} : o \in Running' <=> o \in Running BY <1>1, RunningOthers
<1>3. concurrent \subseteq concurrent' BY <1>1 DEF Acts
<1>4. ASSUME NEW o \in Running, o # m, m \in Running' PROVE {m, o} \in concurrent'
  <2>1. run'[m].pc # "new" BY <1>4 DEF Running
  <2> QED BY <1>3, <1>4, <2>1, OverlapNoted DEF Paired
<1>5. ASSUME NEW a \in Running', NEW b \in Running', a # b PROVE {a, b} \in concurrent'
  <2>0. a \in Messages /\ b \in Messages BY DEF Running
  <2>1. CASE a = m BY <1>2, <1>4, <1>5, <2>0, <2>1
  <2>2. CASE b = m
    <3>1. {b, a} \in concurrent' BY <1>2, <1>4, <1>5, <2>0, <2>2
    <3>2. {b, a} = {a, b} OBVIOUS
    <3> QED BY <3>1, <3>2
  <2>3. CASE a # m /\ b # m BY <1>2, <1>3, <1>5, <2>0, <2>3 DEF Paired
  <2> QED BY <2>1, <2>2, <2>3
<1> QED BY <1>5 DEF Paired

-----------------------------------------------------------------------------
(* What turns have stored.                                                 *)

\* A step saves nothing older than its copy, and loads what is stored.
Saves(m) ==
  /\ \A s \in DOMAIN sessions :
       /\ s \in DOMAIN sessions'
       /\ \/ sessions[s].state \subseteq sessions'[s].state
          \/ m \in Running /\ run[m].sid = s /\ run[m].row.state \subseteq sessions'[s].state
  /\ run'[m].saved =>
       /\ m \in Running
       /\ \/ run[m].saved /\ run'[m].sid = run[m].sid
          \/ m \in sessions'[run'[m].sid].state /\ m \in run'[m].row.state
  /\ m \in Running' =>
       \/ run'[m].sid = 0 \/ run'[m].sid \notin DOMAIN sessions
       \/ run'[m].row = sessions[run'[m].sid]
       \/ m \in Running /\ run'[m].sid = run[m].sid /\ run[m].row.state \subseteq run'[m].row.state

LEMMA TurnsByTask ==
  ASSUME TypeOK, RecordInv, Paired, TurnsInv, NEW m \in Messages, Acts(m), Saves(m)
  PROVE  TurnsInv'
<1>1. ASSUME NEW o \in Messages, ~WithOther(o)' PROVE ~WithOther(o) BY <1>1 DEF WithOther, Acts
<1>2. \A o \in Messages : run[o].saved => run[o].sid # 0 /\ run[o].sid \in DOMAIN sessions
  BY InSession DEF RecordInv, Progress
<1>3. \A o \in Messages \ {m} : run'[o] = run[o] BY DEF Acts
<1>4. ASSUME NEW o \in Messages, run[o].saved, ~WithOther(o)', run'[o].saved, run'[o].sid = run[o].sid
      PROVE  o \in sessions'[run'[o].sid].state
  <2> DEFINE s == run[o].sid
  <2>1. o \in sessions[s].state BY <1>1, <1>4 DEF TurnsInv, TurnsKept
  <2>2. s \in DOMAIN sessions BY <1>2, <1>4
  <2>3. m \in Running /\ run[m].sid = s => o \in run[m].row.state
    BY <1>1, <1>4 DEF TurnsInv, CopiesKeepTurns
  <2> HIDE DEF s
  <2>4. o \in sessions'[s].state BY <2>1, <2>2, <2>3 DEF Saves
  <2> QED BY <1>4, <2>4 DEF s
<1>5. ASSUME NEW o \in Messages, run'[o].saved, ~WithOther(o)'
      PROVE  o \in sessions'[run'[o].sid].state
  <2>1. CASE run[o].saved /\ run'[o].sid = run[o].sid BY <1>4, <1>5, <2>1
  <2>2. CASE o = m /\ m \in sessions'[run'[m].sid].state BY <2>2
  <2> QED BY <1>3, <1>5, <2>1, <2>2 DEF Saves
<1>6. ASSUME NEW o \in Messages, NEW x \in Running', run'[o].saved, ~WithOther(o)', run'[x].sid = run'[o].sid
      PROVE  o \in run'[x].row.state
  <2>0. x \in Messages BY DEF Running
  <2>1. CASE o # m /\ x # m
    <3>1. x \in Running BY <2>0, <2>1, RunningOthers
    <3> QED BY <1>1, <1>3, <1>6, <2>0, <2>1, <3>1 DEF TurnsInv, CopiesKeepTurns
  <2>2. CASE run[o].saved /\ run'[o].sid = run[o].sid /\ x = m
    <3>1. o \in sessions[run[o].sid].state BY <1>1, <1>6, <2>2 DEF TurnsInv, TurnsKept
    <3>2. m \in Running /\ run[m].sid = run[o].sid => o \in run[m].row.state
      BY <1>1, <1>6, <2>2 DEF TurnsInv, CopiesKeepTurns
    <3>3. run'[m].sid = run[o].sid /\ run[o].sid # 0 /\ run[o].sid \in DOMAIN sessions
      BY <1>2, <1>6, <2>2
    <3> QED BY <1>6, <2>2, <3>1, <3>2, <3>3 DEF Saves
  <2>3. CASE o = m /\ x = m /\ m \in run'[m].row.state BY <2>3
  <2>4. CASE o = m /\ x # m
    <3>1. m \in Running /\ x \in Running BY <1>6, <2>0, <2>4, RunningOthers DEF Saves
    <3>2. {m, x} \in concurrent BY <2>4, <3>1 DEF Paired
    <3>3. {m, x} \in concurrent' BY <3>2 DEF Acts
    <3> QED BY <1>6, <2>4, <3>3 DEF WithOther
  <2>5. (run[o].saved /\ run'[o].sid = run[o].sid) \/ (o = m /\ m \in run'[m].row.state)
    BY <1>3, <1>6 DEF Saves
  <2> QED BY <2>1, <2>2, <2>3, <2>4, <2>5
<1>7. TurnsKept' BY <1>5 DEF TurnsKept, WithOther
<1>8. CopiesKeepTurns' BY <1>6 DEF CopiesKeepTurns, WithOther, Running
<1> QED BY <1>7, <1>8 DEF TurnsInv

LEMMA RunningIs == \A m \in Messages : m \in Running <=> run[m].pc \notin {"new", "done"}
BY DEF Running

LEMMA TaskSaves ==
  ASSUME TypeOK, RecordInv, NEW m \in Messages, Acts(m), ActionOf(m)
  PROVE  Saves(m)
<1> DEFINE t == run[m]
           u == run'[m]
<1>1. Progress(m) BY DEF RecordInv
<1>2. DOMAIN sessions \subseteq DOMAIN sessions' BY AfterActs
<1>3. m \in Running <=> t.pc \notin {"new", "done"} BY RunningIs
<1>4. m \in Running' <=> u.pc \notin {"new", "done"} BY DEF Running
<1>5. t.pc \in BeforeBot => ~t.saved BY <1>1 DEF Progress
<1>6. ASSUME NEW kind \in Kinds, Start(m, kind) PROVE Saves(m)
  <2>1. UNCHANGED sessions /\ ~u.saved /\ u.sid = (IF channel.preset THEN 1 ELSE 0)
        /\ (u.pc # "done" /\ channel.preset => u.row = sessions[1])
    BY <1>1, <1>6, StartMoves
  <2> QED BY <1>2, <1>4, <2>1 DEF Saves
<1>7. CASE StartAdHoc(m)
  <2>1. UNCHANGED sessions /\ ~u.saved /\ (u.pc = "done" \/ u.row = sessions[u.sid])
    BY <1>7, StartAdHocMoves
  <2> QED BY <1>2, <1>4, <2>1 DEF Saves
<1>8. CASE Retry(m)
  <2>1. UNCHANGED sessions /\ ~u.saved /\ u.pc = "new" BY <1>8, RetryMoves
  <2> QED BY <1>2, <1>4, <2>1 DEF Saves
<1>9. CASE Resolve(m)
  <2>1. /\ UNCHANGED sessions /\ u.saved = t.saved /\ t.pc = "resolve"
        /\ (u.sid = 0 \/ u.row = sessions[u.sid])
    BY <1>9, ResolveMoves
  <2>2. ~t.saved BY <1>5, <2>1 DEF BeforeBot, BeforeRecord
  <2> QED BY <1>2, <2>1, <2>2 DEF Saves
<1>10. CASE EndOld(m)
  <2>1. /\ t.pc = "end" /\ Keeps(u, t) /\ t.sid \in DOMAIN sessions
        /\ \A i \in DOMAIN sessions :
             sessions'[i] = IF i = t.sid THEN EndedRow(t.row) ELSE sessions[i]
        /\ run'[m] = Goto(m, "create")
    BY <1>1, <1>10, EndOldMoves, Set DEF EndOld
  <2>2. u.row = t.row BY <2>1, GotoFields
  <2>3. EndedRow(t.row).state = t.row.state BY DEF EndedRow, TypeOK, Task, Row
  <2>4. m \in Running /\ ~t.saved BY <1>3, <1>5, <2>1 DEF BeforeBot, BeforeRecord
  <2> QED BY <1>2, <2>1, <2>2, <2>3, <2>4 DEF Saves, Keeps
<1>11. CASE CreateSession(m)
  <2>1. /\ t.pc = "create" /\ u.saved = t.saved /\ u.sid \notin DOMAIN sessions
        /\ \A s \in DOMAIN sessions : sessions'[s] = sessions[s]
    BY <1>11, CreateSessionMoves
  <2>2. ~t.saved BY <1>5, <2>1 DEF BeforeBot, BeforeRecord
  <2> QED BY <1>2, <2>1, <2>2 DEF Saves
<1>12. \A status \in OpenStatuses : [t.row EXCEPT !.status = status].state = t.row.state
  BY DEF TypeOK, Task, Row
<1>13. {"pending", "active"} \subseteq OpenStatuses BY DEF OpenStatuses
<1>14. CASE Activate(m)
  <2>1. /\ t.pc = "activate" /\ Keeps(u, t) /\ t.sid \in DOMAIN sessions
        /\ \/ UNCHANGED sessions /\ u.row = t.row
           \/ u.row = [t.row EXCEPT !.status = "active"]
              /\ \A i \in DOMAIN sessions : sessions'[i] = IF i = t.sid THEN u.row ELSE sessions[i]
    BY <1>1, <1>14, ActivateMoves
  <2>2. u.row.state = t.row.state BY <1>12, <1>13, <2>1
  <2>3. m \in Running /\ ~t.saved BY <1>3, <1>5, <2>1 DEF BeforeBot, BeforeRecord
  <2> QED BY <1>2, <2>1, <2>2, <2>3 DEF Saves, Keeps
<1>15. CASE RefuseType(m) \/ Record(m) \/ AskBot(m)
  <2>1. /\ t.pc \in {"record", "bot"} /\ UNCHANGED sessions /\ u.sid = t.sid /\ u.saved = t.saved
        /\ (u.row = t.row \/ u.pc = "done")
    BY <1>1, <1>15, RefuseTypeMoves, RecordMoves, AskBotMoves DEF AnswersEarly, Ends, Keeps
  <2>2. m \in Running /\ ~t.saved BY <1>3, <1>5, <2>1 DEF BeforeBot, BeforeRecord
  <2> QED BY <1>2, <1>4, <2>1, <2>2 DEF Saves
<1>16. CASE ConsentFlow(m)
  <2>1. /\ t.pc = "consent" /\ u.sid = t.sid /\ u.saved = t.saved /\ t.sid \in DOMAIN sessions
        /\ \/ UNCHANGED sessions /\ u.row = t.row
           \/ \E status \in {"pending", "active"} :
                /\ u.row = [t.row EXCEPT !.status = status]
                /\ \/ UNCHANGED sessions
                   \/ \A i \in DOMAIN sessions : sessions'[i] = IF i = t.sid THEN u.row ELSE sessions[i]
    BY <1>1, <1>16, ConsentFlowMoves DEF AnswersEarly, Keeps
  <2>2. u.row.state = t.row.state BY <1>12, <1>13, <2>1
  <2>3. m \in Running /\ ~t.saved BY <1>3, <1>5, <2>1 DEF BeforeBot, BeforeRecord
  <2> QED BY <1>2, <2>1, <2>2, <2>3 DEF Saves
<1>17. CASE SaveState(m)
  <2>1. /\ t.pc = "save" /\ u.sid = t.sid /\ t.sid \in DOMAIN sessions
        /\ u.row.state = t.row.state \cup {m} /\ sessions'[t.sid].state = t.row.state \cup {m}
        /\ \A i \in DOMAIN sessions \ {t.sid} : sessions'[i] = sessions[i]
    BY <1>1, <1>17, SaveStateMoves
  <2>2. m \in Running BY <1>3, <2>1
  <2> QED BY <1>2, <2>1, <2>2 DEF Saves
<1>18. CASE Send(m)
  <2>1. /\ t.pc = "send" /\ UNCHANGED sessions /\ u.sid = t.sid /\ u.saved = t.saved
        /\ (u.row = t.row \/ u.pc = "done")
    BY <1>1, <1>18, SendMoves
  <2> QED BY <1>2, <1>3, <1>4, <2>1 DEF Saves
<1>19. CASE Persist(m)
  <2>1. /\ t.pc = "persist" /\ u.sid = t.sid /\ u.saved = t.saved /\ u.pc = "done"
        /\ \A i \in DOMAIN sessions : sessions'[i].state = sessions[i].state
    BY <1>1, <1>19, PersistMoves DEF Ends, Keeps
  <2> QED BY <1>2, <1>3, <1>4, <2>1 DEF Saves
<1>20. CASE SendAdHoc(m)
  <2>1. t.pc = "send" /\ UNCHANGED sessions /\ u.sid = t.sid /\ u.saved = t.saved /\ u.pc = "done"
    BY <1>1, <1>20, SendAdHocMoves
  <2> QED BY <1>2, <1>3, <1>4, <2>1 DEF Saves
<1> QED BY <1>6, <1>7, <1>8, <1>9, <1>10, <1>11, <1>14, <1>15, <1>16, <1>17, <1>18, <1>19, <1>20
        DEF ActionOf, Stage

LEMMA TaskKeepsTurns ==
  ASSUME TypeOK, RecordInv, Paired, TurnsInv, NEW m \in Messages, ActionOf(m)
  PROVE  TurnsInv'
<1>1. Acts(m) BY TaskActs
<1>2. Saves(m) BY <1>1, TaskSaves
<1> QED BY <1>1, <1>2, TurnsByTask

-----------------------------------------------------------------------------
(* One conversation.                                                       *)

OpenIfNotEnded == \A s \in DOMAIN sessions : Open(s) <=> ~sessions[s].ended
OneOpen == \A s, other \in DOMAIN sessions : Open(s) /\ Open(other) => s = other

LEMMA AloneAtWork ==
  ASSUME TypeOK, RecordInv, Paired, NEW m \in Messages, ActionOf(m), concurrent' = {}
  PROVE  concurrent = {} /\ (m \in Running => Running = {m})
<1>1. concurrent = {} BY TaskActs DEF Acts
<1>2. ASSUME m \in Running, NEW o \in Running PROVE o = m BY <1>1, <1>2 DEF Paired
<1> QED BY <1>1, <1>2

\* A step that changes no session.
LEMMA SingleUnchanged ==
  ASSUME TypeOK, RecordInv, SingleInv, NEW m \in Messages, Acts(m), concurrent' = {} => concurrent = {},
         UNCHANGED sessions,
         SingleInv /\ concurrent = {} /\ ~channel.preset /\ m \in Running' => HoldsOpen(m)'
  PROVE  SingleInv'
<1>1. channel' = channel BY DEF Acts
<1>2. SUFFICES ASSUME concurrent' = {}, ~channel.preset
               PROVE  OpenIfNotEnded' /\ OneOpen' /\ \A o \in Running' : HoldsOpen(o)'
  BY <1>1 DEF SingleInv, OpenIfNotEnded, OneOpen
<1>3. OpenIfNotEnded /\ OneOpen /\ \A o \in Running : HoldsOpen(o)
  BY <1>2 DEF SingleInv, OpenIfNotEnded, OneOpen
<1>4. OpenIfNotEnded' /\ OneOpen' BY <1>3 DEF OpenIfNotEnded, OneOpen, Open
<1>5. ASSUME NEW o \in Running' PROVE HoldsOpen(o)'
  <2>0. o \in Messages BY DEF Running
  <2>1. CASE o = m BY <1>2, <1>5, <2>1
  <2>2. CASE o # m
    <3>1. o \in Running /\ run'[o] = run[o] BY <1>5, <2>0, <2>2, RunningOthers DEF Acts
    <3>2. HoldsOpen(o) BY <1>3, <3>1
    <3> QED BY <3>1, <3>2 DEF HoldsOpen, Open
  <2> QED BY <2>1, <2>2
<1> QED BY <1>4, <1>5

\* A step that changes the session of its task, the only one that runs.
LEMMA SingleChanged ==
  ASSUME TypeOK, RecordInv, SingleInv, Paired, NEW m \in Messages, ActionOf(m), m \in Running,
         OpenIfNotEnded /\ OneOpen /\ HoldsOpen(m) =>
           OpenIfNotEnded' /\ OneOpen' /\ (m \in Running' => HoldsOpen(m)')
  PROVE  SingleInv'
<1>0. Acts(m) BY TaskActs
<1>1. channel' = channel BY <1>0 DEF Acts
<1>2. SUFFICES ASSUME concurrent' = {}, ~channel.preset
               PROVE  OpenIfNotEnded' /\ OneOpen' /\ \A o \in Running' : HoldsOpen(o)'
  BY <1>1 DEF SingleInv, OpenIfNotEnded, OneOpen
<1>3. concurrent = {} /\ Running = {m} BY <1>2, AloneAtWork
<1>4. OpenIfNotEnded /\ OneOpen /\ HoldsOpen(m)
  BY <1>2, <1>3 DEF SingleInv, OpenIfNotEnded, OneOpen
<1>5. ASSUME NEW o \in Running' PROVE o = m
  <2>1. o \in Messages BY DEF Running
  <2> QED BY <1>0, <1>3, <1>5, <2>1, RunningOthers
<1> QED BY <1>4, <1>5

LEMMA TaskKeepsSingle ==
  ASSUME TypeOK, RecordInv, Paired, SingleInv, NEW m \in Messages, ActionOf(m)
  PROVE  SingleInv'
<1> DEFINE t == run[m]
           u == run'[m]
           s == run[m].sid
<1>1. Progress(m) BY DEF RecordInv
<1>2. Acts(m) /\ concurrent \subseteq concurrent' BY TaskActs DEF Acts
<1>3. m \in Running <=> t.pc \notin {"new", "done"} BY RunningIs
<1>4. m \in Running' <=> u.pc \notin {"new", "done"} BY DEF Running
<1>5. concurrent' = {} => concurrent = {} BY <1>2
<1>6. ASSUME UNCHANGED sessions, m \in Running' => u.pc \notin Holding \cup {"create"}
      PROVE  SingleInv'
  <2>1. m \in Running' => HoldsOpen(m)' BY <1>6 DEF HoldsOpen, Holding
  <2> QED BY <1>2, <1>5, <1>6, <2>1, SingleUnchanged
<1>7. ASSUME UNCHANGED sessions, t.pc \in Holding, m \in Running,
             (u.pc \in Holding /\ u.sid = t.sid /\ u.row = t.row) \/ u.pc \notin Holding \cup {"create"}
      PROVE  SingleInv'
  <2>1. SingleInv /\ concurrent = {} /\ ~channel.preset => HoldsOpen(m)
    BY <1>7 DEF SingleInv
  <2>2. HoldsOpen(m) => HoldsOpen(m)'
    <3>1. CASE u.pc \in Holding /\ u.sid = t.sid /\ u.row = t.row
      BY <1>7, <3>1 DEF HoldsOpen, Open, Holding
    <3>2. CASE u.pc \notin Holding \cup {"create"} BY <3>2 DEF HoldsOpen
    <3> QED BY <1>7, <3>1, <3>2
  <2> QED BY <1>2, <1>5, <1>7, <2>1, <2>2, SingleUnchanged
<1>8. ASSUME NEW kind \in Kinds, Start(m, kind) PROVE SingleInv'
  <2>1. UNCHANGED sessions /\ (u.pc \in {"done", "send", "persist", "resolve"} \/ channel.preset)
    BY <1>1, <1>8, StartMoves, TerminalIs
  <2>2. CASE channel.preset BY <1>2, <2>2 DEF SingleInv, Acts
  <2>3. CASE u.pc \in {"done", "send", "persist", "resolve"} BY <1>6, <2>1, <2>3 DEF Holding
  <2> QED BY <2>1, <2>2, <2>3
<1>9. CASE StartAdHoc(m)
  <2>1. UNCHANGED sessions /\ u.pc \in {"done", "send"} BY <1>9, StartAdHocMoves
  <2> QED BY <1>6, <2>1 DEF Holding
<1>10. CASE Retry(m)
  <2>1. UNCHANGED sessions /\ u.pc = "new" BY <1>10, RetryMoves
  <2> QED BY <1>6, <2>1 DEF Holding
<1>11. CASE Resolve(m)
  <2>1. /\ UNCHANGED sessions
        /\ \/ u.sid = 0 /\ u.pc = "create" /\ \A i \in DOMAIN sessions : ~Open(i)
           \/ /\ u.sid \in DOMAIN sessions /\ Open(u.sid) /\ u.row = sessions[u.sid]
              /\ u.pc \in {"end", "activate"}
    BY <1>11, ResolveMoves
  <2>2. HoldsOpen(m)'
    <3>1. CASE u.pc = "create" /\ \A i \in DOMAIN sessions : ~Open(i)
      BY <2>1, <3>1 DEF HoldsOpen, Open, Holding
    <3>2. CASE /\ u.sid \in DOMAIN sessions /\ Open(u.sid) /\ u.row = sessions[u.sid]
               /\ u.pc \in {"end", "activate"}
      BY <2>1, <3>2 DEF HoldsOpen, Open, Holding
    <3> QED BY <2>1, <3>1, <3>2
  <2> QED BY <1>2, <1>5, <2>1, <2>2, SingleUnchanged
<1>12. CASE EndOld(m)
  <2>1. /\ t.pc = "end" /\ u.pc = "create" /\ s \in DOMAIN sessions /\ DOMAIN sessions' = DOMAIN sessions
        /\ \A i \in DOMAIN sessions : sessions'[i] = IF i = s THEN EndedRow(t.row) ELSE sessions[i]
    BY <1>1, <1>12, EndOldMoves
  <2>2. EndedRow(t.row).status = "pending_review" /\ EndedRow(t.row).ended
    BY DEF EndedRow, TypeOK, Task, Row
  <2>3. ASSUME OpenIfNotEnded, OneOpen, HoldsOpen(m)
        PROVE  OpenIfNotEnded' /\ OneOpen' /\ HoldsOpen(m)'
    <3>1. Open(s) BY <2>1, <2>3 DEF HoldsOpen, Holding
    <3>2. \A i \in DOMAIN sessions' : i # s => ~Open(i)
      BY <2>1, <2>3, <3>1 DEF OneOpen
    <3>3. \A i \in DOMAIN sessions' : sessions'[i].status \notin OpenStatuses /\ sessions'[i].ended
      BY <2>1, <2>2, <2>3, <3>2 DEF Open, OpenStatuses, OpenIfNotEnded
    <3> QED BY <2>1, <3>3 DEF OpenIfNotEnded, OneOpen, HoldsOpen, Open, Holding
  <2> QED BY <1>3, <2>1, <2>3, SingleChanged
<1>13. CASE CreateSession(m)
  <2>1. /\ t.pc = "create" /\ u.row = NewRow("setup")
        /\ u.pc = "activate" \/ u.pc = Terminal
        /\ DOMAIN sessions' = DOMAIN sessions \cup {u.sid} /\ u.sid \notin DOMAIN sessions
        /\ sessions'[u.sid] = NewRow("setup")
        /\ \A i \in DOMAIN sessions : sessions'[i] = sessions[i]
    BY <1>13, CreateSessionMoves
  <2>2. NewRow("setup").status = "setup" /\ ~NewRow("setup").ended BY DEF NewRow
  <2>3. ASSUME OpenIfNotEnded, OneOpen, HoldsOpen(m)
        PROVE  OpenIfNotEnded' /\ OneOpen' /\ HoldsOpen(m)'
    <3>1. \A i \in DOMAIN sessions : sessions[i].status \notin OpenStatuses /\ sessions[i].ended
      BY <2>1, <2>3 DEF HoldsOpen, Open, OpenIfNotEnded
    <3>2. sessions'[u.sid].status \in OpenStatuses /\ ~sessions'[u.sid].ended
      BY <2>1, <2>2 DEF OpenStatuses
    <3>3. OpenIfNotEnded' /\ OneOpen' BY <2>1, <3>1, <3>2 DEF OpenIfNotEnded, OneOpen, Open
    <3>4. HoldsOpen(m)' BY <2>1, <3>2, TerminalIs DEF HoldsOpen, Open, Holding
    <3> QED BY <3>3, <3>4
  <2> QED BY <1>3, <2>1, <2>3, SingleChanged
<1>14. t.row \in Row /\ \A status \in OpenStatuses :
          /\ [t.row EXCEPT !.status = status].status = status
          /\ [t.row EXCEPT !.status = status].ended = t.row.ended
  BY DEF TypeOK, Task, Row
\* A task that goes on with the row it holds saves only another open status.
<1>15. ASSUME t.pc \in Holding, m \in Running, s \in DOMAIN sessions, DOMAIN sessions' = DOMAIN sessions,
              u.sid = t.sid, NEW status \in OpenStatuses, u.row = [t.row EXCEPT !.status = status],
              \/ UNCHANGED sessions /\ u.row = t.row
              \/ \A i \in DOMAIN sessions : sessions'[i] = IF i = s THEN u.row ELSE sessions[i],
              u.pc # "create"
       PROVE  SingleInv'
  <2>1. ASSUME OpenIfNotEnded, OneOpen, HoldsOpen(m)
        PROVE  OpenIfNotEnded' /\ OneOpen' /\ HoldsOpen(m)'
    <3>1. Open(s) /\ t.row = sessions[s] /\ ~sessions[s].ended
      BY <1>15, <2>1 DEF HoldsOpen, OpenIfNotEnded
    <3>2. u.row.status \in OpenStatuses /\ ~u.row.ended BY <1>14, <1>15, <3>1
    <3>3. sessions'[s] = u.row /\ \A i \in DOMAIN sessions : i # s => sessions'[i] = sessions[i]
      BY <1>15, <3>1
    <3>4. ASSUME NEW i \in DOMAIN sessions
          PROVE  /\ sessions'[i].status \in OpenStatuses <=> Open(i)
                 /\ sessions'[i].ended = sessions[i].ended
      <4>1. u.row.ended = sessions[s].ended BY <1>14, <1>15, <3>1
      <4>2. CASE i = s BY <3>1, <3>2, <3>3, <4>1, <4>2
      <4>3. CASE i # s BY <3>3, <4>3 DEF Open
      <4> QED BY <4>2, <4>3
    <3>5. OpenIfNotEnded' /\ OneOpen' BY <1>15, <2>1, <3>4 DEF OpenIfNotEnded, OneOpen, Open
    <3>6. HoldsOpen(m)' BY <1>15, <3>2, <3>3 DEF HoldsOpen, Open
    <3> QED BY <3>5, <3>6
  <2> QED BY <1>15, <2>1, SingleChanged
<1>16. {"pending", "active"} \subseteq OpenStatuses BY DEF OpenStatuses
<1>17. CASE Activate(m)
  <2>1. /\ t.pc = "activate" /\ Keeps(u, t) /\ u.pc = "record" /\ s \in DOMAIN sessions
        /\ DOMAIN sessions' = DOMAIN sessions
        /\ \/ UNCHANGED sessions /\ u.row = t.row
           \/ /\ u.row = [t.row EXCEPT !.status = "active"]
              /\ \/ UNCHANGED sessions /\ u.row = t.row
                 \/ \A i \in DOMAIN sessions : sessions'[i] = IF i = s THEN u.row ELSE sessions[i]
    BY <1>1, <1>17, ActivateMoves
  <2>2. t.pc \in Holding /\ u.pc \in Holding /\ m \in Running BY <1>3, <2>1 DEF Holding
  <2>3. CASE UNCHANGED sessions /\ u.row = t.row BY <1>7, <2>1, <2>2, <2>3 DEF Keeps
  <2>4. CASE /\ u.row = [t.row EXCEPT !.status = "active"]
             /\ \/ UNCHANGED sessions /\ u.row = t.row
                \/ \A i \in DOMAIN sessions : sessions'[i] = IF i = s THEN u.row ELSE sessions[i]
    BY <1>15, <1>16, <2>1, <2>2, <2>4 DEF Keeps
  <2> QED BY <2>1, <2>3, <2>4
<1>18. CASE RefuseType(m) \/ Record(m) \/ AskBot(m)
  <2>1. /\ t.pc \in {"record", "bot"} /\ UNCHANGED sessions
        /\ \/ u.pc \in {"consent", "save"} /\ u.sid = t.sid /\ u.row = t.row
           \/ u.pc \in {"send", "persist", "done"}
    BY <1>1, <1>18, RefuseTypeMoves, RecordMoves, AskBotMoves, TerminalIs DEF AnswersEarly, Ends, Keeps
  <2>2. m \in Running BY <1>3, <2>1
  <2> QED BY <1>7, <2>1, <2>2 DEF Holding
<1>19. CASE ConsentFlow(m)
  <2>1. /\ t.pc = "consent" /\ s \in DOMAIN sessions /\ DOMAIN sessions' = DOMAIN sessions /\ u.sid = s
        /\ u.pc \in {"bot", "send", "persist", "done"}
        /\ \/ UNCHANGED sessions /\ u.row = t.row
           \/ \E status \in {"pending", "active"} :
                /\ u.row = [t.row EXCEPT !.status = status]
                /\ \/ UNCHANGED sessions /\ u.row = t.row
                   \/ \A i \in DOMAIN sessions : sessions'[i] = IF i = s THEN u.row ELSE sessions[i]
    BY <1>1, <1>19, ConsentFlowMoves, TerminalIs DEF AnswersEarly, Keeps
  <2>2. m \in Running /\ t.pc \in Holding BY <1>3, <2>1 DEF Holding
  <2>3. CASE UNCHANGED sessions /\ u.row = t.row BY <1>7, <2>1, <2>2, <2>3 DEF Holding
  <2>4. CASE \E status \in {"pending", "active"} :
                /\ u.row = [t.row EXCEPT !.status = status]
                /\ \/ UNCHANGED sessions /\ u.row = t.row
                   \/ \A i \in DOMAIN sessions : sessions'[i] = IF i = s THEN u.row ELSE sessions[i]
    BY <1>15, <1>16, <2>1, <2>2, <2>4
  <2> QED BY <2>1, <2>3, <2>4
<1>20. CASE SaveState(m) \/ Persist(m)
  <2>1. /\ t.pc \in {"save", "persist"} /\ u.pc \in {"send", "persist", "done"}
        /\ DOMAIN sessions' = DOMAIN sessions
        /\ \A i \in DOMAIN sessions :
             \/ sessions'[i].status = "pending_review" /\ sessions'[i].ended
             \/ sessions'[i].status = sessions[i].status /\ sessions'[i].ended = sessions[i].ended
    BY <1>1, <1>20, SaveStateMoves, PersistMoves, TerminalIs DEF Ends
  <2>2. ASSUME OpenIfNotEnded, OneOpen PROVE OpenIfNotEnded' /\ OneOpen' /\ HoldsOpen(m)'
    <3>1. \A i \in DOMAIN sessions' : /\ sessions'[i].status \in OpenStatuses <=> ~sessions'[i].ended
                                      /\ sessions'[i].status \in OpenStatuses => Open(i)
      BY <2>1, <2>2 DEF OpenIfNotEnded, Open, OpenStatuses
    <3>2. OpenIfNotEnded' /\ OneOpen' BY <2>1, <2>2, <3>1 DEF OpenIfNotEnded, OneOpen, Open
    <3>3. HoldsOpen(m)' BY <2>1 DEF HoldsOpen, Holding
    <3> QED BY <3>2, <3>3
  <2>3. m \in Running BY <1>3, <2>1
  <2> QED BY <2>2, <2>3, SingleChanged
<1>21. CASE Send(m) \/ SendAdHoc(m)
  <2>1. UNCHANGED sessions /\ u.pc \in {"persist", "done"}
    BY <1>1, <1>21, SendMoves, SendAdHocMoves
  <2> QED BY <1>6, <2>1 DEF Holding
<1> QED BY <1>8, <1>9, <1>10, <1>11, <1>12, <1>13, <1>17, <1>18, <1>19, <1>20, <1>21
        DEF ActionOf, Stage

-----------------------------------------------------------------------------
(* The invariant.                                                          *)

LEMMA InitKeeps == Init => PipelineInv
<1> SUFFICES ASSUME Init PROVE PipelineInv OBVIOUS
<1>1. \A v \in Versions : Fresh("text", v, 0) \in Task
  <2>1. 0 \in 0 .. MaxRetries /\ "text" \in Kinds BY PipelineAssumption DEF Kinds
  <2> QED BY <2>1, TasksTyped
<1>2. \A v \in Versions :
        LET t == Fresh("text", v, 0)
        IN  /\ t.pc = "new" /\ t.kind = "text" /\ t.attempt = 0 /\ t.sid = 0 /\ t.query = "none"
            /\ ~t.bot /\ ~t.saved /\ ~t.sent
  BY DEF Fresh
<1>3. \A m \in Messages :
        /\ run[m] \in Task /\ run[m].pc = "new" /\ run[m].kind = "text" /\ run[m].attempt = 0
        /\ run[m].sid = 0 /\ run[m].query = "none" /\ ~run[m].bot /\ ~run[m].saved /\ ~run[m].sent
  BY <1>1, <1>2 DEF Init
<1>4. run \in [Messages -> Task] BY <1>1 DEF Init
<1>5. NewRow("active") \in Row /\ NoHistory \in History
  BY RowsTyped DEF OpenStatuses, NoHistory, History
<1>6. /\ sessions \in Seq(Row) /\ chat \in Seq(History) /\ Len(chat) = Len(sessions)
      /\ Len(sessions) <= 1 /\ Len(sessions) \in Nat /\ (channel.preset => Len(sessions) # 0)
      /\ (~channel.preset => DOMAIN sessions = {})
      /\ \A s \in DOMAIN chat : chat[s] = NoHistory
  <2>1. CASE channel.preset
    <3>1. sessions = <<NewRow("active")>> /\ chat = <<NoHistory>> BY <2>1 DEF Init
    <3> QED BY <1>5, <2>1, <3>1
  <2>2. CASE ~channel.preset
    <3>1. sessions = <<>> /\ chat = <<>> BY <2>2 DEF Init
    <3> QED BY <2>2, <3>1
  <2> QED BY <2>1, <2>2
<1>7. TypeOK
  <2>1. Len(sessions) <= MaxSessions BY <1>6, PipelineAssumption
  <2>2. consent \in {"absent", "unset", "yes", "no"} BY DEF Init
  <2> QED BY <1>4, <1>6, <2>1, <2>2 DEF TypeOK, Init
<1>8. Running = {} BY <1>3 DEF Running
<1>9. \A m \in Messages : Progress(m) /\ Stored(m)
  <2>1. "none" \notin Messages BY PipelineAssumption
  <2>2. \A m \in Messages : Progress(m) BY <1>3, <1>6, <2>1 DEF Progress, Holding
  <2>3. \A m \in Messages : Stored(m) BY <1>3, <1>6 DEF Stored, Answers, NoHistory
  <2> QED BY <2>2, <2>3
<1>10. RecordInv
  <2>1. SaidInTime /\ FirstIsSaid BY <1>6 DEF SaidInTime, FirstIsSaid, NoHistory
  <2>2. DeliveredIsRecorded BY <1>3 DEF DeliveredIsRecorded
  <2> QED BY <1>9, <2>1, <2>2 DEF RecordInv
<1>11. ConsentInv
  <2>1. \A m \in Messages : ConsentOf(m) BY <1>3 DEF ConsentOf
  <2> QED BY <1>6, <2>1 DEF ConsentInv, AsksConsent
<1>12. SingleInv BY <1>6, <1>8 DEF SingleInv
<1>13. Paired /\ TurnsInv BY <1>3, <1>8 DEF Paired, TurnsInv, TurnsKept, CopiesKeepTurns
<1> QED BY <1>7, <1>10, <1>11, <1>12, <1>13 DEF PipelineInv

\* Everything but the flag of the consent stays, or nothing changes at all.
LEMMA QuietKeeps ==
  ASSUME PipelineInv, consent' \in {"absent", "unset", "yes", "no"},
         UNCHANGED <<channel, sessions, chat, run, concurrent>>
  PROVE  PipelineInv'
<1>1. TypeOK' BY DEF PipelineInv, TypeOK
<1>2. RecordInv'
  BY DEF PipelineInv, RecordInv, Progress, Stored, SaidInTime, FirstIsSaid, DeliveredIsRecorded, Answers, Done
<1>3. ConsentInv'
  BY DEF PipelineInv, ConsentInv, ConsentOf, Consented, ConsentedBefore, IsToken, Said, AsksConsent
<1>4. Running' = Running BY DEF Running
<1>5. SingleInv' /\ Paired' BY <1>4 DEF PipelineInv, SingleInv, Paired, HoldsOpen, Open
<1>6. TurnsInv' BY <1>4 DEF PipelineInv, TurnsInv, TurnsKept, CopiesKeepTurns, WithOther
<1> QED BY <1>1, <1>2, <1>3, <1>5, <1>6 DEF PipelineInv

LEMMA NextKeeps == PipelineInv /\ [Next]_vars => PipelineInv'
<1> SUFFICES ASSUME PipelineInv, [Next]_vars PROVE PipelineInv' OBVIOUS
<1>1. ASSUME NEW m \in Messages, ActionOf(m) PROVE PipelineInv'
  <2>1. TypeOK /\ RecordInv /\ ConsentInv /\ Paired /\ SingleInv /\ TurnsInv BY DEF PipelineInv
  <2>2. TypeOK' BY <1>1, <2>1, TaskActs DEF Acts
  <2>3. RecordInv' BY <1>1, <2>1, TaskKeepsRecord
  <2>4. ConsentInv' BY <1>1, <2>1, TaskKeepsConsent
  <2>5. Paired' BY <1>1, <2>1, TaskKeepsPairs
  <2>6. SingleInv' BY <1>1, <2>1, TaskKeepsSingle
  <2>7. TurnsInv' BY <1>1, <2>1, TaskKeepsTurns
  <2> QED BY <2>2, <2>3, <2>4, <2>5, <2>6, <2>7 DEF PipelineInv
<1>2. CASE SetConsent BY <1>2, QuietKeeps DEF SetConsent
<1>3. CASE UNCHANGED vars BY <1>3, QuietKeeps DEF vars, PipelineInv, TypeOK
<1> QED BY <1>1, <1>2, <1>3 DEF Next, ActionOf

\* Whatever tasks overlap, fail and are retried, the invariant holds (channels/tasks.py, stages/).
THEOREM PipelineSafety == Spec => []PipelineInv
<1>1. Init => PipelineInv BY InitKeeps
<1>2. PipelineInv /\ [Next]_vars => PipelineInv' BY NextKeeps
<1> QED BY <1>1, <1>2, PTL DEF Spec

\* Whatever reached the participant is in the history once its task is over,
\* and no attempt stores an answer twice (stages/terminal.py:264).
THEOREM AnswersRecorded == Spec => []AnswersOnRecord
<1>1. PipelineInv => AnswersOnRecord
  <2> SUFFICES ASSUME PipelineInv PROVE AnswersOnRecord OBVIOUS
  <2>1. TypeOK /\ RecordInv BY DEF PipelineInv
  <2>2. ASSUME NEW m \in Messages, NEW s \in DOMAIN sessions, run[m].kind # "unsupported"
        PROVE  Answers(s, m) <= run[m].attempt + 1
    <3>1. s \in DOMAIN chat /\ chat[s].answers[m] \in Nat BY <2>1, Domains DEF History
    <3>2. run[m].attempt \in Nat BY <2>1, PipelineAssumption DEF TypeOK, Task
    <3>3. Answers(s, m) <= run[m].attempt + (IF run[m].pc = "done" \/ run[m].bot THEN 1 ELSE 0)
      BY <2>1, <2>2, <3>1 DEF RecordInv, Stored
    <3> QED BY <3>1, <3>2, <3>3 DEF Answers
  <2> QED BY <2>1, <2>2 DEF AnswersOnRecord, RecordInv, AnswersStoredOnce
<1> QED BY <1>1, PipelineSafety, PTL

\* No message goes to the bot before the consent, and the consent never does (stages/core.py).
THEOREM BotWaitsForConsent == Spec => []BotAfterConsent
<1>1. PipelineInv => BotAfterConsent
  <2> SUFFICES ASSUME PipelineInv PROVE BotAfterConsent OBVIOUS
  <2>1. ASSUME NEW m \in Messages, AsksConsent, run[m].bot
        PROVE  /\ Consented(run[m].sid)
               /\ run[m].query \in Messages /\ IsToken(run[m].query)
                    => run[m].query = m /\ ConsentedBefore(m, run[m].sid)
    BY <2>1 DEF PipelineInv, ConsentInv, ConsentOf
  <2>2. ConsentBeforeBot BY <2>1 DEF ConsentBeforeBot, Consented
  <2>3. TokenNotForwarded BY <2>1 DEF TokenNotForwarded, ConsentedBefore
  <2> QED BY <2>2, <2>3 DEF BotAfterConsent
<1> QED BY <1>1, PipelineSafety, PTL

\* A participant whose messages never overlap has one conversation (stages/core.py).
THEOREM OneConversationAtATime == Spec => []OneConversation
<1>1. PipelineInv => OneConversation BY DEF PipelineInv, SingleInv, OneConversation
<1> QED BY <1>1, PipelineSafety, PTL

\* Only a message that was in progress at the same time loses a turn (stages/core.py).
THEOREM TurnsAreKept == Spec => []TurnsKept
<1>1. PipelineInv => TurnsKept BY DEF PipelineInv, TurnsInv
<1> QED BY <1>1, PipelineSafety, PTL

\* After a block nothing is sent any more, and no late task undoes it (channels/tasks.py).
THEOREM BlockStays == Spec => BlockIsFinal
<1> DEFINE Quiet == LeftAlone => LeftAlone' /\ \A m \in Messages : run'[m].sent => run[m].sent
<1>1. PipelineInv /\ [Next]_vars => [Quiet]_vars
  <2> SUFFICES ASSUME PipelineInv, Next, LeftAlone
               PROVE  LeftAlone' /\ \A m \in Messages : run'[m].sent => run[m].sent
    OBVIOUS
  <2>1. channel.gate = "lenient" /\ consent = "no" /\ Running = {} /\ TypeOK /\ RecordInv
    BY DEF LeftAlone, PipelineInv
  <2>2. \A m \in Messages : run[m].pc \in {"new", "done"} BY <2>1, RunningIs
  <2>3. ~SetConsent BY <2>1 DEF SetConsent
  <2>4. \A m \in Messages : ~Stage(m)
    BY <2>2 DEF Stage, Resolve, EndOld, CreateSession, Activate, RefuseType, Record, ConsentFlow,
                AskBot, SaveState, Send, Persist, AtPersist, SendAdHoc
  <2>5. GateBlocks BY <2>1 DEF GateBlocks
  <2>6. ASSUME NEW m \in Messages, Acts(m), UNCHANGED consent,
               run'[m].pc \in {"new", "done"}, run'[m].sent => run[m].sent
        PROVE  LeftAlone' /\ \A o \in Messages : run'[o].sent => run[o].sent
    <3>1. channel' = channel /\ \A o \in Messages \ {m} : run'[o] = run[o] BY <2>6 DEF Acts
    <3>2. Running' = {} BY <2>2, <2>6, <3>1 DEF Running
    <3> QED BY <2>1, <2>6, <3>1, <3>2 DEF LeftAlone
  <2>7. ASSUME NEW m \in Messages, NEW kind \in Kinds, Start(m, kind)
        PROVE  LeftAlone' /\ \A o \in Messages : run'[o].sent => run[o].sent
    <3>1. Step(m, Finish(Given(m, kind), "silent")) /\ UNCHANGED consent
      BY <2>5, <2>7 DEF Start
    <3>2. Progress(m) BY <2>1 DEF RecordInv
    <3>3. Acts(m) /\ ~run'[m].sent BY <2>1, <2>7, <3>2, StartMoves, StartActs
    <3>4. run'[m] = Finish(Given(m, kind), "silent") BY <2>1, <3>1, Set
    <3>5. run'[m].pc = "done" BY <2>1, <2>7, <3>2, <3>4, GivenTyped, TasksTyped
    <3> QED BY <2>6, <3>1, <3>3, <3>5
  <2>8. ASSUME NEW m \in Messages, StartAdHoc(m)
        PROVE  LeftAlone' /\ \A o \in Messages : run'[o].sent => run[o].sent
    <3>1. UNCHANGED consent BY <2>8 DEF StartAdHoc
    <3>2. Acts(m) /\ ~run'[m].sent BY <2>1, <2>8, StartAdHocMoves, StartAdHocActs
    <3>3. run'[m].pc = "done"
      <4>1. \E t : Step(m, Finish(t, "silent")) BY <2>5, <2>8 DEF StartAdHoc
      <4>2. PICK t : run'[m] = Finish(t, "silent") BY <2>1, <4>1, Set
      <4> QED BY <4>2 DEF Finish
    <3> QED BY <2>6, <3>1, <3>2, <3>3
  <2>9. ASSUME NEW m \in Messages, Retry(m)
        PROVE  LeftAlone' /\ \A o \in Messages : run'[o].sent => run[o].sent
    <3>1. Acts(m) /\ run'[m].pc = "new" BY <2>1, <2>9, RetryActs, RetryMoves
    <3>2. UNCHANGED consent BY <2>9 DEF Retry
    <3>3. run'[m].sent = run[m].sent
      <4> DEFINE f == Fresh(run[m].kind, run[m].version, run[m].attempt + 1)
      <4>1. Step(m, [f EXCEPT !.sent = run[m].sent]) BY <2>9 DEF Retry
      <4>2. run'[m] = [f EXCEPT !.sent = run[m].sent] BY <2>1, <4>1, Set
      <4> QED BY <4>2 DEF Fresh
    <3> QED BY <2>6, <3>1, <3>2, <3>3
  <2> QED BY <2>3, <2>4, <2>7, <2>8, <2>9 DEF Next
<1> QED BY <1>1, PipelineSafety, PTL DEF Spec, BlockIsFinal
=============================================================================
