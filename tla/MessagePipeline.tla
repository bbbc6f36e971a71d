---------------------------- MODULE MessagePipeline ----------------------------
(***************************************************************************)
(* The processing of the messages of one participant of one chatbot        *)
(* (src/apps/channels): every message is a task of its own that runs the   *)
(* stages of its channel's pipeline.  A task reads the session row once    *)
(* (`row`) and writes the row back from that copy, so tasks of the same    *)
(* participant that overlap may undo each other's writes.                  *)
(***************************************************************************)
EXTENDS Naturals, Sequences, FiniteSets, FiniteSetsExt

CONSTANTS Messages,     \* the messages of the participant and of the bot
          Versions,     \* the chatbot versions a message can be answered by
          Channels,     \* the channel configurations of the instance
          MaxSessions,  \* bound: sessions the participant may come to have
          MaxOverlap,   \* bound: tasks of the participant running at once
          MaxRetries    \* max_retries of the task (0 where it has none)

ASSUME PipelineAssumption ==
    /\ MaxOverlap \in Nat /\ MaxRetries \in Nat /\ MaxSessions \in Nat \ {0}
    /\ "none" \notin Messages /\ "seed" \notin Messages

Kinds == {"text", "token", "reset", "voice", "unsupported", "adhoc"}

(* What a channel brings: `preset` (the session is given), `sends` (the     *)
(* terminal stages send the answer), `gate` (its platform consent gate),    *)
(* `conv` (it supports conversational consent and the chatbot asks for it), *)
(* `form` (the chatbot asks for consent), `seed`, `retries`, the kinds of   *)
(* messages that arrive on it, and (a bound) which messages do.             *)
ChannelRecord == [preset: BOOLEAN, sends: BOOLEAN, gate: {"none", "lenient", "strict"},
                  conv: BOOLEAN, form: BOOLEAN, seed: BOOLEAN, retries: BOOLEAN, kinds: SUBSET Kinds,
                  arrivals: SUBSET Messages]

(* E-mail, whose tasks alone are retried, has no conversational consent.    *)
ASSUME ChannelAssumption ==
    Channels \subseteq ChannelRecord /\ \A c \in Channels : c.retries => ~c.conv

OpenStatuses == {"setup", "pending", "active"}
Row == [status: OpenStatuses \cup {"pending_review"}, ended: BOOLEAN,
        state: SUBSET Messages, versions: SUBSET Versions]
NewRow(status) == [status |-> status, ended |-> FALSE, state |-> {}, versions |-> {}]

(* A chat history: its first human message, the human messages, and how     *)
(* often each message was answered.  Nothing depends on more of its order.  *)
History == [first: Messages \cup {"none"}, said: SUBSET Messages, answers: [Messages -> Nat]]
NoHistory == [first |-> "none", said |-> {}, answers |-> [m \in Messages |-> 0]]

VARIABLES channel,     \* the configuration of the channel; never changes
          consent,     \* ParticipantData.system_metadata["consent"], "absent" without a row
          sessions,    \* the rows of the participant's sessions, oldest first
          chat,        \* the chat history of each session
          run,         \* the task of each message: its context and its progress
          concurrent   \* history: pairs of messages that were in progress together

vars == <<channel, consent, sessions, chat, run, concurrent>>

Task == [pc: {"new", "resolve", "end", "create", "activate", "record", "consent",
              "bot", "save", "send", "persist", "done"},
         kind: Kinds, version: Versions, attempt: 0..MaxRetries,
         sid: 0..MaxSessions, row: Row, query: Messages \cup {"none", "seed"},
         human: BOOLEAN, reply: {"none", "early", "bot", "event"}, bot: BOOLEAN,
         raises: BOOLEAN, saved: BOOLEAN, sent: BOOLEAN,
         outcome: {"none", "answered", "silent", "cancelled", "raised"}]

Fresh(kind, version, attempt) ==
    [pc |-> "new", kind |-> kind, version |-> version, attempt |-> attempt, sid |-> 0,
     row |-> NewRow("setup"), query |-> "none", human |-> FALSE, reply |-> "none",
     bot |-> FALSE, raises |-> FALSE, saved |-> FALSE,
     sent |-> FALSE, outcome |-> "none"]

TypeOK ==
    /\ channel \in Channels
    /\ consent \in {"absent", "unset", "yes", "no"}
    /\ sessions \in Seq(Row) /\ Len(sessions) <= MaxSessions
    /\ chat \in Seq(History) /\ Len(chat) = Len(sessions)
    /\ run \in [Messages -> Task]
    /\ concurrent \subseteq SUBSET Messages

Init ==
    /\ channel \in Channels
    /\ consent \in IF channel.gate = "none" THEN {"unset"}
                   ELSE IF channel.gate = "lenient" THEN {"absent", "unset"} ELSE {"absent", "yes"}
    /\ sessions = IF channel.preset THEN <<NewRow("active")>> ELSE <<>>
    /\ chat = IF channel.preset THEN <<NoHistory>> ELSE <<>>
    /\ run \in [Messages -> {Fresh("text", v, 0) : v \in Versions}]
    /\ concurrent = {}

--------------------------------------------------------------------------------
Running == {m \in Messages : run[m].pc \notin {"new", "done"}}
Open(s) == sessions[s].status \in OpenStatuses
NewestActive == LET active == {s \in DOMAIN sessions : sessions[s].status = "active"}  \* mutant
                IN  IF active = {} THEN 0 ELSE Max(active)
NewestOpen == LET open == {s \in DOMAIN sessions : Open(s)}
              IN  IF open = {} THEN 0 ELSE Max(open)

GateBlocksStrict == channel.gate = "strict" /\ consent # "yes"  \* mutant
GateBlocks == \/ channel.gate = "strict" /\ consent # "yes"
              \/ channel.gate = "lenient" /\ consent = "no"

(* The first terminal stage of the channel's pipeline. *)
Terminal == IF channel.sends THEN "send" ELSE "persist"
Goto(m, pc) == [run[m] EXCEPT !.pc = pc]
Early(t) == [t EXCEPT !.pc = Terminal, !.reply = "early"]
Finish(t, outcome) == [t EXCEPT !.pc = "done", !.outcome = outcome, !.reply = "none",
                                !.raises = FALSE, !.row = NewRow("setup")]
Step(m, t) == run' = [run EXCEPT ![m] = t]
SaveRow(s, row) == sessions' = [sessions EXCEPT ![s] = row]
Answer(s, m) == chat' = [chat EXCEPT ![s].answers[m] = @ + 1]
Ask(s, m) == chat' = [chat EXCEPT ![s].said = @ \cup {m},
                                  ![s].first = IF @ = "none" THEN m ELSE @]
Overlap(m) == concurrent' = concurrent \cup {{m, other} : other \in Running}

--------------------------------------------------------------------------------
(* The task of message m starts: the participant stages, the platform       *)
(* consent gate and the channel switch, which an administrator may flip at  *)
(* any time.                                                                *)
Given(m, kind) ==
    [Fresh(kind, run[m].version, run[m].attempt) EXCEPT
        !.sid = IF channel.preset THEN 1 ELSE 0,
        !.row = IF channel.preset THEN sessions[1] ELSE @]

ChannelDisabled(m, t) == Step(m, Finish(t, "silent")) \/ Step(m, Early(t))

Start(m, kind) ==
    /\ run[m].pc = "new" /\ Cardinality(Running) < MaxOverlap
    /\ m \in channel.arrivals /\ kind \in channel.kinds \ {"adhoc"} /\ (run[m].attempt > 0 => kind = run[m].kind)
    /\ LET t == Given(m, kind)
       IN  \/ GateBlocks /\ Step(m, Finish(t, "silent"))
           \/ ~GateBlocks /\ ChannelDisabled(m, t)
           \/ ~GateBlocks /\ Step(m, [t EXCEPT !.pc = IF channel.preset THEN "activate" ELSE "resolve"])
    /\ Overlap(m)
    /\ UNCHANGED <<channel, consent, sessions, chat>>

(* SessionResolutionStage: the newest session that is not complete; /reset  *)
(* ends it first and always opens another.                                  *)
Resolve(m) ==
    /\ run[m].pc = "resolve"
    /\ LET s == NewestOpen IN
       Step(m, [run[m] EXCEPT
                  !.pc = IF s = 0 THEN "create"
                         ELSE IF run[m].kind = "reset" THEN "end" ELSE "activate",
                  !.sid = s,
                  !.row = IF s = 0 THEN @ ELSE sessions[s]])
    /\ UNCHANGED <<channel, consent, sessions, chat, concurrent>>

EndedRow(row) == [row EXCEPT !.status = "pending_review", !.ended = TRUE]

EndOld(m) ==
    /\ run[m].pc = "end"
    /\ SaveRow(run[m].sid, EndedRow(run[m].row))
    /\ Step(m, Goto(m, "create"))
    /\ UNCHANGED <<channel, consent, chat, concurrent>>

CreateSession(m) ==
    /\ run[m].pc = "create" /\ Len(sessions) < MaxSessions
    /\ sessions' = Append(sessions, NewRow("setup"))
    /\ chat' = Append(chat, NoHistory)
    /\ LET t == [run[m] EXCEPT !.sid = Len(sessions) + 1, !.row = NewRow("setup"),
                               !.pc = "activate"]
       IN  Step(m, IF t.kind = "reset" THEN Early(t) ELSE t)
    /\ UNCHANGED <<channel, consent, concurrent>>

(* update_status: a full save of the copy, skipped when nothing changes.    *)
UpdateStatus(m, status, t) ==
    LET row == [run[m].row EXCEPT !.status = status]
    IN  /\ IF row = run[m].row THEN UNCHANGED sessions ELSE SaveRow(run[m].sid, row)
        /\ Step(m, [t EXCEPT !.row = row])

Activate(m) ==
    /\ run[m].pc = "activate"
    /\ IF channel.form THEN UNCHANGED sessions /\ Step(m, Goto(m, "record"))
                       ELSE UpdateStatus(m, "active", Goto(m, "record"))
    /\ UNCHANGED <<channel, consent, chat, concurrent>>

(* MessageTypeValidationStage refuses; EventBot's answer enters the history *)
(* unless generating it failed.                                             *)
RefuseType(m) ==
    /\ run[m].pc = "record" /\ run[m].kind = "unsupported"
    /\ Step(m, Early(run[m]))
    /\ Answer(run[m].sid, m) \/ UNCHANGED chat
    /\ UNCHANGED <<channel, consent, sessions, concurrent>>

(* QueryExtractionStage and ChatMessageCreationStage.  A voice note that    *)
(* cannot be transcribed is an unexpected exception.                        *)
Record(m) ==
    /\ run[m].pc = "record" /\ run[m].kind # "unsupported"
    /\ \/ /\ Ask(run[m].sid, m)
          /\ Step(m, [run[m] EXCEPT !.pc = "consent", !.human = TRUE, !.query = m])
       \/ /\ run[m].kind = "voice"
          /\ Step(m, [Early(run[m]) EXCEPT !.raises = TRUE])
          /\ UNCHANGED chat
    /\ UNCHANGED <<channel, consent, sessions, concurrent>>

IsToken(m) == run[m].kind = "token"
AnyReply(m) == TRUE  \* mutant
GaveConsent(m) == IsToken(m)
AnyMessage(m) == TRUE  \* mutant
Substantive(m) == ~IsToken(m)

(* ConsentFlowStage: SETUP -> PENDING -> ACTIVE.                            *)
ConsentFlow(m) ==
    /\ run[m].pc = "consent"
    /\ LET status == run[m].row.status
           original == chat[run[m].sid].first IN
       \/ /\ ~(channel.conv /\ channel.form /\ status \in {"setup", "pending"})
          /\ Step(m, Goto(m, "bot")) /\ UNCHANGED sessions
       \/ /\ channel.conv /\ channel.form /\ status = "setup"
          /\ UpdateStatus(m, "pending", Early(run[m]))
       \/ /\ channel.conv /\ channel.form /\ status = "pending" /\ ~GaveConsent(m)
          /\ Step(m, Early(run[m])) /\ UNCHANGED sessions
       \/ /\ channel.conv /\ channel.form /\ status = "pending" /\ GaveConsent(m)
          /\ UpdateStatus(m, "active",
                IF Substantive(original) THEN [Goto(m, "bot") EXCEPT !.query = original]
                ELSE IF channel.seed THEN [Goto(m, "bot") EXCEPT !.query = "seed"]
                ELSE Finish(run[m], "silent"))
    /\ UNCHANGED <<channel, consent, chat, concurrent>>

(* BotInteractionStage: the bot answers and its answer enters the history,  *)
(* or it fails: misconfigured (answered, not raised), cancelled (nothing    *)
(* more runs), anything else (answered and raised).  It creates the         *)
(* participant's data row when there is none.                               *)
BotFails(m) == \/ Step(m, Early(run[m]))
               \/ Step(m, Finish(run[m], "cancelled"))
               \/ Step(m, [Early(run[m]) EXCEPT !.raises = TRUE])

AskBot(m) ==
    /\ run[m].pc = "bot"
    /\ consent' = IF consent = "absent" THEN "unset" ELSE consent
    /\ \/ /\ Answer(run[m].sid, m)
          /\ Step(m, [Goto(m, "save") EXCEPT !.bot = TRUE, !.reply = "bot"])
       \/ BotFails(m) /\ UNCHANGED chat
    /\ UNCHANGED <<channel, sessions, concurrent>>

(* _persist_pipeline_state stores the session state the pipeline computed   *)
(* from the copy; an END_SESSION intent ends the session; then the answer   *)
(* is formatted, which may raise.                                           *)
OnlyTurn(state, m) == {m}  \* mutant
AddTurn(state, m) == state \cup {m}
Formatted(t, fails) == IF fails THEN [Early(t) EXCEPT !.raises = TRUE] ELSE [t EXCEPT !.pc = Terminal]
SaveState(m) ==
    /\ run[m].pc = "save"
    /\ \E ends, fails \in BOOLEAN :
         LET s == run[m].sid
             row == [run[m].row EXCEPT !.state = AddTurn(@, m)]
             saved == IF ends THEN EndedRow(row) ELSE row
         IN  /\ IF ends THEN SaveRow(s, saved) ELSE sessions' = [sessions EXCEPT ![s].state = row.state]
             /\ Step(m, Formatted([run[m] EXCEPT !.row = saved, !.saved = TRUE], fails))
    /\ UNCHANGED <<channel, consent, chat, concurrent>>

(* ResponseSendingStage and SendingErrorHandlerStage.  A failure may follow *)
(* a text that got through (a file, the flush); one that no handler knows   *)
(* (a file whose link cannot be built) fails the task on the spot.  The     *)
(* Telegram handler takes "bot was blocked" as the end of the consent.      *)
RevokeConsent == consent' = IF consent = "absent" THEN "absent" ELSE "no"
UnknownFailure(m) == run[m].reply = "bot" /\ Step(m, Finish([run[m] EXCEPT !.sent = TRUE], "raised"))

Send(m) ==
    /\ run[m].pc = "send" /\ run[m].kind # "adhoc"
    /\ \/ /\ \E through \in BOOLEAN :
               Step(m, [Goto(m, "persist") EXCEPT !.sent = run[m].sent \/ through])
          /\ UNCHANGED consent
       \/ channel.gate = "lenient" /\ RevokeConsent /\ Step(m, Goto(m, "persist"))
       \/ UnknownFailure(m) /\ UNCHANGED consent
    /\ UNCHANGED <<channel, sessions, chat, concurrent>>

(* PersistenceStage and ActivityTrackingStage, then the exception, if any,  *)
(* is raised again.                                                         *)
Persists(t) == t.sid # 0 /\ t.kind # "reset"
StoresRepliesTo(t) == Persists(t) /\ t.reply = "early" /\ ~t.bot /\ t.human  \* mutant
StoresEvery(t) == Persists(t) /\ t.reply = "early"  \* mutant
StoresAnswer(t) == Persists(t) /\ t.reply = "early" /\ ~t.bot
AtPersistWithSession(t) == t.pc = "persist" /\ t.sid # 0  \* mutant
AtPersist(t) == t.pc = "persist"
Persist(m) ==
    /\ AtPersist(run[m])
    /\ LET t == run[m]
           s == run[m].sid
           versions == t.row.versions \cup {t.version}
       IN  /\ IF StoresAnswer(t) THEN Answer(s, m) ELSE UNCHANGED chat
           /\ IF s = 0 \/ versions = t.row.versions THEN UNCHANGED sessions
              ELSE sessions' = [sessions EXCEPT ![s].versions = versions]
           /\ Step(m, Finish(t, IF t.raises THEN "raised" ELSE "answered"))
    /\ UNCHANGED <<channel, consent, concurrent>>

(* Celery runs the task of an e-mail again when it raised.                  *)
MayRetry(t) == t.attempt < MaxRetries
Retry(m) ==
    /\ run[m].pc = "done" /\ run[m].outcome = "raised"
    /\ channel.retries /\ MayRetry(run[m]) /\ run[m].kind # "adhoc"
    /\ \A other \in Messages \ {m} : run[other].attempt = 0     \* bound: one message is retried
    /\ Step(m, [Fresh(run[m].kind, run[m].version, run[m].attempt + 1) EXCEPT
                  !.sent = run[m].sent])
    /\ UNCHANGED <<channel, consent, sessions, chat, concurrent>>

--------------------------------------------------------------------------------
(* ad_hoc_bot_message: a message of the bot's own, written by EventBot or   *)
(* given, stored when its transaction commits; the gate stops the delivery  *)
(* but not the record.                                                      *)
StartAdHoc(m) ==
    /\ run[m].pc = "new" /\ run[m].attempt = 0 /\ Cardinality(Running) < MaxOverlap
    /\ m \in channel.arrivals /\ "adhoc" \in channel.kinds
    /\ \E s \in DOMAIN sessions :
         LET t == [Fresh("adhoc", run[m].version, 0) EXCEPT
                     !.sid = s, !.row = sessions[s], !.reply = "event"]
         IN  \/ Step(m, Finish(t, "silent")) /\ UNCHANGED chat   \* disabled, or EventBot failed
             \/ GateBlocks /\ Step(m, Finish(t, "silent")) /\ Answer(s, m)
             \/ ~GateBlocks /\ Step(m, [t EXCEPT !.pc = "send"]) /\ UNCHANGED chat
    /\ Overlap(m)
    /\ UNCHANGED <<channel, consent, sessions>>

(* The transaction commits unless the formatting raised: then an error text *)
(* went out, and the record of the message is rolled back.                  *)
SendAdHoc(m) ==
    /\ run[m].pc = "send" /\ run[m].kind = "adhoc"
    /\ \/ /\ \E through \in BOOLEAN :
               Step(m, Finish([run[m] EXCEPT !.sent = through], "answered"))
          /\ Answer(run[m].sid, m) /\ UNCHANGED consent
       \/ /\ channel.gate = "lenient" /\ RevokeConsent
          /\ Step(m, Finish(run[m], "answered")) /\ Answer(run[m].sid, m)
       \/ /\ Step(m, Finish([run[m] EXCEPT !.sent = TRUE], "raised"))
          /\ UNCHANGED <<chat, consent>>
    /\ UNCHANGED <<channel, sessions, concurrent>>

(* The consent API of CommCare Connect sets the flag of a participant.      *)
SetConsent ==
    /\ channel.gate = "strict" /\ consent # "absent"
    /\ consent' \in {"yes", "no"}
    /\ UNCHANGED <<channel, sessions, chat, run, concurrent>>

Stage(m) == \/ Resolve(m) \/ EndOld(m) \/ CreateSession(m) \/ Activate(m)
            \/ RefuseType(m) \/ Record(m) \/ ConsentFlow(m) \/ AskBot(m)
            \/ SaveState(m) \/ Send(m) \/ Persist(m) \/ SendAdHoc(m)

Next == \/ \E m \in Messages, kind \in Kinds : Start(m, kind)
        \/ \E m \in Messages : StartAdHoc(m) \/ Retry(m) \/ Stage(m)
        \/ SetConsent

Spec == Init /\ [][Next]_vars /\ \A m \in Messages : WF_vars(Stage(m))

--------------------------------------------------------------------------------
Done(m) == run[m].pc = "done"
Answers(s, m) == chat[s].answers[m]
Said(s, m) == m \in chat[s].said
WithOther(m) == \E pair \in concurrent : m \in pair

(* The history is an audit trail: whatever reached the participant is in    *)
(* the history of the session once its task is over, however the task       *)
(* ended; only the confirmation of /reset, the static text of a disabled    *)
(* channel that has no session yet and the error text of a message of the   *)
(* bot's own are not (stages/terminal.py:264, experiments/models.py:1650).  *)
DeliveredIsRecorded ==
    \A m \in Messages :
        (/\ Done(m) /\ run[m].sent /\ run[m].attempt = 0 /\ run[m].sid # 0
         /\ run[m].kind # "reset" /\ ~(run[m].kind = "adhoc" /\ run[m].outcome = "raised"))
            => Answers(run[m].sid, m) > 0

(* An answer is stored once per attempt, also when the bot answered and a   *)
(* later stage failed, so that both have an answer to store.                *)
AnswersStoredOnce ==
    \A m \in Messages, s \in DOMAIN sessions :
        run[m].kind # "unsupported" => Answers(s, m) <= run[m].attempt + 1

(* The history has what participants were answered, once.                   *)
AnswersOnRecord == DeliveredIsRecorded /\ AnswersStoredOnce

(* The conversation asks for consent: except in a session that is given,    *)
(* which has the status that who opened it chose.                           *)
AsksConsent == channel.conv /\ channel.form /\ ~channel.preset

(* No task hands a message of a chatbot that asks for consent to the bot    *)
(* before the participant gave it in that session, whatever tasks overlap.  *)
ConsentBeforeBot ==
    \A m \in Messages :
        (AsksConsent /\ run[m].bot)
            => \E other \in Messages : IsToken(other) /\ Said(run[m].sid, other)

(* The consent token is no question: the first one of a session never       *)
(* reaches the bot, neither as itself nor as the "original message".        *)
TokenNotForwarded ==
    \A m \in Messages :
        (AsksConsent /\ run[m].bot /\ run[m].query \in Messages
            /\ IsToken(run[m].query))
        => /\ run[m].query = m
           /\ \E other \in Messages \ {m} : IsToken(other) /\ Said(run[m].sid, other)

(* What the bot is asked passes the gate of the consent.                    *)
BotAfterConsent == ConsentBeforeBot /\ TokenNotForwarded

(* A participant who blocked the bot is left alone: once the tasks in       *)
(* flight are over nothing is sent to them, and neither a late task nor a   *)
(* message of theirs gives the consent again.                               *)
LeftAlone == channel.gate = "lenient" /\ consent = "no" /\ Running = {}
BlockIsFinal ==
    [][LeftAlone => LeftAlone' /\ \A m \in Messages : run'[m].sent => run[m].sent]_vars

(* The participant has one conversation at a time and an ended one stays    *)
(* ended, unless two messages were in progress at the same time: then each  *)
(* may open a session, and a late full save of a copy may reopen one.       *)
OneConversation ==
    (concurrent = {} /\ ~channel.preset) =>
        /\ \A s, other \in DOMAIN sessions : Open(s) /\ Open(other) => s = other
        /\ \A s \in DOMAIN sessions : sessions[s].ended => ~Open(s)

(* What a turn stored in the session state is lost only to a message that   *)
(* was in progress together with it and saved its older copy.               *)
TurnsKept ==
    \A m \in Messages :
        (run[m].saved /\ ~WithOther(m)) => m \in sessions[run[m].sid].state

(* Stages fail in many ways and tasks undo each other's writes, but every   *)
(* message that a worker started is dealt with.                             *)
EventuallyDone == \A m \in Messages : (run[m].pc # "new") ~> (run[m].pc = "done")
================================================================================
