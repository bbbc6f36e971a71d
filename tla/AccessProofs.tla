---------------------------- MODULE AccessProofs ----------------------------
(***************************************************************************)
(* Shared rows under stale copies, for any number of calls, tasks and      *)
(* requests: the OAuth token of a provider, the required level of a widget,*)
(* the counters of the rate limiter and the notifications of an event.     *)
(***************************************************************************)
EXTENDS ProviderToken, WidgetAuth, RateLimit, Notifications, TLAPS

-----------------------------------------------------------------------------
(* The token of a provider.                                                *)

Tokens == [issued : 0 .. MaxConfigs, fingerprint : 0 .. MaxConfigs, day : Days]
ProviderRows == [config : 0 .. MaxConfigs, token : Tokens]
CallStates == [pc : {"idle", "loaded", "fetching", "done"}, row : ProviderRows, token : Tokens]

TokenTyped ==
  /\ provider \in ProviderRows /\ provider.config \in Configs
  /\ providerForm \in ProviderRows
  /\ providerLock \in Calls \union {NoCall}
  /\ call \in [Calls -> CallStates]
  /\ today \in Days
  /\ fetches \in [Configs -> [Days -> Nat]]

\* Every copy of a token is for the configuration whose fingerprint it bears.
Honest(token) == token.issued = token.fingerprint
TokensHonest ==
  /\ Honest(provider.token) /\ Honest(providerForm.token)
  /\ \A c \in Calls : Honest(call[c].token) /\ Honest(call[c].row.token)

\* Who fetches holds the lock, knows the configuration and is needed.
FetchingIsNeeded ==
  \A c \in Calls : call[c].pc = "fetching" =>
    providerLock = c /\ call[c].row.config = provider.config /\ ~Valid(provider)

\* Nothing was fetched for configurations and days to come, ...
NothingAhead ==
  \A config \in Configs, d \in Days :
    config > provider.config \/ d > today => fetches[config][d] = 0

\* ... and what was fetched today for the present one is there.
FetchedIsValid ==
  today \notin overwritten /\ fetches[provider.config][today] > 0 => Valid(provider)

TokenInv ==
  TokenTyped /\ TokensHonest /\ FetchingIsNeeded /\ NothingAhead /\ FetchedIsValid
    /\ OneTokenFetched

LEMMA TokenInitInv == TokenInit => TokenInv
<1> SUFFICES ASSUME TokenInit PROVE TokenInv
  OBVIOUS
<1>1. NoToken \in Tokens /\ NoProvider \in ProviderRows
  BY TokenBounds DEF NoToken, NoProvider, Tokens, ProviderRows, Days
<1>2. provider \in ProviderRows /\ provider.config = 1 /\ provider.token = NoToken
  BY <1>1, TokenBounds DEF TokenInit, ProviderRows
<1>3. call \in [Calls -> CallStates] BY <1>1 DEF TokenInit, CallStates
<1>4. \A c \in Calls : call[c].pc = "idle" /\ call[c].row = NoProvider /\ call[c].token = NoToken
  BY DEF TokenInit
<1>5. fetches \in [Configs -> [Days -> Nat]] /\ \A config \in Configs, d \in Days : fetches[config][d] = 0
  BY DEF TokenInit
<1>6. TokenTyped
  BY <1>1, <1>2, <1>3, <1>5, TokenBounds DEF TokenInit, TokenTyped, Configs, Days
<1>7. TokensHonest BY <1>2, <1>4 DEF TokenInit, TokensHonest, Honest, NoToken, NoProvider
<1>8. FetchedIsValid
  BY <1>2, <1>5, TokenBounds DEF TokenInit, FetchedIsValid, Configs, Days
<1> QED BY <1>4, <1>5, <1>6, <1>7, <1>8
        DEF TokenInv, FetchingIsNeeded, NothingAhead, OneTokenFetched

CallBecomes(c, new) ==
  /\ call' \in [Calls -> CallStates]
  /\ call'[c] = new
  /\ \A d \in Calls \ {c} : call'[d] = call[d]

\* A call that moves on without writing the row.
LEMMA CallMoves ==
  ASSUME TokenInv, NEW c \in Calls, NEW new \in CallStates,
         CallBecomes(c, new),
         Honest(new.token), Honest(new.row.token),
         new.pc = "fetching" =>
           providerLock' = c /\ new.row.config = provider.config /\ ~Valid(provider),
         providerLock' \in Calls \union {NoCall},
         providerLock' # providerLock => providerLock \in {c, NoCall},
         UNCHANGED <<provider, providerForm, today, fetches, overwritten>>
  PROVE  TokenInv'
<1>1. call' \in [Calls -> CallStates] /\ \A d \in Calls : call'[d] = IF d = c THEN new ELSE call[d]
  BY DEF TokenInv, TokenTyped, CallBecomes
<1>2. TokenTyped' BY <1>1 DEF TokenInv, TokenTyped
<1>3. TokensHonest' BY <1>1 DEF TokenInv, TokensHonest, Honest
<1>4. FetchingIsNeeded'
  BY <1>1, TokenBounds DEF TokenInv, FetchingIsNeeded, Valid
<1>5. NothingAhead' /\ FetchedIsValid' /\ OneTokenFetched'
  BY DEF TokenInv, NothingAhead, FetchedIsValid, OneTokenFetched, Valid
<1> QED BY <1>2, <1>3, <1>4, <1>5 DEF TokenInv

LEMMA LoadProviderStep ==
  ASSUME TokenInv, NEW c \in Calls,
         LoadProvider(c) \/ UseLoaded(c) \/ LockProvider(c) \/ FetchFails(c)
  PROVE  TokenInv'
<1>0. call[c] \in CallStates /\ call \in [Calls -> CallStates] /\ provider \in ProviderRows
  BY DEF TokenInv, TokenTyped
<1>h. /\ Honest(provider.token) /\ Honest(call[c].token) /\ Honest(call[c].row.token)
      /\ providerLock \in Calls \union {NoCall}
  BY DEF TokenInv, TokenTyped, TokensHonest
<1>1. CASE LoadProvider(c)
  <2> DEFINE new == [pc |-> "loaded", row |-> provider, token |-> call[c].token]
  <2>1. new \in CallStates BY <1>0 DEF CallStates
  <2>2. CallBecomes(c, new)
    BY <1>0, <2>1, <1>1 DEF LoadProvider, CallStates, CallBecomes
  <2>3. new.pc = "loaded" /\ Honest(new.token) /\ Honest(new.row.token) BY <1>h
  <2> HIDE DEF new
  <2> QED BY <1>1, <1>h, <2>1, <2>2, <2>3, CallMoves DEF LoadProvider
<1>2. CASE UseLoaded(c)
  <2> DEFINE new == [pc |-> "done", row |-> call[c].row, token |-> call[c].row.token]
  <2>1. new \in CallStates BY <1>0 DEF CallStates, ProviderRows
  <2>2. CallBecomes(c, new)
    BY <1>0, <2>1, <1>2 DEF UseLoaded, CallStates, CallBecomes
  <2>3. new.pc = "done" /\ Honest(new.token) /\ Honest(new.row.token) BY <1>h
  <2> HIDE DEF new
  <2> QED BY <1>2, <1>h, <2>1, <2>2, <2>3, CallMoves DEF UseLoaded
<1>3. CASE LockProvider(c) /\ Valid(provider)
  <2> DEFINE new == [pc |-> "done", row |-> call[c].row, token |-> provider.token]
  <2>1. new \in CallStates BY <1>0 DEF CallStates, ProviderRows
  <2>2. CallBecomes(c, new)
    BY <1>0, <2>1, <1>3 DEF LockProvider, LockedRow, CallStates, CallBecomes
  <2>3. new.pc = "done" /\ Honest(new.token) /\ Honest(new.row.token) BY <1>h
  <2>4. UNCHANGED providerLock BY <1>3 DEF LockProvider, LockedRow
  <2> HIDE DEF new
  <2> QED BY <1>3, <1>h, <2>1, <2>2, <2>3, <2>4, CallMoves DEF LockProvider
<1>4. CASE LockProvider(c) /\ ~Valid(provider)
  <2> DEFINE new == [pc |-> "fetching", row |-> provider, token |-> call[c].token]
  <2>1. new \in CallStates BY <1>0 DEF CallStates
  <2>2. CallBecomes(c, new)
    BY <1>0, <2>1, <1>4 DEF LockProvider, LockedRow, CallStates, CallBecomes
  <2>3. new.row = provider /\ Honest(new.token) /\ Honest(new.row.token) BY <1>h
  <2>4. providerLock' = c /\ providerLock = NoCall BY <1>4 DEF LockProvider, LockedRow
  <2> HIDE DEF new
  <2> QED BY <1>4, <1>h, <2>1, <2>2, <2>3, <2>4, CallMoves DEF LockProvider
<1>5. CASE FetchFails(c)
  <2> DEFINE new == [pc |-> "done", row |-> call[c].row, token |-> call[c].token]
  <2>1. new \in CallStates BY <1>0 DEF CallStates
  <2>2. CallBecomes(c, new)
    BY <1>0, <2>1, <1>5 DEF FetchFails, CallStates, CallBecomes
  <2>3. new.pc = "done" /\ Honest(new.token) /\ Honest(new.row.token) BY <1>h
  <2>4. providerLock = c BY <1>5 DEF FetchFails, TokenInv, FetchingIsNeeded
  <2> HIDE DEF new
  <2> QED BY <1>5, <1>h, <2>1, <2>2, <2>3, <2>4, CallMoves DEF FetchFails
<1> QED BY <1>1, <1>2, <1>3, <1>4, <1>5

\* The call that fetches is alone, and nothing was fetched that is still valid.
LEMMA StoreTokenStep == ASSUME TokenInv, NEW c \in Calls, StoreToken(c) PROVE TokenInv'
<1> DEFINE n == provider.config
<1> DEFINE token == [issued |-> n, fingerprint |-> n, day |-> today]
<1> DEFINE new == [pc |-> "done", row |-> call[c].row, token |-> token]
<1>0. /\ call[c] \in CallStates /\ call \in [Calls -> CallStates]
      /\ provider \in ProviderRows /\ n \in Configs /\ today \in Days
      /\ fetches \in [Configs -> [Days -> Nat]]
  BY DEF TokenInv, TokenTyped
<1>1. call[c].pc = "fetching" /\ call[c].row.config = n /\ providerLock = c /\ ~Valid(provider)
  BY DEF StoreToken, TokenInv, FetchingIsNeeded
<1>2. token \in Tokens /\ Honest(token) BY <1>0, TokenBounds DEF Tokens, Configs, Honest
<1>3. ConfigToFetch(c) = n BY <1>1 DEF ConfigToFetch
<1>4. provider' = [config |-> n, token |-> token]
  BY <1>0, <1>3 DEF StoreToken, ProviderRows
<1>8. new \in CallStates BY <1>0, <1>2 DEF CallStates
<1>5. CallBecomes(c, new)
  BY <1>0, <1>3, <1>8 DEF StoreToken, CallStates, CallBecomes
<1>6. fetches' = [fetches EXCEPT ![n][today] = @ + 1]
  BY <1>3 DEF StoreToken
<1>7. providerLock' = NoCall /\ UNCHANGED <<providerForm, today, overwritten>> BY DEF StoreToken
<1>9. provider' \in ProviderRows /\ provider'.config = n /\ provider'.token = token
  BY <1>0, <1>2, <1>4, TokenBounds DEF ProviderRows, Configs
<1>10. new.pc = "done" /\ new.token = token /\ new.row = call[c].row OBVIOUS
<1>11. Valid(provider)' BY <1>7, <1>9 DEF Valid
<1>12. /\ fetches' \in [Configs -> [Days -> Nat]]
       /\ \A config \in Configs, d \in Days :
            fetches'[config][d] =
              IF config = n /\ d = today THEN fetches[config][d] + 1 ELSE fetches[config][d]
  BY <1>0, <1>6
<1> HIDE DEF token, new
<1>13. call' \in [Calls -> CallStates] /\ \A d \in Calls : call'[d] = IF d = c THEN new ELSE call[d]
  BY <1>5 DEF CallBecomes
<1>14. TokenTyped'
  BY <1>0, <1>7, <1>9, <1>12, <1>13 DEF TokenInv, TokenTyped
<1>15. TokensHonest'
  BY <1>2, <1>7, <1>9, <1>10, <1>13 DEF TokenInv, TokensHonest, Honest
<1>16. FetchingIsNeeded'
  BY <1>1, <1>10, <1>13 DEF TokenInv, FetchingIsNeeded
<1>17. NothingAhead'
  <2> SUFFICES ASSUME NEW config \in Configs, NEW d \in Days, config > n \/ d > today
               PROVE  fetches'[config][d] = 0
    BY <1>7, <1>9 DEF NothingAhead
  <2>1. config # n \/ d # today BY <1>0 DEF Configs, Days
  <2>2. fetches[config][d] = 0 BY DEF TokenInv, NothingAhead
  <2> HIDE DEF n
  <2> QED BY <1>12, <2>1, <2>2
<1>18. OneTokenFetched'
  <2> SUFFICES ASSUME NEW config \in Configs, NEW d \in Days \ overwritten
               PROVE  fetches'[config][d] <= 1
    BY <1>7 DEF OneTokenFetched
  <2>1. fetches[config][d] <= 1 /\ fetches[config][d] \in Nat
    BY <1>0 DEF TokenInv, OneTokenFetched
  <2>2. config = n /\ d = today => fetches[config][d] = 0
    BY <1>0, <1>1, <2>1 DEF TokenInv, FetchedIsValid
  <2> QED BY <1>12, <2>1, <2>2
<1> QED BY <1>11, <1>14, <1>15, <1>16, <1>17, <1>18 DEF TokenInv, FetchedIsValid

\* Time passes when nobody works.
LEMMA TokensExpireStep == ASSUME TokenInv, TokensExpire PROVE TokenInv'
<1>1. today' = today + 1 /\ today' \in Days
  BY TokenBounds DEF TokensExpire, TokenInv, TokenTyped, Days
<1>2. UNCHANGED <<provider, providerLock, call, providerForm, fetches, overwritten>>
  BY DEF TokensExpire
<1>3. TokenTyped' /\ TokensHonest'
  BY <1>1, <1>2 DEF TokenInv, TokenTyped, TokensHonest, Honest
<1>4. FetchingIsNeeded' BY <1>2 DEF TokensExpire, FetchingIsNeeded
<1>5. NothingAhead'
  BY <1>1, <1>2, TokenBounds DEF TokenInv, TokenTyped, NothingAhead, Days
<1>6. FetchedIsValid'
  <2>1. fetches[provider.config][today'] = 0
    BY <1>1, TokenBounds DEF TokenInv, TokenTyped, NothingAhead, Days
  <2> QED BY <1>2, <2>1 DEF FetchedIsValid
<1>7. OneTokenFetched' BY <1>2 DEF TokenInv, OneTokenFetched
<1> QED BY <1>3, <1>4, <1>5, <1>6, <1>7 DEF TokenInv

LEMMA LoadProviderFormStep == ASSUME TokenInv, LoadProviderForm PROVE TokenInv'
BY DEF LoadProviderForm, TokenInv, TokenTyped, TokensHonest, Honest, FetchingIsNeeded, Valid,
   NothingAhead, FetchedIsValid, OneTokenFetched

\* The form may overwrite a token, which is remembered, and starts a new configuration.
LEMMA SaveProviderFormStep ==
  ASSUME TokenInv, NEW config \in Configs, SaveProviderForm(config) PROVE TokenInv'
<1>0. /\ provider \in ProviderRows /\ provider.config \in Configs /\ providerForm \in ProviderRows
      /\ today \in Days
  BY DEF TokenInv, TokenTyped
<1>1. /\ config \in {provider.config, provider.config + 1}
      /\ providerLock = NoCall
      /\ provider' = [config |-> config, token |-> providerForm.token]
      /\ providerForm' = NoProvider
      /\ UNCHANGED <<providerLock, call, today, fetches>>
  BY DEF SaveProviderForm
<1>2. /\ overwritten \subseteq overwritten'
      /\ providerForm.token # provider.token => today \in overwritten'
  BY DEF SaveProviderForm
<1>3. NoProvider \in ProviderRows /\ Honest(NoProvider.token)
  BY TokenBounds DEF NoToken, NoProvider, Tokens, ProviderRows, Days, Honest
<1>4. provider' \in ProviderRows /\ provider'.config = config /\ provider'.token = providerForm.token
  BY <1>0, <1>1, TokenBounds DEF ProviderRows, Configs
<1>5. TokenTyped' BY <1>1, <1>3, <1>4 DEF TokenInv, TokenTyped
<1>6. TokensHonest' BY <1>1, <1>3, <1>4 DEF TokenInv, TokensHonest, Honest
<1>7. FetchingIsNeeded' BY <1>1, TokenBounds DEF TokenInv, FetchingIsNeeded
<1>8. NothingAhead'
  BY <1>0, <1>1, <1>4 DEF TokenInv, NothingAhead, Configs, Days
<1>9. FetchedIsValid'
  <2> SUFFICES ASSUME today \notin overwritten', fetches[config][today] > 0 PROVE Valid(provider)'
    BY <1>1, <1>4 DEF FetchedIsValid
  <2>1. config = provider.config
    BY <1>0, <1>1 DEF TokenInv, NothingAhead, Configs
  <2>2. Valid(provider) BY <1>2, <2>1 DEF TokenInv, FetchedIsValid
  <2>3. providerForm.token = provider.token BY <1>2
  <2> QED BY <1>1, <1>4, <2>1, <2>2, <2>3 DEF Valid
<1>10. OneTokenFetched' BY <1>1, <1>2 DEF TokenInv, OneTokenFetched
<1> QED BY <1>5, <1>6, <1>7, <1>8, <1>9, <1>10 DEF TokenInv

LEMMA TokenStep == TokenInv /\ [TokenNext]_tokenVars => TokenInv'
<1> SUFFICES ASSUME TokenInv, [TokenNext]_tokenVars PROVE TokenInv'
  OBVIOUS
<1>1. CASE UNCHANGED tokenVars
  BY <1>1 DEF tokenVars, TokenInv, TokenTyped, TokensHonest, Honest, FetchingIsNeeded, Valid,
     NothingAhead, FetchedIsValid, OneTokenFetched
<1> QED
  BY <1>1, LoadProviderStep, StoreTokenStep, TokensExpireStep, LoadProviderFormStep,
     SaveProviderFormStep DEF TokenNext

\* However many calls find no valid token at once, one is fetched for each
\* configuration and day, and it passes for valid under that configuration only.
THEOREM TokensAreShared == TokenSpec => []TokenIsShared
<1>1. TokenInv => TokenIsShared
  BY DEF TokenInv, TokensHonest, Honest, Valid, TokenIsShared, ValidTokenFits
<1> QED BY <1>1, TokenInitInv, TokenStep, PTL DEF TokenSpec

-----------------------------------------------------------------------------
(* The required level of a widget.                                         *)

ChannelRows ==
  [version : WidgetVersions, level : WidgetAuthLevel, pending : {NotPending} \union WidgetAuthLevel,
   notified : {"no", "fresh", "due"}]

Active(k) == ratchet[k].pc \in {"loaded", "telling"}

WidgetTyped ==
  /\ channel \in ChannelRows
  /\ ratchet \in [Ratchets -> [pc : {"idle", "loaded", "telling", "done"},
                               row : ChannelRows \union {NoRow}, target : WidgetAuthLevel]]
  /\ \A k \in Ratchets : Active(k) => ratchet[k].row \in ChannelRows
  /\ edit \in ChannelRows \union {NoRow}
  /\ formSaves \in Nat /\ withdrawn \in BOOLEAN

\* A copy of the channel shows levels that were there at first or announced in time,
\* and what it says is pending was announced.
Shows(held, base) ==
  /\ held.level = base \/ (held.level \in due /\ held.level > base)
  /\ held.notified # "no" => held.pending > base /\ held.pending \in told
  /\ held.notified = "due" => held.pending \in due
CopiesShow(base) ==
  /\ Shows(channel, base)
  /\ edit # NoRow => Shows(edit, base)
  /\ \A k \in Ratchets :
       /\ Active(k) => Shows(ratchet[k].row, base)
       /\ ratchet[k].pc = "telling" =>
            ratchet[k].target > ratchet[k].row.level /\ ratchet[k].row.notified = "no"
LevelsAnnounced == due \subseteq told /\ \E base \in WidgetAuthLevel : CopiesShow(base)

\* While only tasks write the channel, their copies are old in harmless ways.
PendingIsHigher == channel.notified # "no" => channel.pending > channel.level
QuietCopies ==
  \A k \in Ratchets : Active(k) /\ ratchet[k].row.notified = "no" =>
    ratchet[k].row.level = channel.level /\ channel.notified # "due"
DueCopies ==
  \A k \in Ratchets : AboutToApply(k) =>
    \/ channel.notified = "due" /\ channel.pending = ratchet[k].row.pending
    \/ channel.notified # "due" /\ channel.level = ratchet[k].row.pending
CopiesAgree == formSaves = 0 /\ ~withdrawn => PendingIsHigher /\ QuietCopies /\ DueCopies

WidgetInv == WidgetTyped /\ LevelsAnnounced /\ CopiesAgree

LEMMA WidgetInitInv == WidgetInit => WidgetInv
<1> SUFFICES ASSUME NEW version \in WidgetVersions, NEW level \in WidgetAuthLevel,
                    WidgetStart(version, level)
             PROVE  WidgetInv
  BY DEF WidgetInit, WidgetVersions, LevelForVersion, WidgetAuthLevel
<1>1. WidgetTyped
  <2>1. channel \in ChannelRows BY DEF WidgetStart, ChannelRows
  <2>2. ratchet \in [Ratchets -> [pc : {"idle", "loaded", "telling", "done"},
                                  row : ChannelRows \union {NoRow}, target : WidgetAuthLevel]]
    BY DEF WidgetStart, WidgetAuthLevel
  <2>3. \A k \in Ratchets : ~Active(k) BY DEF WidgetStart, Active
  <2> QED BY <2>1, <2>2, <2>3 DEF WidgetStart, WidgetTyped
<1>2. LevelsAnnounced
  BY DEF WidgetStart, LevelsAnnounced, CopiesShow, Shows, Active
<1>3. CopiesAgree
  BY DEF WidgetStart, CopiesAgree, PendingIsHigher, QuietCopies, DueCopies, Active, AboutToApply
<1> QED BY <1>1, <1>2, <1>3 DEF WidgetInv

RatchetBecomes(k, pc) ==
  /\ ratchet' \in [Ratchets -> [pc : {"idle", "loaded", "telling", "done"},
                                row : ChannelRows \union {NoRow}, target : WidgetAuthLevel]]
  /\ ratchet'[k].pc = pc
  /\ ratchet'[k].row = ratchet[k].row /\ ratchet'[k].target = ratchet[k].target
  /\ \A i \in Ratchets \ {k} : ratchet'[i] = ratchet[i]

LEMMA RatchetKeepsRow ==
  ASSUME WidgetTyped, NEW k \in Ratchets, NEW pc \in {"idle", "loaded", "telling", "done"},
         RatchetMoves(k, pc)
  PROVE  RatchetBecomes(k, pc)
BY DEF WidgetTyped, RatchetMoves, RatchetBecomes

LEMMA LoadChannelStep == ASSUME WidgetInv, NEW k \in Ratchets, LoadChannel(k) PROVE WidgetInv'
<1>0. WidgetTyped /\ LevelsAnnounced /\ CopiesAgree BY DEF WidgetInv
<1>1. LevelForVersion(channel.version) \in WidgetAuthLevel
  BY <1>0 DEF WidgetTyped, ChannelRows, WidgetVersions, LevelForVersion, WidgetAuthLevel
<1>2. /\ ratchet' \in [Ratchets -> [pc : {"idle", "loaded", "telling", "done"},
                                    row : ChannelRows \union {NoRow}, target : WidgetAuthLevel]]
      /\ ratchet'[k].pc = "loaded" /\ ratchet'[k].row = channel
      /\ \A i \in Ratchets \ {k} : ratchet'[i] = ratchet[i]
      /\ UNCHANGED <<channel, edit, due, told, withdrawn, formSaves>>
  BY <1>0, <1>1 DEF LoadChannel, WidgetTyped
<1>3. WidgetTyped' BY <1>0, <1>2 DEF WidgetTyped, Active
<1>4. LevelsAnnounced' BY <1>0, <1>2 DEF LevelsAnnounced, CopiesShow, Shows, Active
<1>5. CopiesAgree'
  BY <1>0, <1>2 DEF CopiesAgree, PendingIsHigher, QuietCopies, DueCopies, Active, AboutToApply
<1> QED BY <1>3, <1>4, <1>5 DEF WidgetInv

\* A task that decides or stops.
LEMMA RatchetRestStep ==
  ASSUME WidgetInv, NEW k \in Ratchets, DecideToTell(k) \/ RatchetStops(k)
  PROVE  WidgetInv'
<1>0. WidgetTyped /\ LevelsAnnounced /\ CopiesAgree BY DEF WidgetInv
<1>1. PICK pc \in {"telling", "done"} : RatchetMoves(k, pc)
        /\ (pc = "telling" => /\ ratchet[k].pc = "loaded" /\ ratchet[k].row.notified = "no"
                              /\ ratchet[k].target > ratchet[k].row.level)
  BY DEF DecideToTell, RatchetStops, Upgraded
<1>2. RatchetBecomes(k, pc) BY <1>0, <1>1, RatchetKeepsRow
<1>3. UNCHANGED <<channel, edit, due, told, withdrawn, formSaves>> BY DEF DecideToTell, RatchetStops
<1>4. WidgetTyped' BY <1>0, <1>1, <1>2, <1>3 DEF WidgetTyped, Active, RatchetBecomes
<1>5. LevelsAnnounced'
  BY <1>0, <1>1, <1>2, <1>3 DEF LevelsAnnounced, CopiesShow, Shows, Active, RatchetBecomes
<1>6. CopiesAgree'
  BY <1>0, <1>1, <1>2, <1>3
     DEF CopiesAgree, PendingIsHigher, QuietCopies, DueCopies, Active, AboutToApply, RatchetBecomes
<1> QED BY <1>4, <1>5, <1>6 DEF WidgetInv

LEMMA TellStep ==
  ASSUME WidgetInv, NEW k \in Ratchets, NEW notified \in BOOLEAN, Tell(k, notified)
  PROVE  WidgetInv'
<1>0. WidgetTyped /\ LevelsAnnounced /\ CopiesAgree BY DEF WidgetInv
<1>1. RatchetBecomes(k, "done") BY <1>0, RatchetKeepsRow DEF Tell
<1>2. UNCHANGED <<edit, due, withdrawn, formSaves>> /\ Active(k) BY DEF Tell, Active
<1>3. CASE ~notified
  <2>1. UNCHANGED <<channel, told>> BY <1>3 DEF Tell
  <2>2. WidgetTyped' BY <1>0, <1>1, <1>2, <2>1 DEF WidgetTyped, Active, RatchetBecomes
  <2>3. LevelsAnnounced'
    BY <1>0, <1>1, <1>2, <2>1 DEF LevelsAnnounced, CopiesShow, Shows, Active, RatchetBecomes
  <2>4. CopiesAgree'
    BY <1>0, <1>1, <1>2, <2>1
       DEF CopiesAgree, PendingIsHigher, QuietCopies, DueCopies, Active, AboutToApply, RatchetBecomes
  <2> QED BY <2>2, <2>3, <2>4 DEF WidgetInv
<1>4. CASE notified
  <2> DEFINE target == ratchet[k].target
  <2>1. told' = told \union {target} BY <1>4 DEF Tell
  <2>2. /\ channel' \in ChannelRows /\ channel'.level = channel.level
        /\ channel'.pending = target /\ channel'.notified = "fresh"
    BY <1>0, <1>4 DEF Tell, WidgetTyped, ChannelRows
  <2>3. WidgetTyped' BY <1>0, <1>1, <1>2, <2>2 DEF WidgetTyped, Active, RatchetBecomes
  <2>4. LevelsAnnounced'
    <3>1. PICK base \in WidgetAuthLevel : CopiesShow(base) BY <1>0 DEF LevelsAnnounced
    <3>2. target > base
      BY <1>0, <1>2, <3>1 DEF CopiesShow, Shows, Tell, WidgetTyped, WidgetAuthLevel, ChannelRows, Active
    <3>3. CopiesShow(base)'
      BY <1>1, <1>2, <2>1, <2>2, <3>1, <3>2 DEF CopiesShow, Shows, Active, RatchetBecomes
    <3> QED BY <1>0, <1>2, <2>1, <3>3 DEF LevelsAnnounced
  <2>5. CopiesAgree'
    <3> SUFFICES ASSUME formSaves = 0, ~withdrawn
                 PROVE  PendingIsHigher' /\ QuietCopies' /\ DueCopies'
      BY <1>2 DEF CopiesAgree
    <3>1. target > ratchet[k].row.level /\ ratchet[k].row.notified = "no"
      BY <1>0 DEF LevelsAnnounced, CopiesShow, Tell
    <3>2. ratchet[k].row.level = channel.level /\ channel.notified # "due"
      BY <1>0, <1>2, <3>1 DEF CopiesAgree, QuietCopies
    <3>3. PendingIsHigher' BY <2>2, <3>1, <3>2 DEF PendingIsHigher
    <3>4. QuietCopies'
      BY <1>0, <1>1, <2>2 DEF CopiesAgree, QuietCopies, Active, RatchetBecomes
    <3>5. DueCopies'
      BY <1>0, <1>1, <2>2, <3>2 DEF CopiesAgree, DueCopies, AboutToApply, RatchetBecomes
    <3> QED BY <3>3, <3>4, <3>5
  <2> QED BY <2>3, <2>4, <2>5 DEF WidgetInv
<1> QED BY <1>3, <1>4

LEMMA AbandonRaiseStep ==
  ASSUME WidgetInv, NEW k \in Ratchets, AbandonRaise(k) PROVE WidgetInv'
<1>0. WidgetTyped /\ LevelsAnnounced /\ CopiesAgree BY DEF WidgetInv
<1>1. RatchetBecomes(k, "done") BY <1>0, RatchetKeepsRow DEF AbandonRaise
<1>2. /\ channel' \in ChannelRows /\ channel'.level = channel.level /\ channel'.notified = "no"
      /\ UNCHANGED <<edit, due, told, formSaves>>
  BY <1>0 DEF AbandonRaise, WidgetTyped, ChannelRows
<1>3. withdrawn' \in BOOLEAN /\ (~withdrawn' => ~withdrawn /\ \A i \in Ratchets \ {k} : ~AboutToApply(i))
  BY <1>0 DEF AbandonRaise, WidgetTyped
<1>4. WidgetTyped' BY <1>0, <1>1, <1>2, <1>3 DEF WidgetTyped, Active, RatchetBecomes
<1>5. LevelsAnnounced'
  BY <1>0, <1>1, <1>2 DEF LevelsAnnounced, CopiesShow, Shows, Active, RatchetBecomes
<1>6. CopiesAgree'
  BY <1>0, <1>1, <1>2, <1>3
     DEF CopiesAgree, PendingIsHigher, QuietCopies, DueCopies, Active, AboutToApply, RatchetBecomes
<1> QED BY <1>4, <1>5, <1>6 DEF WidgetInv

LEMMA ApplyRaiseStep ==
  ASSUME WidgetInv, NEW k \in Ratchets, ApplyRaise(k) PROVE WidgetInv'
<1> DEFINE raised == ratchet[k].row.pending
<1>0. WidgetTyped /\ LevelsAnnounced /\ CopiesAgree BY DEF WidgetInv
<1>1. RatchetBecomes(k, "done") BY <1>0, RatchetKeepsRow DEF ApplyRaise
<1>2. Active(k) /\ AboutToApply(k) /\ UNCHANGED <<edit, due, told, withdrawn, formSaves>>
  BY DEF ApplyRaise, AboutToApply, Active
<1>3. PICK base \in WidgetAuthLevel : CopiesShow(base) BY <1>0 DEF LevelsAnnounced
<1>4. raised \in due /\ raised > base
  BY <1>2, <1>3 DEF CopiesShow, Shows, AboutToApply
<1>5. raised \in WidgetAuthLevel
  <2>1. ratchet[k].row \in ChannelRows BY <1>0, <1>2 DEF WidgetTyped
  <2> QED BY <1>4, <2>1 DEF ChannelRows, WidgetAuthLevel, NotPending
<1>6. channel' \in ChannelRows /\ channel'.level = raised /\ channel'.notified = "no"
  BY <1>0, <1>5 DEF ApplyRaise, RaisedLevel, WidgetTyped, ChannelRows
<1>7. WidgetTyped' BY <1>0, <1>1, <1>2, <1>6 DEF WidgetTyped, Active, RatchetBecomes
<1>8. LevelsAnnounced'
  <2>1. CopiesShow(base)'
    BY <1>1, <1>2, <1>3, <1>4, <1>6 DEF CopiesShow, Shows, Active, RatchetBecomes
  <2> QED BY <1>0, <1>2, <2>1 DEF LevelsAnnounced
<1>9. CopiesAgree'
  <2> SUFFICES ASSUME formSaves = 0, ~withdrawn
               PROVE  PendingIsHigher' /\ QuietCopies' /\ DueCopies'
    BY <1>2 DEF CopiesAgree
  <2>1. DueCopies /\ QuietCopies BY <1>0 DEF CopiesAgree
  <2>2. DueCopies'
    BY <1>1, <1>2, <1>6, <2>1 DEF DueCopies, AboutToApply, RatchetBecomes
  <2>3. QuietCopies'
    BY <1>1, <1>2, <1>6, <2>1 DEF DueCopies, QuietCopies, AboutToApply, Active, RatchetBecomes
  <2> QED BY <1>6, <2>2, <2>3 DEF PendingIsHigher
<1> QED BY <1>7, <1>8, <1>9 DEF WidgetInv

LEMMA GracePassesStep == ASSUME WidgetInv, GracePasses PROVE WidgetInv'
<1>0. WidgetTyped /\ LevelsAnnounced /\ CopiesAgree BY DEF WidgetInv
<1>1. \A k \in Ratchets : ~Active(k) /\ ratchet[k].pc # "telling" BY DEF GracePasses, Active
<1>2. due' = told /\ UNCHANGED <<ratchet, edit, told, withdrawn, formSaves>> BY DEF GracePasses
<1>3. /\ channel' \in ChannelRows /\ channel'.level = channel.level
      /\ channel'.pending = channel.pending /\ (channel.notified = "no" => channel'.notified = "no")
  BY <1>0 DEF GracePasses, WidgetTyped, ChannelRows
<1>4. WidgetTyped' BY <1>0, <1>2, <1>3 DEF WidgetTyped, Active
<1>5. LevelsAnnounced'
  <2>1. PICK base \in WidgetAuthLevel : CopiesShow(base) BY <1>0 DEF LevelsAnnounced
  <2>2. Shows(channel, base)' BY <1>0, <1>2, <1>3, <2>1 DEF LevelsAnnounced, CopiesShow, Shows
  <2>3. edit # NoRow => Shows(edit, base)'
    BY <1>0, <1>2, <2>1 DEF LevelsAnnounced, CopiesShow, Shows
  <2>4. CopiesShow(base)' BY <1>1, <1>2, <2>2, <2>3 DEF CopiesShow, Active
  <2> QED BY <1>2, <2>4 DEF LevelsAnnounced
<1>6. CopiesAgree'
  BY <1>0, <1>1, <1>2, <1>3
     DEF CopiesAgree, PendingIsHigher, QuietCopies, DueCopies, Active, AboutToApply
<1> QED BY <1>4, <1>5, <1>6 DEF WidgetInv

LEMMA AroundStep ==
  ASSUME WidgetInv, LoadForm \/ SaveForm \/ \E version \in WidgetVersions : ReportVersion(version)
  PROVE  WidgetInv'
<1>0. WidgetTyped /\ LevelsAnnounced /\ CopiesAgree BY DEF WidgetInv
<1>1. CASE LoadForm
  <2>1. WidgetTyped' BY <1>0, <1>1 DEF WidgetTyped, LoadForm, Active
  <2>2. LevelsAnnounced' BY <1>0, <1>1 DEF LevelsAnnounced, CopiesShow, Shows, LoadForm, Active
  <2>3. CopiesAgree'
    BY <1>0, <1>1 DEF CopiesAgree, PendingIsHigher, QuietCopies, DueCopies, Active, AboutToApply, LoadForm
  <2> QED BY <2>1, <2>2, <2>3 DEF WidgetInv
<1>2. CASE SaveForm
  <2>1. WidgetTyped' BY <1>0, <1>2 DEF WidgetTyped, SaveForm, Active
  <2>2. LevelsAnnounced' BY <1>0, <1>2 DEF LevelsAnnounced, CopiesShow, Shows, SaveForm, Active
  <2>3. formSaves' # 0 BY <1>0, <1>2 DEF WidgetTyped, SaveForm
  <2> QED BY <2>1, <2>2, <2>3 DEF WidgetInv, CopiesAgree
<1>3. ASSUME NEW version \in WidgetVersions, ReportVersion(version) PROVE WidgetInv'
  <2>1. /\ channel' \in ChannelRows /\ channel'.level = channel.level
        /\ channel'.pending = channel.pending /\ channel'.notified = channel.notified
        /\ UNCHANGED <<ratchet, edit, due, told, withdrawn, formSaves>>
    BY <1>0, <1>3 DEF ReportVersion, WidgetTyped, ChannelRows
  <2>2. WidgetTyped' BY <1>0, <2>1 DEF WidgetTyped, Active
  <2>3. LevelsAnnounced' BY <1>0, <2>1 DEF LevelsAnnounced, CopiesShow, Shows, Active
  <2>4. CopiesAgree'
    BY <1>0, <2>1 DEF CopiesAgree, PendingIsHigher, QuietCopies, DueCopies, Active, AboutToApply
  <2> QED BY <2>2, <2>3, <2>4 DEF WidgetInv
<1> QED BY <1>1, <1>2, <1>3

LEMMA WidgetStep == WidgetInv /\ [WidgetNext]_widgetVars => WidgetInv'
<1> SUFFICES ASSUME WidgetInv, [WidgetNext]_widgetVars PROVE WidgetInv'
  OBVIOUS
<1>1. CASE UNCHANGED widgetVars
  BY <1>1 DEF widgetVars, WidgetInv, WidgetTyped, LevelsAnnounced, CopiesShow, Shows, Active,
     CopiesAgree, PendingIsHigher, QuietCopies, DueCopies, AboutToApply
<1> QED
  BY <1>1, LoadChannelStep, RatchetRestStep, TellStep, AbandonRaiseStep, ApplyRaiseStep,
     GracePassesStep, AroundStep DEF WidgetNext

\* The steps that write the channel.
LEMMA WhoWritesLevel ==
  ASSUME [WidgetNext]_widgetVars
  PROVE  \/ channel' = channel \/ SaveForm \/ GracePasses
         \/ \E version \in WidgetVersions : ReportVersion(version)
         \/ \E k \in Ratchets :
              ApplyRaise(k) \/ AbandonRaise(k) \/ \E notified \in BOOLEAN : Tell(k, notified)
<1>1. CASE UNCHANGED widgetVars BY <1>1 DEF widgetVars
<1>2. ASSUME NEW k \in Ratchets, LoadChannel(k) \/ DecideToTell(k) \/ RatchetStops(k)
      PROVE  channel' = channel
  BY <1>2 DEF LoadChannel, DecideToTell, RatchetStops
<1>3. LoadForm => channel' = channel BY DEF LoadForm
<1> QED BY <1>1, <1>2, <1>3 DEF WidgetNext

\* Levels that were not there at first are raised to only when they are due.
LEMMA RaisesAreDue == WidgetInv /\ WidgetInv' /\ [WidgetNext]_widgetVars => RaisedAsAnnounced
<1> SUFFICES ASSUME WidgetInv, [WidgetNext]_widgetVars, channel'.level > channel.level
             PROVE  channel'.level \in due
  BY DEF RaisedAsAnnounced
<1>1. PICK base \in WidgetAuthLevel : CopiesShow(base) BY DEF WidgetInv, LevelsAnnounced
<1>2. channel.level >= base /\ channel.level \in WidgetAuthLevel
  BY <1>1 DEF CopiesShow, Shows, WidgetAuthLevel, WidgetInv, WidgetTyped, ChannelRows
<1>3. channel' # channel BY <1>2 DEF WidgetAuthLevel
<1>4. CASE SaveForm
  <2>1. Shows(edit, base) /\ channel' = edit BY <1>1, <1>4 DEF SaveForm, CopiesShow
  <2> QED BY <1>2, <2>1 DEF Shows, WidgetAuthLevel
<1>5. ASSUME NEW k \in Ratchets, ApplyRaise(k) PROVE channel'.level \in due
  <2>1. channel'.level = ratchet[k].row.pending
    BY <1>5 DEF ApplyRaise, RaisedLevel, WidgetInv, WidgetTyped, ChannelRows
  <2> QED BY <1>1, <1>5, <2>1 DEF ApplyRaise, AboutToApply, CopiesShow, Shows, Active
<1>6. ASSUME NEW k \in Ratchets, NEW notified \in BOOLEAN, Tell(k, notified) \/ AbandonRaise(k)
      PROVE  channel'.level = channel.level
  BY <1>6 DEF Tell, AbandonRaise, WidgetInv, WidgetTyped, ChannelRows
<1>7. GracePasses \/ (\E version \in WidgetVersions : ReportVersion(version))
        => channel'.level = channel.level
  BY DEF GracePasses, ReportVersion, WidgetInv, WidgetTyped, ChannelRows
<1>8. channel'.level # channel.level BY <1>2 DEF WidgetAuthLevel
<1> QED BY <1>3, <1>4, <1>5, <1>6, <1>7, <1>8, WhoWritesLevel

\* The level is not lowered while only tasks write it and no raise is withdrawn.
LEMMA LevelsGrow == WidgetInv /\ WidgetInv' /\ [WidgetNext]_widgetVars => NeverLowered
<1> SUFFICES ASSUME WidgetInv, WidgetInv', [WidgetNext]_widgetVars, formSaves' = 0, ~withdrawn'
             PROVE  channel'.level >= channel.level
  BY DEF NeverLowered
<1>1. channel.level \in 0 .. 2 /\ channel'.level \in 0 .. 2
  BY DEF WidgetInv, WidgetTyped, ChannelRows, WidgetAuthLevel
<1>2. ~SaveForm BY DEF SaveForm, WidgetInv, WidgetTyped
<1>3. ASSUME NEW k \in Ratchets, ApplyRaise(k) PROVE channel'.level >= channel.level
  <2>1. channel'.level = ratchet[k].row.pending /\ AboutToApply(k)
    BY <1>3 DEF ApplyRaise, RaisedLevel, WidgetInv, WidgetTyped, ChannelRows
  <2>2. PendingIsHigher /\ DueCopies
    BY <1>3 DEF ApplyRaise, WidgetInv, CopiesAgree
  <2> QED BY <1>1, <2>1, <2>2 DEF PendingIsHigher, DueCopies
<1>4. ASSUME NEW k \in Ratchets, NEW notified \in BOOLEAN, Tell(k, notified) \/ AbandonRaise(k)
      PROVE  channel'.level = channel.level
  BY <1>4 DEF Tell, AbandonRaise, WidgetInv, WidgetTyped, ChannelRows
<1>5. GracePasses \/ (\E version \in WidgetVersions : ReportVersion(version))
        => channel'.level = channel.level
  BY DEF GracePasses, ReportVersion, WidgetInv, WidgetTyped, ChannelRows
<1>6. CASE channel' = channel BY <1>1, <1>6
<1>7. channel'.level = channel.level => channel'.level >= channel.level BY <1>1
<1> QED BY <1>2, <1>3, <1>4, <1>5, <1>6, <1>7, WhoWritesLevel

\* For any number of overlapping tasks the required level is raised only as it was
\* announced, and is never lowered unless a form or a withdrawn raise comes between.
THEOREM LevelIsRatcheted == WidgetSpec => LevelRatchets
<1>1. WidgetInv /\ WidgetInv' /\ [WidgetNext]_widgetVars
        => [RaisedAsAnnounced /\ NeverLowered]_widgetVars
  BY RaisesAreDue, LevelsGrow
<1> QED BY <1>1, WidgetInitInv, WidgetStep, PTL DEF WidgetSpec, LevelRatchets

-----------------------------------------------------------------------------
(* The counters of the rate limiter.                                       *)

PerWindow(S) == [Windows -> [Identities -> S]]
Refuses == policy.enforce /\ policy.refuse

RateTyped ==
  /\ policy \in Policies /\ window \in Windows
  /\ entry \in PerWindow(Nat \union {Absent})
  /\ visit \in [Visits -> [todo : SUBSET Identities,
                           pc : {"idle", "adding", "counting", "again", "recounting"},
                           at : Windows, recorded : {NoResult, "allowed", "refused"},
                           denied : BOOLEAN]]
  /\ lost \in PerWindow(Nat) /\ allowed \in PerWindow(Nat) /\ overLimit \in PerWindow(Nat)
  /\ losses \in Nat

\* What n lost entries have allowed at most.
Granted(n) == Limit * n

\* Each entry allows what it counts, up to the limit, ...
EntriesAllow ==
  Refuses => \A w \in Windows, i \in Identities :
    /\ allowed[w][i] <= Granted(lost[w][i]) + Limit
    /\ entry[w][i] = Absent => allowed[w][i] <= Granted(lost[w][i])
    /\ entry[w][i] # Absent => allowed[w][i] <= Granted(lost[w][i]) + entry[w][i]

\* ... and has counted no more than what was allowed and what had no answer.
EntriesCount ==
  Refuses => \A w \in Windows, i \in Identities :
    entry[w][i] # Absent =>
      entry[w][i] <= allowed[w][i] + losses \/ Limit <= allowed[w][i] + losses

RefusedAtLimit ==
  \A w \in Windows, i \in Identities :
    overLimit[w][i] > 0 => Refuses /\ Limit <= allowed[w][i] + losses

RateInv == RateTyped /\ EntriesAllow /\ EntriesCount /\ RefusedAtLimit /\ RefusalReported

LEMMA OneMoreGranted ==
  ASSUME NEW n \in Nat
  PROVE  Granted(n + 1) = Granted(n) + Limit /\ Granted(n) \in Nat /\ Granted(n) >= 0
BY RateBounds DEF Granted

LEMMA RateInvImplies == RateInv => LimitIsKept
<1> SUFFICES ASSUME RateInv PROVE AllowedUpToLimit
  BY DEF RateInv, LimitIsKept
<1>1. ASSUME NEW w \in Windows, NEW i \in Identities, Refuses
      PROVE  allowed[w][i] <= Limit * (1 + lost[w][i])
  <2>1. lost[w][i] \in Nat /\ allowed[w][i] \in Nat BY DEF RateInv, RateTyped, PerWindow
  <2>2. Limit * (1 + lost[w][i]) = Granted(lost[w][i]) + Limit
    BY <2>1, RateBounds DEF Granted
  <2> QED BY <1>1, <2>1, <2>2 DEF RateInv, EntriesAllow
<1>2. ASSUME NEW w \in Windows, NEW i \in Identities, overLimit[w][i] > 0
      PROVE  allowed[w][i] + losses >= Limit
  <2>1. allowed[w][i] \in Nat /\ losses \in Nat BY DEF RateInv, RateTyped, PerWindow
  <2> QED BY <1>2, <2>1, RateBounds DEF RateInv, RefusedAtLimit
<1> QED BY <1>1, <1>2 DEF AllowedUpToLimit, Refuses

LEMMA RateInitInv == RateInit => RateInv
<1> SUFFICES ASSUME NEW setting \in Policies, NEW wanted \in [Visits -> SUBSET Identities \ {{}}],
                    RateStart(setting, wanted)
             PROVE  RateInv
  BY DEF RateInit
<1>1. RateTyped
  <2>1. policy \in Policies /\ window \in Windows /\ losses \in Nat
    BY RateBounds DEF RateStart, Windows
  <2>2. entry \in PerWindow(Nat \union {Absent}) BY DEF RateStart, PerEntry, PerWindow
  <2>3. lost \in PerWindow(Nat) /\ allowed \in PerWindow(Nat) /\ overLimit \in PerWindow(Nat)
    BY DEF RateStart, PerEntry, PerWindow
  <2>4. 1 \in Windows BY RateBounds DEF Windows
  <2> QED BY <2>1, <2>2, <2>3, <2>4 DEF RateStart, RateTyped
<1>2. \A w \in Windows, i \in Identities :
        entry[w][i] = Absent /\ allowed[w][i] = 0 /\ overLimit[w][i] = 0 /\ lost[w][i] = 0
  BY DEF RateStart, PerEntry
<1>3. EntriesAllow
  BY <1>2, OneMoreGranted, RateBounds DEF EntriesAllow
<1> QED BY <1>1, <1>2, <1>3
        DEF RateInv, EntriesCount, RefusedAtLimit, RateStart, RefusalReported

\* A request answers for one of its identities, or moves on.
LEMMA AnswerIsReported ==
  ASSUME RateInv, NEW v \in Visits, NEW isAllowed \in BOOLEAN, Answer(v, isAllowed)
  PROVE  /\ RefusalReported'
         /\ visit' \in [Visits -> [todo : SUBSET Identities,
                           pc : {"idle", "adding", "counting", "again", "recounting"},
                           at : Windows, recorded : {NoResult, "allowed", "refused"},
                           denied : BOOLEAN]]
<1>1. visit \in [Visits -> [todo : SUBSET Identities,
                           pc : {"idle", "adding", "counting", "again", "recounting"},
                           at : Windows, recorded : {NoResult, "allowed", "refused"},
                           denied : BOOLEAN]]
  BY DEF RateInv, RateTyped
<1>2. Recorded(v, isAllowed) \in {NoResult, "allowed", "refused"} BY DEF Recorded
<1>3. \A u \in Visits \ {v} : visit'[u] = visit[u]
  BY <1>1 DEF Answer
<1>4. /\ visit'[v].recorded = Recorded(v, isAllowed)
      /\ visit'[v].denied = (visit[v].denied \/ ~isAllowed)
  BY <1>1 DEF Answer
<1>5. RefusalReported'
  BY <1>3, <1>4 DEF RateInv, RefusalReported, Recorded
<1> DEFINE refused == visit[v].denied \/ ~isAllowed
<1> DEFINE todo == visit[v].todo \ {Current(v)}
<1>6. visit[v].denied \in BOOLEAN /\ visit[v].at \in Windows /\ visit[v].todo \subseteq Identities
  BY <1>1
<1>7. refused \in BOOLEAN BY <1>6, Zenon
<1>8. todo \subseteq Identities BY <1>6
<1>9. visit' = [visit EXCEPT ![v].todo = todo, ![v].pc = "idle",
                            ![v].recorded = Recorded(v, isAllowed), ![v].denied = refused]
  BY Zenon DEF Answer
<1> HIDE DEF refused, todo
<1>10. visit'[v] = [todo |-> todo, pc |-> "idle", at |-> visit[v].at,
                    recorded |-> Recorded(v, isAllowed), denied |-> refused]
  BY <1>1, <1>9
<1>11. visit'[v] \in [todo : SUBSET Identities,
                      pc : {"idle", "adding", "counting", "again", "recounting"},
                      at : Windows, recorded : {NoResult, "allowed", "refused"},
                      denied : BOOLEAN]
  BY <1>2, <1>6, <1>7, <1>8, <1>10
<1>12. visit' = [u \in Visits |-> visit'[u]]
  BY <1>1, <1>9
<1> QED BY <1>1, <1>3, <1>5, <1>11, <1>12

\* Requests that read the clock or find their entry gone change no count.
LEMMA QuietVisitStep ==
  ASSUME RateInv, RateTyped', RefusalReported',
         UNCHANGED <<policy, entry, lost, allowed, overLimit, losses>>
  PROVE  RateInv'
BY DEF RateInv, EntriesAllow, EntriesCount, RefusedAtLimit, Refuses

LEMMA VisitMoves ==
  ASSUME RateInv, NEW v \in Visits, ReadClock(v) \/ EntryGone(v) \/ WindowEnds
  PROVE  RateInv'
<1>0. RateTyped /\ RefusalReported BY DEF RateInv
<1>1. UNCHANGED <<policy, entry, lost, allowed, overLimit, losses>>
  BY DEF ReadClock, EntryGone, WindowEnds
<1>2. CASE ReadClock(v)
  <2>1. RateTyped' BY <1>0, <1>1, <1>2 DEF ReadClock, RateTyped
  <2>2. RefusalReported' BY <1>0, <1>2 DEF ReadClock, RefusalReported, RateTyped
  <2> QED BY <1>1, <2>1, <2>2, QuietVisitStep
<1>3. CASE WindowEnds
  <2>1. RateTyped' BY <1>0, <1>1, <1>3, RateBounds DEF WindowEnds, RateTyped, Windows
  <2>2. RefusalReported' BY <1>0, <1>3 DEF WindowEnds, RefusalReported
  <2> QED BY <1>1, <2>1, <2>2, QuietVisitStep
<1>4. CASE EntryGone(v) /\ visit' = [visit EXCEPT ![v].pc = "again"]
  <2>1. RateTyped' BY <1>0, <1>1, <1>4 DEF EntryGone, RateTyped
  <2>2. RefusalReported' BY <1>0, <1>4 DEF RefusalReported, RateTyped
  <2> QED BY <1>1, <2>1, <2>2, QuietVisitStep
<1>5. CASE EntryGone(v) /\ Answer(v, ~RefusesUncounted)
  <2>1. RateTyped' /\ RefusalReported'
    BY <1>0, <1>1, <1>5, AnswerIsReported DEF EntryGone, RateTyped
  <2> QED BY <1>1, <2>1, QuietVisitStep
<1> QED BY <1>2, <1>3, <1>4, <1>5 DEF EntryGone

LEMMA CurrentIsOne ==
  ASSUME RateTyped, NEW v \in Visits, visit[v].todo # {}
  PROVE  visit[v].at \in Windows /\ Current(v) \in Identities
BY DEF RateTyped, Current, FirstOf

\* Steps that write one entry.
WritesEntry(w, i, tally) ==
  /\ entry' \in PerWindow(Nat \union {Absent})
  /\ entry'[w][i] = tally
  /\ \A x \in Windows, j \in Identities : <<x, j>> # <<w, i>> => entry'[x][j] = entry[x][j]

LEMMA EntryWritten ==
  ASSUME RateTyped, NEW w \in Windows, NEW i \in Identities, NEW tally \in Nat \union {Absent},
         entry' = [entry EXCEPT ![w][i] = tally]
  PROVE  WritesEntry(w, i, tally)
BY DEF RateTyped, PerWindow, WritesEntry

LEMMA AddEntryStep ==
  ASSUME RateInv, NEW v \in Visits, visit[v].todo # {}, AddEntry(v) PROVE RateInv'
<1> DEFINE w == visit[v].at
<1> DEFINE i == Current(v)
<1>0. RateTyped BY DEF RateInv
<1>1. w \in Windows /\ i \in Identities BY <1>0, CurrentIsOne
<1>2. AddedEntry(entry[w][i]) \in Nat BY <1>0, <1>1 DEF RateTyped, PerWindow, AddedEntry
<1>3. UNCHANGED <<policy, window, lost, allowed, overLimit, losses>> BY DEF AddEntry
<1>4. RateTyped' /\ RefusalReported'
  <2>1. visit' \in [Visits -> [todo : SUBSET Identities,
                           pc : {"idle", "adding", "counting", "again", "recounting"},
                           at : Windows, recorded : {NoResult, "allowed", "refused"},
                           denied : BOOLEAN]]
    BY <1>0 DEF AddEntry, RateTyped
  <2>2. \A u \in Visits : visit'[u].denied = visit[u].denied /\ visit'[u].recorded = visit[u].recorded
    BY <1>0 DEF AddEntry, RateTyped
  <2>3. entry' \in PerWindow(Nat \union {Absent})
    BY <1>0, <1>1, <1>2, EntryWritten DEF AddEntry, WritesEntry
  <2> QED BY <1>0, <1>3, <2>1, <2>2, <2>3 DEF RateTyped, RateInv, RefusalReported
<1>5. WritesEntry(w, i, AddedEntry(entry[w][i]))
  BY <1>0, <1>1, <1>2, EntryWritten DEF AddEntry
<1>6. /\ entry[w][i] = Absent => entry'[w][i] = 0
      /\ entry[w][i] # Absent => entry'[w][i] = entry[w][i]
  BY <1>5 DEF WritesEntry, AddedEntry
<1> HIDE DEF w, i
<1>7. \A x \in Windows, j \in Identities :
        \/ entry'[x][j] = entry[x][j]
        \/ entry[x][j] = Absent /\ entry'[x][j] = 0
  BY <1>5, <1>6 DEF WritesEntry
<1>8. EntriesAllow'
  <2> SUFFICES ASSUME Refuses, NEW x \in Windows, NEW j \in Identities
               PROVE  /\ allowed[x][j] <= Granted(lost[x][j]) + Limit
                      /\ entry'[x][j] = Absent => allowed[x][j] <= Granted(lost[x][j])
                      /\ entry'[x][j] # Absent => allowed[x][j] <= Granted(lost[x][j]) + entry'[x][j]
    BY <1>3 DEF EntriesAllow, Refuses
  <2>1. lost[x][j] \in Nat /\ allowed[x][j] \in Nat BY <1>0 DEF RateTyped, PerWindow
  <2>2. Granted(lost[x][j]) \in Nat BY <2>1, OneMoreGranted
  <2>3. 0 # Absent BY DEF Absent
  <2> QED BY <1>7, <2>1, <2>2, <2>3 DEF RateInv, EntriesAllow
<1>9. EntriesCount'
  <2> SUFFICES ASSUME Refuses, NEW x \in Windows, NEW j \in Identities, entry'[x][j] # Absent
               PROVE  entry'[x][j] <= allowed[x][j] + losses \/ Limit <= allowed[x][j] + losses
    BY <1>3 DEF EntriesCount, Refuses
  <2>1. allowed[x][j] \in Nat /\ losses \in Nat BY <1>0 DEF RateTyped, PerWindow
  <2> QED BY <1>7, <2>1 DEF RateInv, EntriesCount
<1>10. RefusedAtLimit' BY <1>3 DEF RateInv, RefusedAtLimit, Refuses
<1> QED BY <1>4, <1>8, <1>9, <1>10 DEF RateInv

\* An entry counts up, and the request is allowed, or refused over the limit.
LEMMA IncrementStep ==
  ASSUME RateInv, NEW v \in Visits, visit[v].todo # {}, Increment(v) PROVE RateInv'
<1> DEFINE w == visit[v].at
<1> DEFINE i == Current(v)
<1> DEFINE tally == entry[w][i] + 1
<1>0. RateTyped BY DEF RateInv
<1>1. w \in Windows /\ i \in Identities BY <1>0, CurrentIsOne
<1>2. entry[w][i] # Absent /\ entry[w][i] \in Nat /\ tally \in Nat
  BY <1>0, <1>1 DEF Increment, RateTyped, PerWindow
<1>3. WritesEntry(w, i, tally) BY <1>0, <1>1, <1>2, EntryWritten DEF Increment
<1>4. UNCHANGED <<policy, window, lost, losses>> /\ Answer(v, ~RefusesOver(tally))
  BY DEF Increment
<1>5. IF RefusesOver(tally)
      THEN overLimit' = [overLimit EXCEPT ![w][i] = @ + 1] /\ UNCHANGED allowed
      ELSE allowed' = [allowed EXCEPT ![w][i] = @ + 1] /\ UNCHANGED overLimit
  BY DEF Increment
<1>6. RefusesOver(tally) <=> tally > Limit /\ Refuses BY DEF RefusesOver, Refuses
<1>7. allowed \in PerWindow(Nat) /\ overLimit \in PerWindow(Nat) BY <1>0 DEF RateTyped
<1>8. RefusesOver(tally) \in BOOLEAN BY <1>0 DEF RefusesOver, RateTyped, Policies
<1> HIDE DEF w, i, tally
<1>9. allowed' \in PerWindow(Nat) /\ overLimit' \in PerWindow(Nat)
  <2>1. CASE UNCHANGED allowed /\ overLimit' = [overLimit EXCEPT ![w][i] = @ + 1]
    BY <1>1, <1>7, <2>1 DEF PerWindow
  <2>2. CASE UNCHANGED overLimit /\ allowed' = [allowed EXCEPT ![w][i] = @ + 1]
    BY <1>1, <1>7, <2>2 DEF PerWindow
  <2> QED BY <1>5, <2>1, <2>2
<1>10. RateTyped' /\ RefusalReported'
  BY <1>0, <1>3, <1>4, <1>8, <1>9, AnswerIsReported DEF RateTyped, WritesEntry
<1>11. \A x \in Windows, j \in Identities : <<x, j>> # <<w, i>> =>
         allowed'[x][j] = allowed[x][j] /\ overLimit'[x][j] = overLimit[x][j]
  <2> SUFFICES ASSUME NEW x \in Windows, NEW j \in Identities, <<x, j>> # <<w, i>>
               PROVE  allowed'[x][j] = allowed[x][j] /\ overLimit'[x][j] = overLimit[x][j]
    OBVIOUS
  <2>1. x # w \/ j # i OBVIOUS
  <2>2. CASE UNCHANGED allowed /\ overLimit' = [overLimit EXCEPT ![w][i] = @ + 1]
    BY <1>1, <1>7, <2>1, <2>2 DEF PerWindow
  <2>3. CASE UNCHANGED overLimit /\ allowed' = [allowed EXCEPT ![w][i] = @ + 1]
    BY <1>1, <1>7, <2>1, <2>3 DEF PerWindow
  <2> QED BY <1>5, <2>2, <2>3
<1>12. /\ RefusesOver(tally) => allowed'[w][i] = allowed[w][i]
       /\ ~RefusesOver(tally) =>
            allowed'[w][i] = allowed[w][i] + 1 /\ overLimit'[w][i] = overLimit[w][i]
  <2>1. CASE RefusesOver(tally)
    BY <1>5, <2>1
  <2>2. CASE ~RefusesOver(tally)
    <3>1. allowed' = [allowed EXCEPT ![w][i] = @ + 1] /\ UNCHANGED overLimit
      BY <1>5, <2>2
    <3>2. allowed'[w][i] = allowed[w][i] + 1
      BY <1>1, <1>7, <3>1 DEF PerWindow
    <3> QED BY <2>2, <3>1, <3>2
  <2> QED BY <2>1, <2>2
<1>13. /\ allowed[w][i] \in Nat /\ losses \in Nat /\ lost[w][i] \in Nat /\ Granted(lost[w][i]) \in Nat
       /\ entry'[w][i] = tally /\ tally = entry[w][i] + 1 /\ Limit \in Nat
  BY <1>0, <1>1, <1>3, OneMoreGranted, RateBounds DEF RateTyped, PerWindow, WritesEntry, tally
<1>14. EntriesAllow'
  <2> SUFFICES ASSUME Refuses, NEW x \in Windows, NEW j \in Identities
               PROVE  /\ allowed'[x][j] <= Granted(lost[x][j]) + Limit
                      /\ entry'[x][j] = Absent => allowed'[x][j] <= Granted(lost[x][j])
                      /\ entry'[x][j] # Absent => allowed'[x][j] <= Granted(lost[x][j]) + entry'[x][j]
    BY <1>4 DEF EntriesAllow, Refuses
  <2>1. CASE <<x, j>> # <<w, i>>
    BY <1>3, <1>11, <2>1 DEF RateInv, EntriesAllow, WritesEntry
  <2>2. CASE x = w /\ j = i
    <3>1. allowed[w][i] <= Granted(lost[w][i]) + entry[w][i]
      BY <1>1, <1>2 DEF RateInv, EntriesAllow
    <3>2. allowed[w][i] <= Granted(lost[w][i]) + Limit BY <1>1 DEF RateInv, EntriesAllow
    <3>3. tally # Absent BY <1>2 DEF Absent
    <3> QED BY <1>2, <1>6, <1>12, <1>13, <2>2, <3>1, <3>2, <3>3
  <2> QED BY <2>1, <2>2
<1>15. EntriesCount'
  <2> SUFFICES ASSUME Refuses, NEW x \in Windows, NEW j \in Identities, entry'[x][j] # Absent
               PROVE  entry'[x][j] <= allowed'[x][j] + losses \/ Limit <= allowed'[x][j] + losses
    BY <1>4 DEF EntriesCount, Refuses
  <2>1. CASE <<x, j>> # <<w, i>>
    BY <1>3, <1>11, <2>1 DEF RateInv, EntriesCount, WritesEntry
  <2>2. CASE x = w /\ j = i
    <3>1. entry[w][i] <= allowed[w][i] + losses \/ Limit <= allowed[w][i] + losses
      BY <1>1, <1>2 DEF RateInv, EntriesCount
    <3> QED BY <1>2, <1>6, <1>12, <1>13, <2>2, <3>1
  <2> QED BY <2>1, <2>2
<1>16. RefusedAtLimit'
  <2> SUFFICES ASSUME NEW x \in Windows, NEW j \in Identities, overLimit'[x][j] > 0
               PROVE  Refuses /\ Limit <= allowed'[x][j] + losses
    BY <1>4 DEF RefusedAtLimit, Refuses
  <2>1. CASE <<x, j>> # <<w, i>>
    BY <1>11, <2>1 DEF RateInv, RefusedAtLimit
  <2>2. CASE x = w /\ j = i /\ RefusesOver(tally)
    <3>1. entry[w][i] <= allowed[w][i] + losses \/ Limit <= allowed[w][i] + losses
      BY <1>1, <1>2, <1>6, <2>2 DEF RateInv, EntriesCount
    <3> QED BY <1>2, <1>6, <1>12, <1>13, <2>2, <3>1
  <2>3. CASE x = w /\ j = i /\ ~RefusesOver(tally)
    <3>1. Refuses /\ Limit <= allowed[w][i] + losses
      BY <1>1, <1>12, <2>3 DEF RateInv, RefusedAtLimit
    <3> QED BY <1>12, <1>13, <2>3, <3>1
  <2> QED BY <2>1, <2>2, <2>3
<1> QED BY <1>10, <1>14, <1>15, <1>16 DEF RateInv

\* The cache fails, and may have counted.
LEMMA CacheFailsStep ==
  ASSUME RateInv, NEW v \in Visits, visit[v].todo # {}, CacheFails(v) PROVE RateInv'
<1> DEFINE w == visit[v].at
<1> DEFINE i == Current(v)
<1>0. RateTyped BY DEF RateInv
<1>1. w \in Windows /\ i \in Identities BY <1>0, CurrentIsOne
<1>2. /\ losses' = losses + 1 /\ losses \in Nat
      /\ UNCHANGED <<policy, window, lost, allowed, overLimit>>
      /\ Answer(v, ~RefusesUncounted)
  BY <1>0 DEF CacheFails, RateTyped
<1>3. \/ UNCHANGED entry
      \/ entry[w][i] # Absent /\ entry[w][i] \in Nat /\ WritesEntry(w, i, entry[w][i] + 1)
  <2>1. entry[w][i] \in Nat \union {Absent} BY <1>0, <1>1 DEF RateTyped, PerWindow
  <2>2. CASE entry[w][i] # Absent /\ entry' = [entry EXCEPT ![w][i] = @ + 1]
    <3>1. entry' = [entry EXCEPT ![w][i] = entry[w][i] + 1]
      BY <1>0, <1>1, <2>2 DEF RateTyped, PerWindow
    <3>2. entry[w][i] + 1 \in Nat \union {Absent} BY <2>1, <2>2
    <3> QED BY <1>0, <1>1, <2>1, <2>2, <3>1, <3>2, EntryWritten
  <2> QED BY <2>2 DEF CacheFails
<1>4. RateTyped' /\ RefusalReported'
  <2>1. RefusesUncounted \in BOOLEAN BY <1>0 DEF RefusesUncounted, RateTyped, Policies
  <2>2. entry' \in PerWindow(Nat \union {Absent})
    <3>1. CASE UNCHANGED entry BY <1>0, <3>1 DEF RateTyped
    <3>2. CASE WritesEntry(w, i, entry[w][i] + 1) BY <3>2 DEF WritesEntry
    <3> QED BY <1>3, <3>1, <3>2
  <2>3. losses' \in Nat BY <1>2
  <2>4. (~RefusesUncounted) \in BOOLEAN BY <2>1
  <2> HIDE DEF w, i
  <2> QED BY <1>0, <1>2, <2>2, <2>3, <2>4, AnswerIsReported DEF RateTyped
<1> HIDE DEF w, i
<1>5. \A x \in Windows, j \in Identities :
        \/ entry'[x][j] = entry[x][j]
        \/ /\ entry[x][j] # Absent /\ entry[x][j] \in Nat
           /\ entry'[x][j] = entry[x][j] + 1
  BY <1>3 DEF WritesEntry
<1>6. EntriesAllow'
  <2> SUFFICES ASSUME Refuses, NEW x \in Windows, NEW j \in Identities
               PROVE  /\ allowed[x][j] <= Granted(lost[x][j]) + Limit
                      /\ entry'[x][j] = Absent => allowed[x][j] <= Granted(lost[x][j])
                      /\ entry'[x][j] # Absent => allowed[x][j] <= Granted(lost[x][j]) + entry'[x][j]
    BY <1>2 DEF EntriesAllow, Refuses
  <2>1. lost[x][j] \in Nat /\ allowed[x][j] \in Nat BY <1>0 DEF RateTyped, PerWindow
  <2>2. Granted(lost[x][j]) \in Nat BY <2>1, OneMoreGranted
  <2> QED BY <1>5, <2>1, <2>2 DEF RateInv, EntriesAllow, Absent
<1>7. EntriesCount'
  <2> SUFFICES ASSUME Refuses, NEW x \in Windows, NEW j \in Identities, entry'[x][j] # Absent
               PROVE  entry'[x][j] <= allowed[x][j] + losses' \/ Limit <= allowed[x][j] + losses'
    BY <1>2 DEF EntriesCount, Refuses
  <2>1. allowed[x][j] \in Nat /\ entry[x][j] \in Nat \union {Absent}
    BY <1>0 DEF RateTyped, PerWindow
  <2>2. entry[x][j] # Absent BY <1>5
  <2>3. entry[x][j] <= allowed[x][j] + losses \/ Limit <= allowed[x][j] + losses
    BY <2>2 DEF RateInv, EntriesCount
  <2> QED BY <1>2, <1>5, <2>1, <2>2, <2>3, RateBounds
<1>8. RefusedAtLimit'
  <2>1. \A x \in Windows, j \in Identities : allowed[x][j] \in Nat BY <1>0 DEF RateTyped, PerWindow
  <2> QED BY <1>2, <2>1, RateBounds DEF RateInv, RefusedAtLimit, Refuses
<1> QED BY <1>4, <1>6, <1>7, <1>8 DEF RateInv

\* A lost entry is paid for with one more limit.
LEMMA LoseEntryStep ==
  ASSUME RateInv, NEW w \in Windows, NEW i \in Identities, LoseEntry(w, i) PROVE RateInv'
<1>0. RateTyped BY DEF RateInv
<1>1. /\ losses' = losses + 1 /\ losses \in Nat
      /\ UNCHANGED <<policy, window, visit, allowed, overLimit>>
  BY <1>0 DEF LoseEntry, RateTyped
<1>2. WritesEntry(w, i, Absent) BY <1>0, EntryWritten DEF LoseEntry
<1>3. /\ lost' \in PerWindow(Nat)
      /\ lost'[w][i] = lost[w][i] + 1
      /\ \A x \in Windows, j \in Identities : <<x, j>> # <<w, i>> => lost'[x][j] = lost[x][j]
  BY <1>0 DEF LoseEntry, RateTyped, PerWindow
<1>4. RateTyped' BY <1>0, <1>1, <1>2, <1>3 DEF RateTyped, WritesEntry
<1>5. EntriesAllow'
  <2> SUFFICES ASSUME Refuses, NEW x \in Windows, NEW j \in Identities
               PROVE  /\ allowed[x][j] <= Granted(lost'[x][j]) + Limit
                      /\ entry'[x][j] = Absent => allowed[x][j] <= Granted(lost'[x][j])
                      /\ entry'[x][j] # Absent => allowed[x][j] <= Granted(lost'[x][j]) + entry'[x][j]
    BY <1>1 DEF EntriesAllow, Refuses
  <2>1. CASE <<x, j>> # <<w, i>>
    BY <1>2, <1>3, <2>1 DEF RateInv, EntriesAllow, WritesEntry
  <2>2. CASE x = w /\ j = i
    <3>1. lost[w][i] \in Nat /\ allowed[w][i] \in Nat BY <1>0 DEF RateTyped, PerWindow
    <3>2. Granted(lost'[w][i]) = Granted(lost[w][i]) + Limit /\ Granted(lost[w][i]) \in Nat
      BY <1>3, <3>1, OneMoreGranted
    <3>3. entry'[w][i] = Absent BY <1>2 DEF WritesEntry
    <3>4. allowed[w][i] <= Granted(lost[w][i]) + Limit BY DEF RateInv, EntriesAllow
    <3> QED BY <2>2, <3>1, <3>2, <3>3, <3>4, RateBounds
  <2> QED BY <2>1, <2>2
<1>6. EntriesCount'
  <2> SUFFICES ASSUME Refuses, NEW x \in Windows, NEW j \in Identities, entry'[x][j] # Absent
               PROVE  entry'[x][j] <= allowed[x][j] + losses' \/ Limit <= allowed[x][j] + losses'
    BY <1>1 DEF EntriesCount, Refuses
  <2>1. entry'[x][j] = entry[x][j] BY <1>2 DEF WritesEntry
  <2>2. allowed[x][j] \in Nat /\ entry[x][j] \in Nat \union {Absent}
    BY <1>0 DEF RateTyped, PerWindow
  <2>3. entry[x][j] <= allowed[x][j] + losses \/ Limit <= allowed[x][j] + losses
    BY <2>1 DEF RateInv, EntriesCount
  <2> QED BY <1>1, <2>1, <2>2, <2>3, RateBounds
<1>7. RefusedAtLimit'
  <2>1. \A x \in Windows, j \in Identities : allowed[x][j] \in Nat BY <1>0 DEF RateTyped, PerWindow
  <2> QED BY <1>1, <2>1, RateBounds DEF RateInv, RefusedAtLimit, Refuses
<1>8. RefusalReported' BY <1>1 DEF RateInv, RefusalReported
<1> QED BY <1>4, <1>5, <1>6, <1>7, <1>8 DEF RateInv

LEMMA RateStep == RateInv /\ [RateNext]_rateVars => RateInv'
<1> SUFFICES ASSUME RateInv, [RateNext]_rateVars PROVE RateInv'
  OBVIOUS
<1>1. CASE UNCHANGED rateVars
  BY <1>1 DEF rateVars, RateInv, RateTyped, EntriesAllow, EntriesCount, RefusedAtLimit, Refuses,
     RefusalReported
<1>2. CASE WindowEnds
  <2>1. RateTyped' BY <1>2, RateBounds DEF WindowEnds, RateInv, RateTyped, Windows
  <2>2. RefusalReported' BY <1>2 DEF WindowEnds, RateInv, RefusalReported
  <2> QED BY <1>2, <2>1, <2>2, QuietVisitStep DEF WindowEnds
<1> QED
  BY <1>1, <1>2, VisitMoves, AddEntryStep, IncrementStep, CacheFailsStep, LoseEntryStep DEF RateNext

\* For any number of requests, identities and windows: the limit is exceeded only by
\* entries that were lost, nobody is refused before it is used up, and a refusal is
\* reported.
THEOREM LimitsHold == RateSpec => []LimitIsKept
BY RateInitInv, RateStep, RateInvImplies, PTL DEF RateSpec

-----------------------------------------------------------------------------
(* Notifications: a call that has begun makes what it owes unread, and     *)
(* drops the cached number before it does.                                 *)

NoticeRow == [made : BOOLEAN, read : BOOLEAN, muted : BOOLEAN]
NoticePcs == {"idle", "created", "fetched", "inserted", "done", "refused", "died"}

NoticeTyped ==
  /\ row \in [Members -> NoticeRow]
  /\ notice \in [Notices -> [pc : NoticePcs, rows : [Members -> NoticeRow]]]
  /\ copy \in [Members -> {NoCopy} \union
                          [made : {TRUE}, row : NoticeRow, unseen : SUBSET Notices]]
  /\ cache \in [Members -> {NoCount, 0, 1}] /\ count \in [Members -> {NoCount, 0, 1}]
  /\ unseen \in [Members -> SUBSET Notices]

\* The first call that inserts rows inserts those of all members, and none is removed.
Together(rows) == \A u, v \in Members : rows[u].made => rows[v].made
RowsTogether ==
  /\ Together(row) /\ \A n \in Notices : Together(notice[n].rows)
  /\ \A n \in Notices, u \in Members : notice[n].rows[u].made => row[u].made
  /\ \A u \in Members : copy[u].made => copy[u].row.made /\ row[u].made

\* Who has not touched the event is not muted.
MutedIsAside == \A u \in Members \ aside : ~row[u].muted

\* Call n will still make what user u has not seen unread, or never will.
Owes(n, u) ==
  \/ notice[n].pc \in {"created", "died"}
  \/ notice[n].pc = "fetched" /\ u \in ToInsert(notice[n].rows) /\ ~row[u].made
  \/ notice[n].pc \in {"fetched", "inserted"} /\ u \in ToUpdate(notice[n].rows)
UnseenIsDue ==
  \A u \in Members \ aside :
    unseen[u] # {} => (row[u].made /\ ~row[u].read) \/ \E n \in Notices : Owes(n, u)

\* A call that will change the row of u has found it, and dropped the number.
Pending(u) ==
  \E n \in Notices : /\ notice[n].pc \in {"fetched", "inserted"}
                     /\ u \in ToInsert(notice[n].rows) \union ToUpdate(notice[n].rows)
NumbersFit ==
  \A u \in Members \ early :
    /\ {cache[u], count[u]} \subseteq {NoCount, Unread(u)}
    /\ Pending(u) => cache[u] = NoCount /\ count[u] = NoCount

NoticeInv == NoticeTyped /\ RowsTogether /\ MutedIsAside /\ UnseenIsDue /\ NumbersFit

LEMMA NoticeInitInv == NoticeInit => NoticeInv
<1> SUFFICES ASSUME NoticeInit PROVE NoticeInv OBVIOUS
<1>1. NoticeTyped
  BY DEF NoticeInit, NoticeTyped, NoticeRow, NoticePcs, NoCopy, NoCount
<1>2. RowsTogether BY DEF NoticeInit, RowsTogether, Together, NoCopy
<1>3. MutedIsAside BY DEF NoticeInit, MutedIsAside
<1>4. UnseenIsDue BY DEF NoticeInit, UnseenIsDue
<1>5. NumbersFit
  <2>1. \A u \in Members : ~Pending(u) BY DEF NoticeInit, Pending
  <2> QED BY <2>1 DEF NoticeInit, NumbersFit
<1> QED BY <1>1, <1>2, <1>3, <1>4, <1>5 DEF NoticeInv

\* A call that moves on keeps the rows it has fetched.
LEMMA NoticeMovesTo ==
  ASSUME NoticeTyped, NEW n \in Notices, NEW pc \in NoticePcs, NoticeMoves(n, pc)
  PROVE  /\ notice' \in [Notices -> [pc : NoticePcs, rows : [Members -> NoticeRow]]]
         /\ notice'[n].pc = pc /\ notice'[n].rows = notice[n].rows
         /\ \A o \in Notices \ {n} : notice'[o] = notice[o]
BY DEF NoticeTyped, NoticeMoves

\* Steps of a user: the calls stay where they are, and nothing unseen is marked as read.
UserFrame ==
  /\ UNCHANGED notice /\ aside \subseteq aside'
  /\ \A v \in Members :
       /\ row'[v].made = row[v].made
       /\ copy'[v].made => copy'[v] = copy[v] \/ (row[v].made /\ copy'[v].row = row[v])
  /\ \A v \in Members \ aside' :
       /\ row'[v].muted = row[v].muted
       /\ unseen'[v] # {} => unseen[v] # {} /\ (row'[v].read => row[v].read)

\* The numbers after a step that starts or ends no call.
NumbersFollow ==
  \A v \in Members \ early' :
    /\ {cache'[v], count'[v]} \subseteq {NoCount, Unread(v)'}
    /\ Pending(v) => cache'[v] = NoCount /\ count'[v] = NoCount

LEMMA UserStepKeeps ==
  ASSUME NoticeInv, NoticeTyped', UserFrame, NumbersFollow PROVE NoticeInv'
<1>1. RowsTogether'
  BY DEF NoticeInv, RowsTogether, Together, UserFrame
<1>2. MutedIsAside' BY DEF NoticeInv, MutedIsAside, UserFrame
<1>3. UnseenIsDue'
  <2> SUFFICES ASSUME NEW v \in Members \ aside', unseen'[v] # {}
               PROVE  (row'[v].made /\ ~row'[v].read) \/ \E n \in Notices : Owes(n, v)'
    BY DEF UnseenIsDue
  <2>1. (row[v].made /\ ~row[v].read) \/ \E n \in Notices : Owes(n, v)
    BY DEF NoticeInv, UnseenIsDue, UserFrame
  <2>2. \A n \in Notices : Owes(n, v) => Owes(n, v)'
    BY DEF Owes, ToInsert, ToUpdate, UserFrame
  <2> QED BY <2>1, <2>2 DEF UserFrame
<1>4. NumbersFit'
  <2>1. \A v \in Members : Pending(v)' => Pending(v) BY DEF Pending, ToInsert, ToUpdate, UserFrame
  <2> QED BY <2>1 DEF NumbersFit, NumbersFollow
<1> QED BY <1>1, <1>2, <1>3, <1>4 DEF NoticeInv

LEMMA UserKeeps ==
  ASSUME NoticeInv, NEW u \in Members,
         \/ OpenEvent(u) \/ LoadToggle(u) \/ SaveToggled(u) \/ MuteEvent(u)
         \/ CountUnread(u) \/ CacheCount(u) \/ CacheExpires(u)
  PROVE  NoticeInv'
<1>t. NoticeTyped BY DEF NoticeInv
<1>u. \A v \in Members : Unread(v) \in {0, 1} BY <1>t DEF NoticeTyped, NoticeRow, Unread
<1>n. NumbersFit BY DEF NoticeInv
<1>1. CASE OpenEvent(u)
  <2>1. NoticeTyped' BY <1>t, <1>1 DEF OpenEvent, NoticeTyped, NoticeRow
  <2>2. /\ UNCHANGED <<notice, copy, count, aside>> /\ row[u].made
        /\ \A v \in Members : row'[v].made = row[v].made /\ row'[v].muted = row[v].muted
        /\ \A v \in Members \ {u} : row'[v] = row[v] /\ cache'[v] = cache[v] /\ unseen'[v] = unseen[v]
        /\ unseen'[u] = {} /\ cache'[u] = NoCount
        /\ \A v \in Members \ {u} : v \in early => v \in early'
        /\ count[u] # NoCount => u \in early'
    BY <1>t, <1>1 DEF OpenEvent, NoticeTyped, NoticeRow
  <2>3. NumbersFollow
    BY <1>n, <2>2 DEF NumbersFit, NumbersFollow, Unread
  <2>4. UserFrame BY <2>2 DEF UserFrame
  <2> QED BY <2>1, <2>3, <2>4, UserStepKeeps
<1>2. CASE LoadToggle(u)
  <2>1. NoticeTyped' BY <1>t, <1>2 DEF LoadToggle, NoticeTyped, NoticeRow
  <2>2. /\ UNCHANGED <<row, notice, cache, count, unseen, aside, early>> /\ row[u].made
        /\ copy'[u].row = row[u] /\ \A v \in Members \ {u} : copy'[v] = copy[v]
    BY <1>t, <1>2 DEF LoadToggle, NoticeTyped
  <2>3. NumbersFollow
    BY <1>n, <2>2 DEF NumbersFit, NumbersFollow, Unread
  <2>4. UserFrame BY <2>2 DEF UserFrame
  <2> QED BY <2>1, <2>3, <2>4, UserStepKeeps
<1>3. CASE SaveToggled(u)
  <2>c. copy[u].made BY <1>3 DEF SaveToggled
  <2>d. copy[u] # NoCopy BY <2>c DEF NoCopy
  <2>e. copy[u] \in [made : {TRUE}, row : NoticeRow, unseen : SUBSET Notices]
    BY <1>t, <2>d DEF NoticeTyped
  <2>f. copy[u].row.made /\ row[u].made BY <2>c DEF NoticeInv, RowsTogether
  <2>g. copy[u].row \in NoticeRow /\ row[u] \in NoticeRow BY <1>t, <2>e DEF NoticeTyped
  <2>0. copy[u].row \in NoticeRow /\ copy[u].row.made = TRUE /\ row[u].made = TRUE
    BY <2>f, <2>g DEF NoticeRow
  <2> DEFINE old == copy[u].row
             new == [old EXCEPT !.read = ~old.read]
  <2>a. new \in NoticeRow /\ new.made = old.made /\ new.read = ~old.read /\ new.muted = old.muted
    BY <2>0 DEF NoticeRow
  <2>b. row' = [row EXCEPT ![u] = new] BY <1>3 DEF SaveToggled
  <2> HIDE DEF new
  <2>1. NoticeTyped' BY <1>t, <1>3, <2>a, <2>b DEF SaveToggled, NoticeTyped
  <2>2. /\ UNCHANGED <<notice, count>>
        /\ row'[u] = new /\ \A v \in Members \ {u} : row'[v] = row[v]
        /\ cache'[u] = NoCount /\ \A v \in Members \ {u} : cache'[v] = cache[v]
        /\ copy'[u] = NoCopy /\ \A v \in Members \ {u} : copy'[v] = copy[v]
        /\ \A v \in Members \ {u} : v \in early => v \in early'
        /\ count[u] # NoCount => u \in early'
        /\ \A v \in Members \ {u} : unseen'[v] = unseen[v]
        /\ aside \subseteq aside'
        /\ u \notin aside' => old = row[u] /\ unseen[u] = copy[u].unseen
        /\ IF old.read THEN unseen' = unseen ELSE unseen'[u] = unseen[u] \ copy[u].unseen
    BY <1>t, <1>3, <2>b DEF SaveToggled, NoticeTyped
  <2>3. \A v \in Members : row'[v].made = row[v].made BY <2>0, <2>a, <2>2
  <2>4. \A v \in Members \ aside' :
          /\ row'[v].muted = row[v].muted
          /\ unseen'[v] # {} => unseen[v] # {} /\ (row'[v].read => row[v].read)
    <3> SUFFICES ASSUME u \notin aside'
                 PROVE  /\ row'[u].muted = row[u].muted
                        /\ unseen'[u] # {} => unseen[u] # {} /\ (row'[u].read => row[u].read)
      BY <2>2
    <3> QED BY <2>0, <2>a, <2>2
  <2>5. NumbersFollow
    BY <1>n, <2>2 DEF NumbersFit, NumbersFollow, Unread
  <2>6. \A v \in Members : copy'[v].made => copy'[v] = copy[v] BY <2>2 DEF NoCopy
  <2>7. UserFrame BY <2>2, <2>3, <2>4, <2>6 DEF UserFrame
  <2> QED BY <2>1, <2>5, <2>7, UserStepKeeps
<1>4. CASE MuteEvent(u)
  <2>0. /\ [row[u] EXCEPT !.muted = ~row[u].muted] \in NoticeRow
        /\ row' = [row EXCEPT ![u] = [row[u] EXCEPT !.muted = ~row[u].muted]]
    BY <1>t, <1>4 DEF MuteEvent, NoticeTyped, NoticeRow
  <2>1. NoticeTyped' BY <1>t, <1>4, <2>0 DEF MuteEvent, NoticeTyped
  <2>2. /\ UNCHANGED <<notice, copy, cache, count, unseen, early>> /\ aside' = aside \union {u}
        /\ \A v \in Members : row'[v].made = row[v].made /\ row'[v].read = row[v].read
        /\ \A v \in Members \ {u} : row'[v] = row[v]
    BY <1>t, <1>4 DEF MuteEvent, NoticeTyped, NoticeRow
  <2>3. NumbersFollow
    BY <1>n, <2>2 DEF NumbersFit, NumbersFollow, Unread
  <2>4. UserFrame BY <2>2 DEF UserFrame
  <2> QED BY <2>1, <2>3, <2>4, UserStepKeeps
<1>5. CASE CountUnread(u)
  <2>1. NoticeTyped' BY <1>t, <1>u, <1>5 DEF CountUnread, NoticeTyped
  <2>2. /\ UNCHANGED <<row, notice, copy, cache, unseen, aside>>
        /\ count'[u] = Unread(u) /\ \A v \in Members \ {u} : count'[v] = count[v]
        /\ early \subseteq early' /\ (Pending(u) => u \in early')
    BY <1>t, <1>5 DEF CountUnread, NoticeTyped, Pending
  <2>3. NumbersFollow
    BY <1>n, <2>2 DEF NumbersFit, NumbersFollow, Unread
  <2>4. UserFrame BY <2>2 DEF UserFrame
  <2> QED BY <2>1, <2>3, <2>4, UserStepKeeps
<1>6. CASE CacheCount(u)
  <2>1. NoticeTyped' BY <1>t, <1>6 DEF CacheCount, NoticeTyped
  <2>2. /\ UNCHANGED <<row, notice, copy, unseen, aside, early>>
        /\ count[u] # NoCount /\ count'[u] = NoCount /\ cache'[u] = count[u]
        /\ \A v \in Members \ {u} : count'[v] = count[v] /\ cache'[v] = cache[v]
    BY <1>t, <1>6 DEF CacheCount, NoticeTyped
  <2>3. NumbersFollow
    BY <1>n, <2>2 DEF NumbersFit, NumbersFollow, Unread
  <2>4. UserFrame BY <2>2 DEF UserFrame
  <2> QED BY <2>1, <2>3, <2>4, UserStepKeeps
<1>7. CASE CacheExpires(u)
  <2>1. NoticeTyped' BY <1>t, <1>7 DEF CacheExpires, NoticeTyped
  <2>2. /\ UNCHANGED <<row, notice, copy, count, unseen, aside>>
        /\ cache'[u] = NoCount /\ \A v \in Members \ {u} : cache'[v] = cache[v]
        /\ \A v \in Members \ {u} : v \in early => v \in early'
        /\ count[u] # NoCount => (u \in early => u \in early')
    BY <1>t, <1>7 DEF CacheExpires, NoticeTyped
  <2>3. NumbersFollow
    BY <1>n, <2>2 DEF NumbersFit, NumbersFollow, Unread
  <2>4. UserFrame BY <2>2 DEF UserFrame
  <2> QED BY <2>1, <2>3, <2>4, UserStepKeeps
<1> QED BY <1>1, <1>2, <1>3, <1>4, <1>5, <1>6, <1>7

\* A call that begins owes everybody something.
LEMMA CreateKeeps ==
  ASSUME NoticeInv, NEW n \in Notices, CreateEvent(n) PROVE NoticeInv'
<1>t. NoticeTyped BY DEF NoticeInv
<1>1. /\ notice' \in [Notices -> [pc : NoticePcs, rows : [Members -> NoticeRow]]]
      /\ notice'[n].pc = "created" /\ notice'[n].rows = notice[n].rows
      /\ \A o \in Notices \ {n} : notice'[o] = notice[o]
  BY <1>t, NoticeMovesTo DEF CreateEvent, NoticePcs
<1>2. UNCHANGED <<row, copy, cache, count, aside, early>> BY DEF CreateEvent
<1>3. NoticeTyped' BY <1>t, <1>1, <1>2 DEF CreateEvent, NoticeTyped
<1>4. RowsTogether' BY <1>1, <1>2 DEF NoticeInv, RowsTogether, Together
<1>5. MutedIsAside' BY <1>2 DEF NoticeInv, MutedIsAside
<1>6. UnseenIsDue'
  <2>1. \A v \in Members : Owes(n, v)' BY <1>1 DEF Owes
  <2> QED BY <2>1 DEF UnseenIsDue
<1>7. NumbersFit'
  <2>1. \A v \in Members : Pending(v)' => Pending(v)
    BY <1>1 DEF Pending, ToInsert, ToUpdate
  <2> QED BY <1>2, <2>1 DEF NoticeInv, NumbersFit, Unread
<1> QED BY <1>3, <1>4, <1>5, <1>6, <1>7 DEF NoticeInv

\* A call that finds the rows owes those that are read, or not there.
LEMMA FetchKeeps ==
  ASSUME NoticeInv, NEW n \in Notices, FetchRows(n) PROVE NoticeInv'
<1>t. NoticeTyped BY DEF NoticeInv
<1>1. /\ notice' \in [Notices -> [pc : NoticePcs, rows : [Members -> NoticeRow]]]
      /\ notice'[n].pc = "fetched" /\ notice'[n].rows = row /\ notice[n].pc = "created"
      /\ \A o \in Notices \ {n} : notice'[o] = notice[o]
  BY <1>t DEF FetchRows, NoticeTyped, NoticePcs
<1>2. /\ UNCHANGED <<row, copy, count, aside>> /\ early \subseteq early'
      /\ \A v \in Members : unseen'[v] \subseteq unseen[v]
      /\ \A v \in ToInsert(row) \union ToUpdate(row) : cache'[v] = NoCount
      /\ \A v \in ToInsert(row) \union ToUpdate(row) : count[v] # NoCount => v \in early'
      /\ \A v \in Members : cache'[v] \in {NoCount, cache[v]}
  BY DEF FetchRows, Notified, ToInsert, ToUpdate
<1>3. NoticeTyped'
  <2>1. cache' \in [Members -> {NoCount, 0, 1}] BY <1>t DEF FetchRows, NoticeTyped
  <2>2. unseen' \in [Members -> SUBSET Notices] BY <1>t DEF FetchRows, NoticeTyped
  <2> QED BY <1>t, <1>1, <1>2, <2>1, <2>2 DEF NoticeTyped
<1>4. RowsTogether'
  <2>1. Together(row) /\ \A v \in Members : copy'[v].made => copy'[v].row.made /\ row'[v].made
    BY <1>2 DEF NoticeInv, RowsTogether
  <2>2. \A o \in Notices : /\ Together(notice'[o].rows)
                           /\ \A v \in Members : notice'[o].rows[v].made => row'[v].made
    BY <1>1, <1>2, <2>1 DEF NoticeInv, RowsTogether
  <2> QED BY <1>2, <2>1, <2>2 DEF RowsTogether, Together
<1>5. MutedIsAside' BY <1>2 DEF NoticeInv, MutedIsAside
<1>6. UnseenIsDue'
  <2> SUFFICES ASSUME NEW v \in Members \ aside, unseen'[v] # {}, ~(row[v].made /\ ~row[v].read)
               PROVE  Owes(n, v)'
    BY <1>2 DEF UnseenIsDue
  <2>1. ~row[v].muted BY DEF NoticeInv, MutedIsAside
  <2>2. (v \in ToInsert(row) /\ ~row[v].made) \/ v \in ToUpdate(row)
    BY <2>1 DEF ToInsert, ToUpdate
  <2> QED BY <1>1, <1>2, <2>2 DEF Owes, ToInsert, ToUpdate
<1>7. NumbersFit'
  <2>1. \A v \in Members : Pending(v)' => Pending(v) \/ v \in ToInsert(row) \union ToUpdate(row)
    BY <1>1 DEF Pending, ToInsert, ToUpdate
  <2>2. \A v \in Members \ early' : {cache[v], count[v]} \subseteq {NoCount, Unread(v)}
                                   /\ (Pending(v) => cache[v] = NoCount /\ count[v] = NoCount)
    BY <1>2 DEF NoticeInv, NumbersFit
  <2> QED BY <1>2, <2>1, <2>2 DEF NumbersFit, Unread
<1> QED BY <1>3, <1>4, <1>5, <1>6, <1>7 DEF NoticeInv

\* A call is refused when the rows of all members are there by now; it owes nobody then.
LEMMA InsertKeeps ==
  ASSUME NoticeInv, NEW n \in Notices, InsertRows(n) PROVE NoticeInv'
<1> DEFINE new == ToInsert(notice[n].rows)
<1>t. NoticeTyped BY DEF NoticeInv
<1>0. UNCHANGED <<copy, cache, count, unseen, aside>> /\ notice[n].pc = "fetched"
  BY DEF InsertRows
<1>n. new \subseteq Members /\ \A v \in Members : v \in new <=> ~notice[n].rows[v].made
  BY DEF ToInsert
<1>1. CASE \E u \in new : row[u].made
  <2>1. NoticeMoves(n, "refused") /\ UNCHANGED <<row, early>> BY <1>1 DEF InsertRows
  <2>2. /\ notice' \in [Notices -> [pc : NoticePcs, rows : [Members -> NoticeRow]]]
        /\ notice'[n].pc = "refused" /\ notice'[n].rows = notice[n].rows
        /\ \A o \in Notices \ {n} : notice'[o] = notice[o]
    BY <1>t, <2>1, NoticeMovesTo DEF NoticePcs
  <2>3. NoticeTyped' BY <1>t, <1>0, <2>1, <2>2 DEF NoticeTyped
  <2>4. RowsTogether'
    <3>1. Together(row) /\ \A v \in Members : copy'[v].made => copy'[v].row.made /\ row'[v].made
      BY <1>0, <2>1 DEF NoticeInv, RowsTogether
    <3>2. \A o \in Notices : /\ Together(notice'[o].rows)
                             /\ \A v \in Members : notice'[o].rows[v].made => row'[v].made
      BY <2>1, <2>2 DEF NoticeInv, RowsTogether
    <3> QED BY <2>1, <3>1, <3>2 DEF RowsTogether, Together
  <2>5. MutedIsAside' BY <1>0, <2>1 DEF NoticeInv, MutedIsAside
  <2>6. \A v \in Members : ~Owes(n, v)
    <3> SUFFICES ASSUME NEW v \in Members PROVE ~Owes(n, v) OBVIOUS
    <3>1. row[v].made BY <1>1, <1>n DEF NoticeInv, RowsTogether, Together
    <3>2. ~notice[n].rows[v].made
      BY <1>1, <1>n DEF NoticeInv, RowsTogether, Together
    <3> QED BY <1>0, <3>1, <3>2 DEF Owes, ToUpdate
  <2>7. UnseenIsDue'
    <3>1. \A v \in Members, o \in Notices : Owes(o, v) => Owes(o, v)'
      BY <2>1, <2>2, <2>6 DEF Owes, ToInsert, ToUpdate
    <3> QED BY <1>0, <2>1, <3>1 DEF NoticeInv, UnseenIsDue
  <2>8. NumbersFit'
    <3>1. \A v \in Members : Pending(v)' => Pending(v)
      BY <2>2 DEF Pending, ToInsert, ToUpdate
    <3> QED BY <1>0, <2>1, <3>1 DEF NoticeInv, NumbersFit, Unread
  <2> QED BY <2>3, <2>4, <2>5, <2>7, <2>8 DEF NoticeInv
<1>2. CASE ~\E u \in new : row[u].made
  <2> DEFINE fresh == [made |-> TRUE, read |-> FALSE, muted |-> FALSE]
  <2>1. /\ NoticeMoves(n, "inserted")
        /\ row' = [u \in Members |-> IF u \in new THEN fresh ELSE row[u]]
        /\ early' = early \union {u \in new : count[u] # NoCount}
    BY <1>2 DEF InsertRows
  <2>f. fresh.made /\ ~fresh.read /\ ~fresh.muted /\ fresh \in NoticeRow BY DEF NoticeRow
  <2> HIDE DEF fresh
  <2>2. /\ notice' \in [Notices -> [pc : NoticePcs, rows : [Members -> NoticeRow]]]
        /\ notice'[n].pc = "inserted" /\ notice'[n].rows = notice[n].rows
        /\ \A o \in Notices \ {n} : notice'[o] = notice[o]
    BY <1>t, <2>1, NoticeMovesTo DEF NoticePcs
  <2>3. \A v \in Members : row'[v] = IF v \in new THEN fresh ELSE row[v] BY <2>1
  <2>4. NoticeTyped' BY <1>t, <1>0, <2>1, <2>2, <2>f DEF NoticeTyped
  <2>5. RowsTogether'
    <3>1. Together(row')
      <4> SUFFICES ASSUME NEW u \in Members, NEW v \in Members, row'[u].made PROVE row'[v].made
        BY DEF Together
      <4>1. CASE new = {} BY <2>3, <4>1 DEF NoticeInv, RowsTogether, Together
      <4>2. CASE new # {}
        <5>1. v \in new BY <1>n, <4>2 DEF NoticeInv, RowsTogether, Together
        <5> QED BY <2>3, <2>f, <5>1
      <4> QED BY <4>1, <4>2
    <3>2. /\ \A o \in Notices : Together(notice'[o].rows)
          /\ \A o \in Notices, u \in Members : notice'[o].rows[u].made => row'[u].made
      BY <2>2, <2>3, <2>f DEF NoticeInv, RowsTogether
    <3>3. \A v \in Members : copy'[v].made => copy'[v].row.made /\ row'[v].made
      BY <1>0, <2>3, <2>f DEF NoticeInv, RowsTogether
    <3> QED BY <3>1, <3>2, <3>3 DEF RowsTogether, Together
  <2>6. MutedIsAside' BY <1>0, <2>3, <2>f DEF NoticeInv, MutedIsAside
  <2>7. UnseenIsDue'
    <3> SUFFICES ASSUME NEW v \in Members \ aside, unseen[v] # {}, ~(row'[v].made /\ ~row'[v].read)
                 PROVE  \E o \in Notices : Owes(o, v)'
      BY <1>0 DEF UnseenIsDue
    <3>1. v \notin new /\ row'[v] = row[v] BY <2>3, <2>f
    <3>2. PICK o \in Notices : Owes(o, v) BY <3>1 DEF NoticeInv, UnseenIsDue
    <3>3. Owes(o, v)'
      <4>1. CASE o # n BY <2>2, <3>1, <3>2, <4>1 DEF Owes, ToInsert, ToUpdate
      <4>2. CASE o = n BY <1>0, <2>2, <3>1, <3>2, <4>2 DEF Owes, ToInsert, ToUpdate
      <4> QED BY <4>1, <4>2
    <3> QED BY <3>3
  <2>8. NumbersFit'
    <3> SUFFICES ASSUME NEW v \in Members \ early'
                 PROVE  /\ {cache'[v], count'[v]} \subseteq {NoCount, Unread(v)'}
                        /\ Pending(v)' => cache'[v] = NoCount /\ count'[v] = NoCount
      BY DEF NumbersFit
    <3>1. /\ {cache[v], count[v]} \subseteq {NoCount, Unread(v)}
          /\ Pending(v) => cache[v] = NoCount /\ count[v] = NoCount
      BY <2>1 DEF NoticeInv, NumbersFit
    <3>2. Pending(v)' => Pending(v) BY <1>0, <2>2 DEF Pending, ToInsert, ToUpdate
    <3>3. v \in new => Pending(v) BY <1>0 DEF Pending
    <3>4. v \notin new => Unread(v)' = Unread(v) BY <2>3 DEF Unread
    <3> QED BY <1>0, <3>1, <3>2, <3>3, <3>4
  <2> QED BY <2>4, <2>5, <2>6, <2>7, <2>8 DEF NoticeInv
<1> QED BY <1>1, <1>2

LEMMA UpdateKeeps ==
  ASSUME NoticeInv, NEW n \in Notices, UpdateRows(n) PROVE NoticeInv'
<1> DEFINE old == ToUpdate(notice[n].rows)
<1>t. NoticeTyped BY DEF NoticeInv
<1>0. /\ UNCHANGED <<copy, cache, count, unseen, aside>> /\ notice[n].pc = "inserted"
      /\ early \subseteq early'
      /\ row' = [u \in Members |-> IF u \in old THEN [row[u] EXCEPT !.read = FALSE] ELSE row[u]]
  BY DEF UpdateRows
<1>1. /\ notice' \in [Notices -> [pc : NoticePcs, rows : [Members -> NoticeRow]]]
      /\ notice'[n].pc = "done" /\ notice'[n].rows = notice[n].rows
      /\ \A o \in Notices \ {n} : notice'[o] = notice[o]
  BY <1>t, NoticeMovesTo DEF UpdateRows, NoticePcs
<1>2. \A v \in Members :
        /\ row'[v].made = row[v].made /\ row'[v].muted = row[v].muted
        /\ v \in old => row'[v].read = FALSE
        /\ v \notin old => row'[v] = row[v]
  BY <1>t, <1>0 DEF NoticeTyped, NoticeRow
<1>3. row' \in [Members -> NoticeRow]
  <2>0. \A v \in Members : row[v] \in NoticeRow BY <1>t DEF NoticeTyped
  <2>1. \A r \in NoticeRow : [r EXCEPT !.read = FALSE] \in NoticeRow BY DEF NoticeRow
  <2> QED BY <1>0, <2>0, <2>1
<1>4. NoticeTyped' BY <1>t, <1>0, <1>1, <1>3 DEF UpdateRows, NoticeTyped
<1>5. RowsTogether'
  <2>1. Together(row') /\ \A v \in Members : copy'[v].made => copy'[v].row.made /\ row'[v].made
    BY <1>0, <1>2 DEF NoticeInv, RowsTogether, Together
  <2>2. \A o \in Notices : /\ Together(notice'[o].rows)
                           /\ \A v \in Members : notice'[o].rows[v].made => row'[v].made
    BY <1>1, <1>2 DEF NoticeInv, RowsTogether
  <2> QED BY <2>1, <2>2 DEF RowsTogether, Together
<1>6. MutedIsAside' BY <1>0, <1>2 DEF NoticeInv, MutedIsAside
<1>7. UnseenIsDue'
  <2> SUFFICES ASSUME NEW v \in Members \ aside, unseen[v] # {}, ~(row'[v].made /\ ~row'[v].read)
               PROVE  \E o \in Notices : Owes(o, v)'
    BY <1>0 DEF UnseenIsDue
  <2>1. CASE v \in old
    <3>1. row[v].made BY <2>1 DEF ToUpdate, NoticeInv, RowsTogether
    <3> QED BY <1>2, <2>1, <3>1
  <2>2. CASE v \notin old
    <3>1. row'[v] = row[v] BY <1>2, <2>2
    <3>2. PICK o \in Notices : Owes(o, v) BY <3>1 DEF NoticeInv, UnseenIsDue
    <3>3. o # n BY <1>0, <2>2, <3>2 DEF Owes
    <3>4. Owes(o, v)' BY <1>1, <3>1, <3>2, <3>3 DEF Owes, ToInsert, ToUpdate
    <3> QED BY <3>4
  <2> QED BY <2>1, <2>2
<1>8. NumbersFit'
  <2> SUFFICES ASSUME NEW v \in Members \ early'
               PROVE  /\ {cache'[v], count'[v]} \subseteq {NoCount, Unread(v)'}
                      /\ Pending(v)' => cache'[v] = NoCount /\ count'[v] = NoCount
    BY DEF NumbersFit
  <2>1. /\ {cache[v], count[v]} \subseteq {NoCount, Unread(v)}
        /\ Pending(v) => cache[v] = NoCount /\ count[v] = NoCount
    BY <1>0 DEF NoticeInv, NumbersFit
  <2>2. Pending(v)' => Pending(v) BY <1>0, <1>1 DEF Pending, ToInsert, ToUpdate
  <2>3. v \in old => Pending(v) BY <1>0 DEF Pending
  <2>4. v \notin old => Unread(v)' = Unread(v) BY <1>2 DEF Unread
  <2> QED BY <1>0, <2>1, <2>2, <2>3, <2>4
<1> QED BY <1>4, <1>5, <1>6, <1>7, <1>8 DEF NoticeInv

LEMMA DiesKeeps ==
  ASSUME NoticeInv, NEW n \in Notices, NoticeDies(n) PROVE NoticeInv'
<1>t. NoticeTyped BY DEF NoticeInv
<1>0. UNCHANGED <<row, copy, cache, count, unseen, aside, early>> BY DEF NoticeDies
<1>1. /\ notice' \in [Notices -> [pc : NoticePcs, rows : [Members -> NoticeRow]]]
      /\ notice'[n].pc = "died" /\ notice'[n].rows = notice[n].rows
      /\ \A o \in Notices \ {n} : notice'[o] = notice[o]
  BY <1>t, NoticeMovesTo DEF NoticeDies, NoticePcs
<1>2. NoticeTyped' BY <1>t, <1>0, <1>1 DEF NoticeTyped
<1>3. RowsTogether' BY <1>0, <1>1 DEF NoticeInv, RowsTogether, Together
<1>4. MutedIsAside' BY <1>0 DEF NoticeInv, MutedIsAside
<1>5. UnseenIsDue'
  <2>1. \A v \in Members : Owes(n, v)' BY <1>1 DEF Owes
  <2> QED BY <2>1 DEF UnseenIsDue
<1>6. NumbersFit'
  <2>1. \A v \in Members : Pending(v)' => Pending(v)
    BY <1>1 DEF Pending, ToInsert, ToUpdate
  <2> QED BY <1>0, <2>1 DEF NoticeInv, NumbersFit, Unread
<1> QED BY <1>2, <1>3, <1>4, <1>5, <1>6 DEF NoticeInv

LEMMA NoticeStep == NoticeInv /\ [NoticeNext]_noticeVars => NoticeInv'
<1> SUFFICES ASSUME NoticeInv, [NoticeNext]_noticeVars PROVE NoticeInv' OBVIOUS
<1>1. CASE UNCHANGED noticeVars
  <2>1. \A v \in Members : Pending(v)' => Pending(v)
    BY <1>1 DEF noticeVars, Pending, ToInsert, ToUpdate
  <2>2. NoticeTyped' BY <1>1 DEF noticeVars, NoticeInv, NoticeTyped
  <2>3. UserFrame BY <1>1 DEF noticeVars, UserFrame
  <2>4. NumbersFollow BY <1>1 DEF noticeVars, NumbersFollow, NoticeInv, NumbersFit, Unread
  <2> QED BY <2>2, <2>3, <2>4, UserStepKeeps
<1>2. ASSUME NEW n \in Notices,
             CreateEvent(n) \/ FetchRows(n) \/ InsertRows(n) \/ UpdateRows(n) \/ NoticeDies(n)
      PROVE  NoticeInv'
  BY <1>2, CreateKeeps, FetchKeeps, InsertKeeps, UpdateKeeps, DiesKeeps
<1>3. ASSUME NEW u \in Members,
             \/ OpenEvent(u) \/ LoadToggle(u) \/ SaveToggled(u) \/ MuteEvent(u)
             \/ CountUnread(u) \/ CacheCount(u) \/ CacheExpires(u)
      PROVE  NoticeInv'
  BY <1>3, UserKeeps
<1> QED BY <1>1, <1>2, <1>3 DEF NoticeNext

\* For any number of members and of calls that overlap, whoever has not looked at a notification
\* finds it unread, and the cached number is that of the rows, except for those the history names
\* (create_notification, ocs_notifications/utils.py).
THEOREM EveryoneLearns == NoticeSpec => []NoticesArrive
<1>1. NoticeInv => NoticesArrive
  <2> SUFFICES ASSUME NoticeInv PROVE NoticesArrive OBVIOUS
  <2>1. EverybodyIsTold
    <3> SUFFICES ASSUME \A n \in Notices : notice[n].pc \in {"idle", "done", "refused"},
                        NEW u \in Members \ aside, unseen[u] # {}
                 PROVE  row[u].made /\ ~row[u].read
      BY DEF EverybodyIsTold
    <3>1. \A n \in Notices : ~Owes(n, u) BY DEF Owes
    <3> QED BY <3>1 DEF NoticeInv, UnseenIsDue
  <2>2. CachedCountIsRight BY DEF CachedCountIsRight, NoticeInv, NumbersFit
  <2> QED BY <2>1, <2>2 DEF NoticesArrive
<1> QED BY <1>1, NoticeInitInv, NoticeStep, PTL DEF NoticeSpec
=============================================================================
