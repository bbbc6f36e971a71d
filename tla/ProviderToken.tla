---------------------------- MODULE ProviderToken ----------------------------
(***************************************************************************)
(* The OAuth token of one auth provider (apps/service_providers): requests *)
(* share it, and fetch a new one under the lock of the provider's row when *)
(* it has expired or the configuration has changed; a form saves the whole *)
(* row.                                                                    *)
(***************************************************************************)
EXTENDS Integers

CONSTANTS
  Calls,         \* ids of get_valid_access_token calls
  MaxConfigs,    \* bound: configurations, of which the first is 1
  MaxExpiries,   \* bound: times the tokens expire
  NoCall

ASSUME TokenBounds == MaxConfigs \in Nat \ {0} /\ MaxExpiries \in Nat /\ NoCall \notin Calls

VARIABLES
  provider,   \* config and _auth_data: for which config the token was issued, its fingerprint, its age
  providerLock,
  call,       \* calls: progress, the row they have loaded and the token they use
  providerForm,       \* the row a form has loaded
  today,      \* tokens of an earlier day have expired
  fetches,    \* history: tokens fetched under each configuration and day
  overwritten \* history: days on which the form has overwritten a token

tokenVars == <<provider, providerLock, call, providerForm, today, fetches, overwritten>>

Configs == 1 .. MaxConfigs
Days == 0 .. MaxExpiries
NoToken == [issued |-> 0, fingerprint |-> 0, day |-> 0]
NoProvider == [config |-> 0, token |-> NoToken]

TokenInit ==
  /\ provider = [config |-> 1, token |-> NoToken]
  /\ providerLock = NoCall
  /\ call = [c \in Calls |-> [pc |-> "idle", row |-> NoProvider, token |-> NoToken]]
  /\ providerForm = NoProvider
  /\ today = 0
  /\ fetches = [config \in Configs |-> [d \in Days |-> 0]]
  /\ overwritten = {}

\* _token_is_valid: there is one, of this configuration, that has not expired.
Valid(row) == row.token.fingerprint = row.config /\ row.token.day = today

LoadProvider(c) ==
  /\ call[c].pc = "idle"
  /\ call' = [call EXCEPT ![c].pc = "loaded", ![c].row = provider]
  /\ UNCHANGED <<provider, providerLock, providerForm, today, fetches, overwritten>>

UseLoaded(c) ==
  /\ call[c].pc = "loaded" /\ Valid(call[c].row)
  /\ call' = [call EXCEPT ![c].pc = "done", ![c].token = call[c].row.token]
  /\ UNCHANGED <<provider, providerLock, providerForm, today, fetches, overwritten>>

\* Mutant: the row that was loaded before the lock is looked at.
LoadedRow(c) == call[c].row

\* select_for_update reads the row again.
LockedRow(c) == provider

\* Another call has fetched a token meanwhile, or this one will.
LockProvider(c) ==
  /\ call[c].pc = "loaded" /\ ~Valid(call[c].row) /\ providerLock = NoCall
  /\ IF Valid(LockedRow(c))
     THEN /\ call' = [call EXCEPT ![c].pc = "done", ![c].token = provider.token]
          /\ UNCHANGED providerLock
     ELSE /\ call' = [call EXCEPT ![c].pc = "fetching", ![c].row = provider]
          /\ providerLock' = c
  /\ UNCHANGED <<provider, providerForm, today, fetches, overwritten>>

\* Mutant: the token is asked for with the first configuration.
FirstConfig(c) == 1

\* The configuration under the lock.
ConfigToFetch(c) == call[c].row.config

\* The token is fetched, saved and used.
StoreToken(c) ==
  LET token == [issued |-> ConfigToFetch(c), fingerprint |-> provider.config, day |-> today]
  IN /\ call[c].pc = "fetching"
     /\ provider' = [provider EXCEPT !.token = token]
     /\ fetches' = [fetches EXCEPT ![ConfigToFetch(c)][today] = @ + 1]
     /\ call' = [call EXCEPT ![c].pc = "done", ![c].token = token]
     /\ providerLock' = NoCall
     /\ UNCHANGED <<providerForm, today, overwritten>>

\* The token endpoint refuses or the worker dies: the transaction is rolled back.
FetchFails(c) ==
  /\ call[c].pc = "fetching"
  /\ call' = [call EXCEPT ![c].pc = "done"]
  /\ providerLock' = NoCall
  /\ UNCHANGED <<provider, providerForm, today, fetches, overwritten>>

\* Calls of the day before have ended; none lasts until its own token expires.
TokensExpire ==
  /\ today < MaxExpiries
  /\ \A c \in Calls : call[c].pc \in {"idle", "done"}
  /\ today' = today + 1
  /\ UNCHANGED <<provider, providerLock, call, providerForm, fetches, overwritten>>

LoadProviderForm ==
  /\ providerForm = NoProvider
  /\ providerForm' = provider
  /\ UNCHANGED <<provider, providerLock, call, today, fetches, overwritten>>

\* The form saves the whole row, with the token it has loaded; the update waits for
\* the lock of the row.
SaveProviderForm(config) ==
  /\ providerForm # NoProvider /\ providerLock = NoCall
  /\ config \in {provider.config, provider.config + 1} \intersect Configs
  /\ provider' = [config |-> config, token |-> providerForm.token]
  /\ overwritten' = IF providerForm.token # provider.token THEN overwritten \union {today} ELSE overwritten
  /\ providerForm' = NoProvider
  /\ UNCHANGED <<providerLock, call, today, fetches>>

TokenNext ==
  \/ \E c \in Calls :
       LoadProvider(c) \/ UseLoaded(c) \/ LockProvider(c) \/ StoreToken(c) \/ FetchFails(c)
  \/ TokensExpire \/ LoadProviderForm
  \/ \E config \in Configs : SaveProviderForm(config)

TokenSpec == TokenInit /\ [][TokenNext]_tokenVars

-----------------------------------------------------------------------------
\* Calls that find no valid token at once fetch one among them, not one each, for
\* each configuration and time of validity; unless the form has overwritten the
\* token (service_providers/auth_service/oauth.py:64).
OneTokenFetched ==
  \A config \in Configs, d \in Days \ overwritten : fetches[config][d] <= 1

\* A token that passes for valid was issued under the configuration it is used with,
\* also when the form changes that while calls wait or fetch
\* (service_providers/auth_service/oauth.py:84).
ValidTokenFits ==
  /\ Valid(provider) => provider.token.issued = provider.config
  /\ \A c \in Calls : call[c].token.issued = call[c].token.fingerprint

\* Calls share one token, and it is one of their configuration.
TokenIsShared == OneTokenFetched /\ ValidTokenFits
=============================================================================
