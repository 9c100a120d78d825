--------------------------- MODULE ProviderTokens ---------------------------
(***************************************************************************)
(* One tenant's connection to one OAuth mail provider: the client secret   *)
(* and the token in reader_runtime, the pending OAuth states in the memory *)
(* of the HTTP handlers, and everyone who reads the token, refreshes it    *)
(* and writes it back: status requests (handlers_reader_auth.go) and the   *)
(* clients of scans and message searches (oauth.go).                       *)
(*                                                                         *)
(* A process p is one request or one client.  Between two of its steps,    *)
(* each a statement, a call to the provider or a locked section, the       *)
(* others run.  A token is a grant of the user and the number of the       *)
(* access token issued for it; it is refreshed within its grant.           *)
(***************************************************************************)
EXTENDS Naturals, FiniteSets

CONSTANTS States,     \* random OAuth states, each generated once
          Grants,     \* consents given by the user, one per exchanged code
          MaxGen,     \* access tokens issued for a grant after the first (bound)
          Procs,
          None

ASSUME GenAssumption == MaxGen \in Nat

Token == [grant: Grants, gen: 0..MaxGen]

ASSUME NoneAssumption == None \notin Token

VARIABLES st,         \* oauthStates: what became of each state
          secret,     \* client_secret_ciphertext IS NOT NULL
          token,      \* oauth_token_ciphertext
          issued,     \* access tokens the provider has issued
          expired,    \* those whose expiry has passed
          active,     \* tenant_scanning_state.active_reader is this provider
          scanning,   \* tenant_scanning_state.state, as far as connecting goes
          proc,
          exchanges   \* history: code exchanges started with a state

vars == <<st, secret, token, issued, expired, active, scanning, proc, exchanges>>
store == <<secret, token, active, scanning>>
provider == <<issued, expired>>
oauth == <<st, exchanges>>

PCs == {"idle", "redeemed", "exchanged", "saved", "read", "refreshed", "revoking", "revoked", "parking",
        "disconnecting", "removed", "client", "scan", "rewrite"}

\* stale (history): the token in hand was removed or replaced since it was read.
Proc == [pc: PCs, tok: Token \cup {None}, wasActive: BOOLEAN, stale: BOOLEAN]

Idle == [pc |-> "idle", tok |-> None, wasActive |-> FALSE, stale |-> FALSE]

TypeOK ==
  /\ st \in [States -> {"unknown", "pending", "lapsed", "gone"}]
  /\ secret \in BOOLEAN
  /\ token \in Token \cup {None}
  /\ issued \subseteq Token /\ expired \subseteq issued
  /\ active \in BOOLEAN
  /\ scanning \in {"stopped", "queued", "needs_auth"}
  /\ proc \in [Procs -> Proc]
  /\ exchanges \in [States -> Nat]

Init ==
  /\ st = [s \in States |-> "unknown"]
  /\ secret = FALSE /\ token = None
  /\ issued = {} /\ expired = {}
  /\ active = FALSE /\ scanning = "stopped"
  /\ proc = [p \in Procs |-> Idle]
  /\ exchanges = [s \in States |-> 0]

-----------------------------------------------------------------------------
At(p, pc) == proc[p].pc = pc

Goto(p, pc) == proc' = [proc EXCEPT ![p].pc = pc]

Hold(p, pc, t) == proc' = [proc EXCEPT ![p].pc = pc, ![p].tok = t]

Done(p) == proc' = [proc EXCEPT ![p] = Idle]

SameGrant(t, u) == t # None /\ u # None /\ t.grant = u.grant

\* p's statement stores t, or removes the token, and p goes on as r.  Tokens of
\* another grant than t's that others have in hand are stale from now on.
Put(p, t, r) ==
  /\ token' = t
  /\ proc' = [q \in Procs |->
               IF q = p THEN r
               ELSE [proc[q] EXCEPT !.stale = @ \/ (proc[q].tok # None /\ ~SameGrant(token, t))]]

\* Every request may end with its context, or with an error that is only logged.
Abort(p) ==
  /\ ~At(p, "idle")
  /\ Done(p)
  /\ UNCHANGED <<store, provider, oauth>>

-----------------------------------------------------------------------------
\* Authorization

CredentialsStatus == secret

UploadCredentials ==
  /\ secret' = TRUE
  /\ UNCHANGED <<token, active, scanning, provider, oauth, proc>>

\* A new state is remembered for oauthStateTTL; those that lapsed are pruned.
AuthStart(s) ==
  /\ secret
  /\ st[s] = "unknown"
  /\ st' = [r \in States |-> IF r = s THEN "pending" ELSE IF st[r] = "lapsed" THEN "gone" ELSE st[r]]
  /\ UNCHANGED <<store, provider, exchanges, proc>>

Lapse(s) ==
  /\ st[s] = "pending"
  /\ st' = [st EXCEPT ![s] = "lapsed"]
  /\ UNCHANGED <<store, provider, exchanges, proc>>

\* Fault: the state stays in the map.
Remember(s) == st' = st

\* The state is looked up and deleted under the lock of the handlers.
Forget(s) == st' = [st EXCEPT ![s] = "gone"]

\* A state that lapsed is refused, deleted all the same.
AuthCallback(p, s) ==
  /\ At(p, "idle")
  /\ st[s] \in {"pending", "lapsed"}
  /\ Forget(s)
  /\ IF st[s] = "pending"
     THEN Goto(p, "redeemed") /\ exchanges' = [exchanges EXCEPT ![s] = @ + 1]
     ELSE UNCHANGED <<proc, exchanges>>
  /\ UNCHANGED <<store, provider>>

\* The redirect URL pasted by a user, who may not be the one who started.
AuthExchange(p, s) ==
  \/ AuthCallback(p, s)
  \/ /\ At(p, "idle")
     /\ st[s] \in {"pending", "lapsed"}
     /\ Forget(s)
     /\ UNCHANGED <<store, provider, exchanges, proc>>

\* The provider exchanges the code for the first token of a new grant ...
Exchange(p) ==
  /\ At(p, "redeemed")
  /\ CredentialsStatus
  /\ \E g \in Grants :
       /\ \A t \in issued : t.grant # g
       /\ issued' = issued \cup {[grant |-> g, gen |-> 0]}
       /\ Hold(p, "exchanged", [grant |-> g, gen |-> 0])
  /\ UNCHANGED <<store, expired, oauth>>

\* ... which is saved over whatever token there was ...
exchangeAndSaveToken(p) ==
  /\ At(p, "exchanged")
  /\ Put(p, proc[p].tok, [Idle EXCEPT !.pc = "saved"])
  /\ UNCHANGED <<secret, active, scanning, provider, oauth>>

\* ... and the reader becomes the active one.
queueReaderScanning(p) ==
  /\ At(p, "saved")
  /\ active' = TRUE /\ scanning' = "queued"
  /\ Done(p)
  /\ UNCHANGED <<secret, token, provider, oauth>>

SaveReaderConfig(p) ==
  /\ At(p, "idle")
  /\ Goto(p, "saved")
  /\ UNCHANGED <<store, provider, oauth>>

-----------------------------------------------------------------------------
\* Refreshing

Expire(t) ==
  /\ t \in issued
  /\ expired' = expired \cup {t}
  /\ UNCHANGED <<store, issued, oauth, proc>>

\* oauth2.TokenSource: an expired token is exchanged for the grant's next one.
Refresh(p, pc) ==
  \E k \in 1..MaxGen :
    LET t == [grant |-> proc[p].tok.grant, gen |-> k]
    IN /\ t \notin issued
       /\ issued' = issued \cup {t}
       /\ Hold(p, pc, t)

\* A status request answers at once for a valid token, and goes on with an expired one.
AuthStatus(p) ==
  /\ At(p, "idle")
  /\ token \in expired
  /\ Hold(p, "read", token)
  /\ UNCHANGED <<store, provider, oauth>>

\* The readiness of a reader asks for its credentials first.
ReaderStatus(p) == CredentialsStatus /\ AuthStatus(p)

resolveOAuthTokenState(p) ==
  /\ At(p, "read")
  /\ secret
  /\ Refresh(p, "refreshed")
  /\ UNCHANGED <<store, expired, oauth>>

SaveRefreshed(p) ==
  /\ At(p, "refreshed")
  /\ Put(p, proc[p].tok, Idle)
  /\ UNCHANGED <<secret, active, scanning, provider, oauth>>

\* Fault: the client is built from a token kept in memory.
NewFromCache(p) ==
  /\ At(p, "idle")
  /\ secret
  /\ \E t \in issued : Hold(p, "client", t)
  /\ UNCHANGED <<store, provider, oauth>>

\* A client reads the stored token once.
NewFromJSONAndStore(p) ==
  /\ At(p, "idle")
  /\ secret
  /\ token # None
  /\ Hold(p, "client", token)
  /\ UNCHANGED <<store, provider, oauth>>

oauthClient(p) == CredentialsStatus /\ NewFromJSONAndStore(p)

newEmailSearcher(p) == CredentialsStatus /\ NewFromJSONAndStore(p)

\* Token() of the client: on its first call, and whenever the access token is a
\* new one, the token is to be written back.
NextToken(p) ==
  /\ \/ At(p, "client") /\ proc[p].tok \notin expired /\ Goto(p, "rewrite") /\ UNCHANGED issued
     \/ (At(p, "client") \/ At(p, "scan")) /\ proc[p].tok \in expired /\ Refresh(p, "rewrite")
  /\ UNCHANGED <<store, expired, oauth>>

\* SetReaderToken inserts the row again where it is missing; that it fails is only
\* logged, and the scan goes on.
WriteBack(p) ==
  /\ At(p, "rewrite")
  /\ \/ Put(p, proc[p].tok, [proc[p] EXCEPT !.pc = "scan", !.stale = FALSE])
     \/ Goto(p, "scan") /\ UNCHANGED token
  /\ UNCHANGED <<secret, active, scanning, provider, oauth>>

-----------------------------------------------------------------------------
\* Disconnecting

RevokeToken(p) ==
  /\ At(p, "idle")
  /\ token # None
  /\ Goto(p, "revoking")
  /\ UNCHANGED <<store, provider, oauth>>

DeleteReaderToken(p) ==
  /\ At(p, "revoking")
  /\ Put(p, None, [Idle EXCEPT !.pc = "revoked"])
  /\ UNCHANGED <<secret, active, scanning, provider, oauth>>

\* The tenant is to be parked if the reader is the active one ...
ActiveRevoked(p) ==
  /\ At(p, "revoked")
  /\ IF active THEN Goto(p, "parking") ELSE Done(p)
  /\ UNCHANGED <<store, provider, oauth>>

\* ... and is, whatever happened to it since.
ParkTenant(p) ==
  /\ At(p, "parking")
  /\ scanning' = "needs_auth"
  /\ Done(p)
  /\ UNCHANGED <<secret, token, active, provider, oauth>>

DisconnectReader(p) ==
  /\ At(p, "idle")
  /\ proc' = [proc EXCEPT ![p].pc = "disconnecting", ![p].wasActive = active]
  /\ UNCHANGED <<store, provider, oauth>>

DeleteReaderRuntime(p) ==
  /\ At(p, "disconnecting")
  /\ Put(p, None, [proc[p] EXCEPT !.pc = "removed"])
  /\ secret' = FALSE
  /\ UNCHANGED <<active, scanning, provider, oauth>>

ClearActiveScanningReader(p) ==
  /\ At(p, "removed")
  /\ IF proc[p].wasActive THEN active' = FALSE /\ scanning' = "stopped"
     ELSE UNCHANGED <<active, scanning>>
  /\ Done(p)
  /\ UNCHANGED <<secret, token, provider, oauth>>

-----------------------------------------------------------------------------
Connecting(p) ==
  \/ \E s \in States : AuthCallback(p, s) \/ AuthExchange(p, s)
  \/ Exchange(p) \/ exchangeAndSaveToken(p) \/ queueReaderScanning(p) \/ SaveReaderConfig(p)

Reading(p) ==
  \/ AuthStatus(p) \/ ReaderStatus(p) \/ resolveOAuthTokenState(p) \/ SaveRefreshed(p)
  \/ oauthClient(p) \/ newEmailSearcher(p) \/ NextToken(p) \/ WriteBack(p)

Removing(p) ==
  \/ RevokeToken(p) \/ DeleteReaderToken(p) \/ ActiveRevoked(p) \/ ParkTenant(p)
  \/ DisconnectReader(p) \/ DeleteReaderRuntime(p) \/ ClearActiveScanningReader(p)

Next ==
  \/ UploadCredentials
  \/ \E s \in States : AuthStart(s) \/ Lapse(s)
  \/ \E t \in Token : Expire(t)
  \/ \E p \in Procs : Connecting(p) \/ Reading(p) \/ Removing(p) \/ Abort(p)

Spec == Init /\ [][Next]_vars

-----------------------------------------------------------------------------
\* One authorization is exchanged at most once, whether its state comes back by
\* the redirect, by a pasted URL, by both at once, or after it lapsed.
ExchangedOnce == \A s \in States : exchanges[s] <= 1

\* A token that was removed, or replaced by that of a newer consent, is brought
\* back only by someone who read it before: every other write of a token comes
\* from an exchange or stays within the grant that is stored.
OnlyReadersBeforeRestore ==
  [][token' \notin {None, token}
       => \/ \E p \in Procs : At(p, "exchanged") /\ proc'[p].pc = "saved"
          \/ token # None /\ token'.grant = token.grant
          \/ \E p \in Procs : proc[p].stale /\ proc[p].tok = token']_vars

=============================================================================
