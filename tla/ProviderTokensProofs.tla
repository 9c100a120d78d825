------------------------- MODULE ProviderTokensProofs -------------------------
(***************************************************************************)
(* Theorems about the tokens of a mail provider, for any number of         *)
(* authorizations, requests and clients.                                   *)
(***************************************************************************)
EXTENDS ProviderTokens, TLAPS

\* A state whose code may still be exchanged has not been used.
PendingUnused ==
  \A s \in States : /\ exchanges[s] <= 1
                    /\ st[s] # "gone" => exchanges[s] = 0

\* Who holds a token that was stored holds one of the stored grant, or knows better.
Holding == {"read", "refreshed", "client", "scan", "rewrite"}
HeldOrStale ==
  \A p \in Procs : proc[p].pc \in Holding =>
    /\ proc[p].tok \in Token
    /\ proc[p].stale \/ SameGrant(token, proc[p].tok)

\* A token that is about to be saved for the first time is one.
ExchangedHeld == \A p \in Procs : proc[p].pc = "exchanged" => proc[p].tok \in Token

TokenInv == TypeOK /\ PendingUnused /\ HeldOrStale /\ ExchangedHeld

-----------------------------------------------------------------------------
LEMMA IdleType == Idle \in Proc /\ Idle.pc = "idle"
BY DEF Idle, Proc, PCs

LEMMA TokenInit == Init => TokenInv
<1> SUFFICES ASSUME Init PROVE TokenInv
  OBVIOUS
<1>1. TypeOK
  BY IdleType DEF Init, TypeOK
<1>2. PendingUnused
  BY DEF Init, PendingUnused
<1>3. HeldOrStale /\ ExchangedHeld
  BY IdleType DEF Init, HeldOrStale, ExchangedHeld, Holding
<1> QED
  BY <1>1, <1>2, <1>3 DEF TokenInv

(* What is written of a token keeps to its grant for those who do not know *)
(* of it.                                                                  *)
LEMMA PutKeeps ==
  ASSUME TypeOK, HeldOrStale, ExchangedHeld, NEW p \in Procs, NEW t \in Token \cup {None}, NEW r \in Proc,
         Put(p, t, r), r.pc # "exchanged",
         r.pc \in Holding => r.tok \in Token /\ SameGrant(t, r.tok)
  PROVE  /\ token' \in Token \cup {None} /\ proc' \in [Procs -> Proc]
         /\ HeldOrStale' /\ ExchangedHeld'
<1>1. token' = t /\ proc'[p] = r
  BY DEF Put
<1>2. ASSUME NEW q \in Procs, q # p
      PROVE  /\ proc'[q] \in Proc /\ proc'[q].pc = proc[q].pc /\ proc'[q].tok = proc[q].tok
             /\ proc'[q].stale <=> (proc[q].stale \/ (proc[q].tok # None /\ ~SameGrant(token, t)))
  <2>1. proc'[q] = [proc[q] EXCEPT !.stale = @ \/ (proc[q].tok # None /\ ~SameGrant(token, t))]
    BY <1>2 DEF Put
  <2>2. proc[q] \in Proc
    BY DEF TypeOK
  <2>3. (proc[q].stale \/ (proc[q].tok # None /\ ~SameGrant(token, t))) \in BOOLEAN
    BY <2>2 DEF Proc
  <2> QED
    BY <2>1, <2>2, <2>3 DEF Proc
<1>3. proc' \in [Procs -> Proc]
  <2>1. \A q \in Procs : proc'[q] \in Proc
    BY <1>1, <1>2
  <2>2. DOMAIN proc' = Procs /\ proc' = [q \in Procs |-> proc'[q]]
    BY DEF Put
  <2> QED
    BY <2>1, <2>2
<1>4. HeldOrStale'
  <2> SUFFICES ASSUME NEW q \in Procs, proc'[q].pc \in Holding
               PROVE  proc'[q].tok \in Token /\ (proc'[q].stale \/ SameGrant(token', proc'[q].tok))
    BY DEF HeldOrStale, SameGrant
  <2>1. CASE q = p
    BY <1>1, <2>1
  <2>2. CASE q # p
    BY <1>1, <1>2, <2>2, NoneAssumption DEF HeldOrStale, SameGrant
  <2> QED
    BY <2>1, <2>2
<1>5. ExchangedHeld'
  BY <1>1, <1>2 DEF ExchangedHeld
<1> QED
  BY <1>1, <1>3, <1>4, <1>5

LEMMA MoveKeeps ==
  ASSUME TypeOK, HeldOrStale, ExchangedHeld, NEW p \in Procs, NEW r \in Proc,
         proc' = [proc EXCEPT ![p] = r], UNCHANGED token, r.pc = "exchanged" => r.tok \in Token,
         r.pc \in Holding => r.tok \in Token /\ (r.stale \/ SameGrant(token, r.tok))
  PROVE  proc' \in [Procs -> Proc] /\ HeldOrStale' /\ ExchangedHeld'
BY DEF TypeOK, HeldOrStale, ExchangedHeld, SameGrant

LEMMA DoneKeeps ==
  ASSUME TypeOK, HeldOrStale, ExchangedHeld, NEW p \in Procs, Done(p), UNCHANGED token
  PROVE  proc' \in [Procs -> Proc] /\ HeldOrStale' /\ ExchangedHeld'
<1>1. Idle \in Proc /\ Idle.pc # "exchanged" /\ Idle.pc \notin Holding
  BY IdleType DEF Holding
<1> QED
  BY <1>1, MoveKeeps DEF Done

LEMMA GotoKeeps ==
  ASSUME TypeOK, HeldOrStale, ExchangedHeld, NEW p \in Procs, NEW pc \in PCs, Goto(p, pc),
         UNCHANGED token, pc # "exchanged", pc \in Holding => proc[p].pc \in Holding
  PROVE  proc' \in [Procs -> Proc] /\ HeldOrStale' /\ ExchangedHeld'
<1> DEFINE r == [proc[p] EXCEPT !.pc = pc]
<1>1. proc[p] \in Proc
  BY DEF TypeOK
<1>2. r \in Proc /\ r.pc = pc /\ r.tok = proc[p].tok /\ r.stale = proc[p].stale
  BY <1>1 DEF Proc
<1>3. proc' = [proc EXCEPT ![p] = r]
  BY DEF Goto
<1> HIDE DEF r
<1> QED
  BY <1>2, <1>3, MoveKeeps DEF HeldOrStale

LEMMA HoldKeeps ==
  ASSUME TypeOK, HeldOrStale, ExchangedHeld, NEW p \in Procs, NEW pc \in PCs, NEW t \in Token,
         Hold(p, pc, t), UNCHANGED token,
         pc \in Holding => proc[p].stale \/ SameGrant(token, t)
  PROVE  proc' \in [Procs -> Proc] /\ HeldOrStale' /\ ExchangedHeld'
<1> DEFINE r == [proc[p] EXCEPT !.pc = pc, !.tok = t]
<1>1. proc[p] \in Proc
  BY DEF TypeOK
<1>2. r \in Proc /\ r.pc = pc /\ r.tok = t /\ r.stale = proc[p].stale
  BY <1>1 DEF Proc
<1>3. proc' = [proc EXCEPT ![p] = r]
  BY DEF Hold
<1> HIDE DEF r
<1> QED
  BY <1>2, <1>3, MoveKeeps

LEMMA RefreshKeeps ==
  ASSUME TypeOK, HeldOrStale, ExchangedHeld, NEW p \in Procs, proc[p].pc \in Holding,
         NEW pc \in PCs, pc # "exchanged", Refresh(p, pc), UNCHANGED token
  PROVE  /\ issued' \subseteq Token /\ issued \subseteq issued'
         /\ proc' \in [Procs -> Proc] /\ HeldOrStale' /\ ExchangedHeld'
<1>1. PICK k \in 1..MaxGen : /\ issued' = issued \cup {[grant |-> proc[p].tok.grant, gen |-> k]}
                             /\ Hold(p, pc, [grant |-> proc[p].tok.grant, gen |-> k])
  BY DEF Refresh
<1> DEFINE t == [grant |-> proc[p].tok.grant, gen |-> k]
<1>2. proc[p].tok \in Token /\ (proc[p].stale \/ SameGrant(token, proc[p].tok))
  BY DEF HeldOrStale
<1>3. t \in Token /\ t.grant = proc[p].tok.grant /\ t # None
  BY <1>2, GenAssumption, NoneAssumption DEF Token
<1>4. issued' = issued \cup {t} /\ Hold(p, pc, t)
  BY <1>1
<1> HIDE DEF t
<1>5. proc[p].stale \/ SameGrant(token, t)
  BY <1>2, <1>3 DEF SameGrant
<1> QED
  BY <1>3, <1>4, <1>5, HoldKeeps DEF TypeOK

-----------------------------------------------------------------------------
(* The invariant is inductive. *)

\* A step that leaves the states and the rest of the store, and keeps the tokens.
LEMMA TokenKept ==
  ASSUME TokenInv, UNCHANGED oauth, proc' \in [Procs -> Proc], HeldOrStale', ExchangedHeld',
         secret' \in BOOLEAN, token' \in Token \cup {None}, active' \in BOOLEAN,
         scanning' \in {"stopped", "queued", "needs_auth"},
         issued' \subseteq Token, issued \subseteq issued', UNCHANGED expired
  PROVE  TokenInv'
BY DEF TokenInv, TypeOK, PendingUnused, oauth

LEMMA StateStep ==
  ASSUME TokenInv,
         \/ \E s \in States : AuthStart(s) \/ Lapse(s)
         \/ \E p \in Procs, s \in States : AuthExchange(p, s)
         \/ UploadCredentials
         \/ \E t \in Token : Expire(t)
  PROVE  TokenInv'
<1> USE DEF TokenInv
<1>1. ASSUME NEW s \in States, AuthStart(s) \/ Lapse(s)
      PROVE  TokenInv'
  <2>1. PendingUnused'
    BY <1>1 DEF AuthStart, Lapse, PendingUnused, TypeOK
  <2>2. TypeOK'
    BY <1>1 DEF AuthStart, Lapse, TypeOK, store, provider
  <2>3. HeldOrStale' /\ ExchangedHeld'
    BY <1>1 DEF AuthStart, Lapse, HeldOrStale, ExchangedHeld, SameGrant, store
  <2> QED
    BY <2>1, <2>2, <2>3
<1>2. ASSUME NEW p \in Procs, NEW s \in States, AuthExchange(p, s)
      PROVE  TokenInv'
  <2>1. st' = [st EXCEPT ![s] = "gone"] /\ st[s] # "gone" /\ UNCHANGED <<store, provider>>
    BY <1>2 DEF AuthExchange, AuthCallback, Forget
  <2>2. exchanges' = [exchanges EXCEPT ![s] = @ + 1] \/ UNCHANGED exchanges
    BY <1>2 DEF AuthExchange, AuthCallback
  <2>3. PendingUnused'
    BY <2>1, <2>2 DEF PendingUnused, TypeOK
  <2>4. Goto(p, "redeemed") \/ UNCHANGED proc
    BY <1>2 DEF AuthExchange, AuthCallback
  <2>5. proc' \in [Procs -> Proc] /\ HeldOrStale' /\ ExchangedHeld'
    <3>1. CASE Goto(p, "redeemed")
      BY <2>1, <3>1, GotoKeeps DEF PCs, Holding, store
    <3>2. CASE UNCHANGED proc
      BY <2>1, <3>2 DEF TypeOK, HeldOrStale, ExchangedHeld, SameGrant, store
    <3> QED
      BY <2>4, <3>1, <3>2
  <2>6. TypeOK'
    BY <2>1, <2>2, <2>5 DEF TypeOK, store, provider
  <2> QED
    BY <2>3, <2>5, <2>6
<1>3. CASE UploadCredentials
  <2>1. HeldOrStale' /\ ExchangedHeld'
    BY <1>3 DEF UploadCredentials, HeldOrStale, ExchangedHeld, SameGrant
  <2> QED
    BY <1>3, <2>1, TokenKept DEF UploadCredentials, TypeOK, provider
<1>4. ASSUME NEW t \in Token, Expire(t)
      PROVE  TokenInv'
  <2>1. TypeOK'
    BY <1>4 DEF Expire, TypeOK, store, oauth
  <2> QED
    BY <1>4, <2>1 DEF Expire, PendingUnused, HeldOrStale, ExchangedHeld, SameGrant, store, oauth
<1> QED
  BY <1>1, <1>2, <1>3, <1>4

LEMMA ConnectStep ==
  ASSUME TokenInv, NEW p \in Procs,
         Exchange(p) \/ exchangeAndSaveToken(p) \/ queueReaderScanning(p) \/ SaveReaderConfig(p)
  PROVE  TokenInv'
<1> USE DEF TokenInv, PCs, Holding
<1>1. CASE Exchange(p)
  <2>1. PICK g \in Grants : /\ issued' = issued \cup {[grant |-> g, gen |-> 0]}
                            /\ Hold(p, "exchanged", [grant |-> g, gen |-> 0])
    BY <1>1 DEF Exchange
  <2> DEFINE t == [grant |-> g, gen |-> 0]
  <2>2. t \in Token
    BY GenAssumption DEF Token
  <2>3. issued' = issued \cup {t} /\ Hold(p, "exchanged", t)
    BY <2>1
  <2> HIDE DEF t
  <2>4. proc' \in [Procs -> Proc] /\ HeldOrStale' /\ ExchangedHeld'
    BY <1>1, <2>2, <2>3, HoldKeeps DEF Exchange, store
  <2> QED
    BY <1>1, <2>2, <2>3, <2>4, TokenKept DEF Exchange, TypeOK, store
<1>2. CASE exchangeAndSaveToken(p)
  <2> DEFINE r == [Idle EXCEPT !.pc = "saved"]
  <2>1. r \in Proc /\ r.pc = "saved"
    BY IdleType DEF Proc
  <2>2. Put(p, proc[p].tok, r) /\ proc[p].tok \in Token
    BY <1>2 DEF exchangeAndSaveToken, ExchangedHeld, At
  <2> HIDE DEF r
  <2>3. token' \in Token \cup {None} /\ proc' \in [Procs -> Proc] /\ HeldOrStale' /\ ExchangedHeld'
    BY <2>1, <2>2, PutKeeps
  <2> QED
    BY <1>2, <2>3, TokenKept DEF exchangeAndSaveToken, TypeOK, provider
<1>3. CASE queueReaderScanning(p)
  BY <1>3, DoneKeeps, TokenKept DEF queueReaderScanning, TypeOK, provider
<1>4. CASE SaveReaderConfig(p)
  BY <1>4, GotoKeeps, TokenKept DEF SaveReaderConfig, TypeOK, provider, store
<1> QED
  BY <1>1, <1>2, <1>3, <1>4

LEMMA ReadStep ==
  ASSUME TokenInv, NEW p \in Procs, Reading(p)
  PROVE  TokenInv'
<1> USE DEF TokenInv, PCs, Holding
<1>1. ASSUME NEW pc \in {"read", "client"}, Hold(p, pc, token), token \in Token,
             UNCHANGED <<store, provider, oauth>>
      PROVE  TokenInv'
  <2>1. SameGrant(token, token)
    BY <1>1, NoneAssumption DEF SameGrant
  <2> QED
    BY <1>1, <2>1, HoldKeeps, TokenKept DEF TypeOK, store, provider
<1>2. CASE AuthStatus(p)
  BY <1>1, <1>2 DEF AuthStatus, TypeOK
<1>3. CASE NewFromJSONAndStore(p)
  BY <1>1, <1>3 DEF NewFromJSONAndStore, TypeOK
<1>4. ASSUME NEW pc \in {"refreshed", "rewrite"}, Refresh(p, pc), proc[p].pc \in {"read", "client", "scan"},
             UNCHANGED <<store, expired, oauth>>
      PROVE  TokenInv'
  <2>1. /\ issued' \subseteq Token /\ issued \subseteq issued'
        /\ proc' \in [Procs -> Proc] /\ HeldOrStale' /\ ExchangedHeld'
    BY <1>4, RefreshKeeps DEF store
  <2> QED
    BY <1>4, <2>1, TokenKept DEF TypeOK, store
<1>5. CASE resolveOAuthTokenState(p)
  BY <1>4, <1>5 DEF resolveOAuthTokenState, At
<1>6. ASSUME NEW r \in Proc, Put(p, proc[p].tok, r), proc[p].pc \in {"refreshed", "rewrite"},
             r = Idle \/ (r.pc = "scan" /\ r.tok = proc[p].tok),
             UNCHANGED <<secret, active, scanning, provider, oauth>>
      PROVE  TokenInv'
  <2>1. proc[p].tok \in Token /\ SameGrant(proc[p].tok, proc[p].tok)
    BY <1>6, NoneAssumption DEF HeldOrStale, SameGrant
  <2>2. r.pc # "exchanged" /\ (r.pc \in Holding => r.tok = proc[p].tok)
    BY <1>6, IdleType
  <2>3. token' \in Token \cup {None} /\ proc' \in [Procs -> Proc] /\ HeldOrStale' /\ ExchangedHeld'
    BY <1>6, <2>1, <2>2, PutKeeps
  <2> QED
    BY <1>6, <2>3, TokenKept DEF TypeOK, provider
<1>7. CASE SaveRefreshed(p)
  BY <1>6, <1>7, IdleType DEF SaveRefreshed, At
<1>8. CASE NextToken(p)
  <2>1. CASE proc[p].pc = "client" /\ Goto(p, "rewrite") /\ UNCHANGED issued
    BY <1>8, <2>1, GotoKeeps, TokenKept DEF NextToken, TypeOK, store
  <2>2. CASE proc[p].pc \in {"client", "scan"} /\ Refresh(p, "rewrite")
    BY <1>4, <1>8, <2>2 DEF NextToken
  <2> QED
    BY <1>8, <2>1, <2>2 DEF NextToken, At
<1>9. CASE WriteBack(p)
  <2> DEFINE r == [proc[p] EXCEPT !.pc = "scan", !.stale = FALSE]
  <2>1. r \in Proc /\ r.pc = "scan" /\ r.tok = proc[p].tok
    BY DEF TypeOK, Proc
  <2>2. \/ Put(p, proc[p].tok, r)
        \/ Goto(p, "scan") /\ UNCHANGED token
    BY <1>9 DEF WriteBack
  <2>3. proc[p].pc = "rewrite" /\ UNCHANGED <<secret, active, scanning, provider, oauth>>
    BY <1>9 DEF WriteBack, At
  <2> HIDE DEF r
  <2>4. CASE Put(p, proc[p].tok, r)
    BY <1>6, <2>1, <2>3, <2>4
  <2>5. CASE Goto(p, "scan") /\ UNCHANGED token
    BY <2>3, <2>5, GotoKeeps, TokenKept DEF TypeOK, provider
  <2> QED
    BY <2>2, <2>4, <2>5
<1> QED
  BY <1>2, <1>3, <1>5, <1>7, <1>8, <1>9 DEF Reading, ReaderStatus, oauthClient, newEmailSearcher

LEMMA RemoveStep ==
  ASSUME TokenInv, NEW p \in Procs, Removing(p)
  PROVE  TokenInv'
<1> USE DEF TokenInv, PCs, Holding
<1>1. CASE RevokeToken(p)
  BY <1>1, GotoKeeps, TokenKept DEF RevokeToken, TypeOK, store, provider
<1>2. ASSUME NEW r \in Proc, Put(p, None, r), r.pc \in {"revoked", "removed"}, secret' \in BOOLEAN,
             UNCHANGED <<active, scanning, provider, oauth>>
      PROVE  TokenInv'
  <2>1. token' \in Token \cup {None} /\ proc' \in [Procs -> Proc] /\ HeldOrStale' /\ ExchangedHeld'
    BY <1>2, PutKeeps
  <2> QED
    BY <1>2, <2>1, TokenKept DEF TypeOK, provider
<1>3. CASE DeleteReaderToken(p)
  <2> DEFINE r == [Idle EXCEPT !.pc = "revoked"]
  <2>1. r \in Proc /\ r.pc = "revoked"
    BY IdleType DEF Proc
  <2>2. Put(p, None, r) /\ UNCHANGED <<secret, active, scanning, provider, oauth>>
    BY <1>3 DEF DeleteReaderToken
  <2> HIDE DEF r
  <2> QED
    BY <1>2, <2>1, <2>2 DEF TypeOK
<1>4. CASE ActiveRevoked(p)
  BY <1>4, GotoKeeps, DoneKeeps, TokenKept DEF ActiveRevoked, TypeOK, store, provider
<1>5. CASE ParkTenant(p)
  BY <1>5, DoneKeeps, TokenKept DEF ParkTenant, TypeOK, provider
<1>6. CASE DisconnectReader(p)
  <2> DEFINE r == [proc[p] EXCEPT !.pc = "disconnecting", !.wasActive = active]
  <2>1. r \in Proc /\ r.pc = "disconnecting"
    BY DEF TypeOK, Proc
  <2>2. proc' = [proc EXCEPT ![p] = r] /\ UNCHANGED <<store, provider, oauth>>
    BY <1>6 DEF DisconnectReader
  <2> HIDE DEF r
  <2> QED
    BY <2>1, <2>2, MoveKeeps, TokenKept DEF TypeOK, store, provider
<1>7. CASE DeleteReaderRuntime(p)
  <2> DEFINE r == [proc[p] EXCEPT !.pc = "removed"]
  <2>1. r \in Proc /\ r.pc = "removed"
    BY DEF TypeOK, Proc
  <2>2. Put(p, None, r) /\ secret' = FALSE /\ UNCHANGED <<active, scanning, provider, oauth>>
    BY <1>7 DEF DeleteReaderRuntime
  <2> HIDE DEF r
  <2> QED
    BY <1>2, <2>1, <2>2
<1>8. CASE ClearActiveScanningReader(p)
  BY <1>8, DoneKeeps, TokenKept DEF ClearActiveScanningReader, TypeOK, provider
<1> QED
  BY <1>1, <1>3, <1>4, <1>5, <1>6, <1>7, <1>8 DEF Removing

LEMMA TokenStep ==
  ASSUME TokenInv, [Next]_vars
  PROVE  TokenInv'
<1>1. ASSUME NEW p \in Procs, Abort(p)
      PROVE  TokenInv'
  BY <1>1, DoneKeeps, TokenKept DEF TokenInv, Abort, TypeOK, store, provider
<1>2. CASE UNCHANGED vars
  BY <1>2 DEF vars, TokenInv, TypeOK, PendingUnused, HeldOrStale, ExchangedHeld, SameGrant
<1>3. ASSUME NEW p \in Procs, Connecting(p)
      PROVE  TokenInv'
  BY <1>3, StateStep, ConnectStep DEF Connecting, AuthExchange
<1> QED
  BY <1>1, <1>2, <1>3, StateStep, ReadStep, RemoveStep DEF Next

LEMMA TokenInvariant == Spec => []TokenInv
<1> QED
  BY TokenInit, TokenStep, PTL DEF Spec

-----------------------------------------------------------------------------
(* The rows, the tokens in hand and the states keep their types.           *)
THEOREM TokenTypes == Spec => []TypeOK
<1>1. TokenInv => TypeOK
  BY DEF TokenInv
<1> QED
  BY <1>1, TokenInvariant, PTL

(* One authorization is exchanged at most once, for any number of states   *)
(* and requests: the state is looked up and deleted under one lock.        *)
THEOREM StateIsExchangedOnce == Spec => []ExchangedOnce
<1>1. TokenInv => ExchangedOnce
  BY DEF TokenInv, PendingUnused, ExchangedOnce
<1> QED
  BY <1>1, TokenInvariant, PTL

(* Which processes write tokens. *)
RestoredByReaders ==
  token' \notin {None, token}
    => \/ \E p \in Procs : At(p, "exchanged") /\ proc'[p].pc = "saved"
       \/ token # None /\ token'.grant = token.grant
       \/ \E p \in Procs : proc[p].stale /\ proc[p].tok = token'

LEMMA RestoreStep ==
  ASSUME TokenInv, [Next]_vars
  PROVE  RestoredByReaders
<1> SUFFICES ASSUME token' \notin {None, token}
             PROVE  \/ \E p \in Procs : At(p, "exchanged") /\ proc'[p].pc = "saved"
                    \/ token # None /\ token'.grant = token.grant
                    \/ \E p \in Procs : proc[p].stale /\ proc[p].tok = token'
  BY DEF RestoredByReaders
<1>1. ASSUME NEW p \in Procs, exchangeAndSaveToken(p)
      PROVE  At(p, "exchanged") /\ proc'[p].pc = "saved"
  BY <1>1 DEF exchangeAndSaveToken, Put, Idle
<1>2. ASSUME NEW p \in Procs, SaveRefreshed(p) \/ WriteBack(p)
      PROVE  \/ token # None /\ token'.grant = token.grant
             \/ proc[p].stale /\ proc[p].tok = token'
  <2>1. token' = proc[p].tok /\ proc[p].pc \in Holding
    BY <1>2 DEF SaveRefreshed, WriteBack, Put, At, Holding
  <2> QED
    BY <2>1 DEF TokenInv, HeldOrStale, SameGrant
<1>3. ASSUME NEW p \in Procs, Connecting(p)
      PROVE  exchangeAndSaveToken(p) \/ UNCHANGED token
  BY <1>3 DEF Connecting, AuthCallback, AuthExchange, Exchange, queueReaderScanning, SaveReaderConfig, store
<1>4. ASSUME NEW p \in Procs, Reading(p)
      PROVE  SaveRefreshed(p) \/ WriteBack(p) \/ UNCHANGED token
  BY <1>4 DEF Reading, ReaderStatus, AuthStatus, resolveOAuthTokenState, oauthClient, newEmailSearcher,
              NewFromJSONAndStore, NextToken, store
<1>5. ASSUME NEW p \in Procs, Removing(p)
      PROVE  token' \in {None, token}
  BY <1>5 DEF Removing, RevokeToken, DeleteReaderToken, ActiveRevoked, ParkTenant, DisconnectReader,
              DeleteReaderRuntime, ClearActiveScanningReader, Put, store
<1>6. ASSUME \/ UploadCredentials \/ (\E s \in States : AuthStart(s) \/ Lapse(s))
             \/ (\E t \in Token : Expire(t)) \/ (\E p \in Procs : Abort(p)) \/ UNCHANGED vars
      PROVE  UNCHANGED token
  BY <1>6 DEF UploadCredentials, AuthStart, Lapse, Expire, Abort, vars, store
<1> QED
  BY <1>1, <1>2, <1>3, <1>4, <1>5, <1>6 DEF Next

(* Whatever the requests, clients and refreshes, a token comes back only   *)
(* from a client that read it before it was removed or replaced.           *)
THEOREM OnlyReadersRestore == Spec => OnlyReadersBeforeRestore
<1>1. TokenInv /\ [Next]_vars => [RestoredByReaders]_vars
  BY RestoreStep
<1> QED
  BY <1>1, TokenInvariant, PTL DEF Spec, OnlyReadersBeforeRestore, RestoredByReaders

=============================================================================
