------------------------------ MODULE Accounts ------------------------------
(***************************************************************************)
(* Accounts, sessions, access tokens and account set-up.                   *)
(*                                                                         *)
(* The HTTP handlers of handlers_auth.go run concurrently, one goroutine   *)
(* per request, and share nothing but the tables of auth_repository.go.  A *)
(* request q is a record: the statement it is about to run (pc), the       *)
(* credential it presented or is redeeming (cred) and what it has read so  *)
(* far, the principal (user, role).  Each statement, or transaction that   *)
(* holds its rows locked, is one step; everything a request read before    *)
(* may have been changed by other requests in between.                     *)
(***************************************************************************)
EXTENDS FiniteSets

CONSTANTS Ids,        \* primary keys of users, never used twice
          Emails,
          Creds,      \* rows of sessions, access_tokens, account_setup_tokens
          Names,      \* names of access tokens
          Passwords,
          Reqs,       \* slots for concurrent requests
          None

ASSUME NoneAssumption == None \notin Ids \cup Emails \cup Creds \cup Names \cup Passwords

VARIABLES users,      \* the table users: Ids -> row, or None
          spent,      \* ids of deleted users
          creds,      \* the three token tables: Creds -> row, or None
          req         \* Reqs -> the request in the slot

vars == <<users, spent, creds, req>>

Roles == {"admin", "user"}

UserRow == [email: Emails, role: Roles, disabled: BOOLEAN, pw: Passwords \cup {None}]

\* st is "ended" once revoked_at (used_at, for a set-up token) is set.
CredRow == [kind: {"session", "access", "setup"}, user: Ids, name: Names \cup {None},
            st: {"active", "expired", "ended"}]

ASSUME RowAssumption == None \notin UserRow \cup CredRow

Request == [pc: {"idle", "cred", "authed", "password", "mint", "counted", "signin", "redeem"},
            cred: Creds \cup {None}, user: Ids \cup {None}, role: Roles \cup {None}]

Idle == [pc |-> "idle", cred |-> None, user |-> None, role |-> None]

TypeOK ==
  /\ users \in [Ids -> UserRow \cup {None}]
  /\ spent \subseteq Ids
  /\ creds \in [Creds -> CredRow \cup {None}]
  /\ req \in [Reqs -> Request]

Init ==
  /\ users = [i \in Ids |-> None]
  /\ spent = {}
  /\ creds = [c \in Creds |-> None]
  /\ req = [q \in Reqs |-> Idle]

-----------------------------------------------------------------------------
\* Rows

Exists(i) == i \in Ids /\ users[i] # None

\* INSERT INTO users: the id is fresh and the email unique.
insertUser(i, row) ==
  /\ ~Exists(i) /\ i \notin spent
  /\ \A j \in Ids : Exists(j) => users[j].email # row.email
  /\ users' = [users EXCEPT ![i] = row]
  /\ UNCHANGED spent

\* Fault: the row is inserted without the foreign key.
insertUnchecked(c, kind, i, name) ==
  /\ creds[c] = None
  /\ creds' = [creds EXCEPT ![c] = [kind |-> kind, user |-> i, name |-> name, st |-> "active"]]

\* INSERT into a token table: the foreign key asks for the user's row.
insertCred(c, kind, i, name) ==
  /\ creds[c] = None
  /\ Exists(i)
  /\ creds' = [creds EXCEPT ![c] = [kind |-> kind, user |-> i, name |-> name, st |-> "active"]]

Has(c, kind) == creds[c] # None /\ creds[c].kind = kind

Active(c, kind) == Has(c, kind) /\ creds[c].st = "active"

End(c) == creds' = [creds EXCEPT ![c].st = "ended"]

\* A request moves on, or is answered.
Goto(q, pc) == req' = [req EXCEPT ![q].pc = pc]
Answer(q) == req' = [req EXCEPT ![q] = Idle]

\* The handlers check the context of the request at every statement: any request
\* may end between two of them, its open transaction rolled back.
Abort(q) ==
  /\ req[q].pc # "idle"
  /\ Answer(q)
  /\ UNCHANGED <<users, spent, creds>>

-----------------------------------------------------------------------------
\* Authentication

authenticateSession(c) == Active(c, "session")

\* Access tokens are made without an expiry.
authenticateBearer(c) == Active(c, "access")

\* The first read of the middleware finds the session or the token.
authenticateRequest(q, c) ==
  /\ req[q].pc = "idle"
  /\ authenticateSession(c) \/ authenticateBearer(c)
  /\ req' = [req EXCEPT ![q] = [Idle EXCEPT !.pc = "cred", !.cred = c, !.user = creds[c].user]]
  /\ UNCHANGED <<users, spent, creds>>

\* The second read finds its user; principalForUser keeps id and role for the handler.
authenticatedUser(q) ==
  /\ req[q].pc = "cred"
  /\ IF Exists(req[q].user) /\ ~users[req[q].user].disabled
     THEN req' = [req EXCEPT ![q].pc = "authed", ![q].role = users[req[q].user].role]
     ELSE Answer(q)
  /\ UNCHANGED <<users, spent, creds>>

Principal(q) == req[q].pc = "authed"

requireAdmin(q) == Principal(q) /\ req[q].role = "admin"

-----------------------------------------------------------------------------
\* Signing in and out

BootstrapRequired == \A i \in Ids : ~Exists(i)

\* CreateBootstrapAdmin counts the users ...
Bootstrap(q) ==
  /\ req[q].pc = "idle"
  /\ BootstrapRequired
  /\ Goto(q, "counted")
  /\ UNCHANGED <<users, spent, creds>>

\* ... and inserts the administrator, in a transaction that locks nothing.
CreateBootstrapAdmin(q, i, e, p) ==
  /\ req[q].pc = "counted"
  /\ insertUser(i, [email |-> e, role |-> "admin", disabled |-> FALSE, pw |-> p])
  /\ req' = [req EXCEPT ![q].pc = "signin", ![q].user = i]
  /\ UNCHANGED creds

Login(q, i, p) ==
  /\ req[q].pc = "idle"
  /\ Exists(i) /\ users[i].pw = p /\ ~users[i].disabled
  /\ req' = [req EXCEPT ![q].pc = "signin", ![q].user = i]
  /\ UNCHANGED <<users, spent, creds>>

createSessionCookie(q, c) ==
  /\ req[q].pc = "signin"
  /\ insertCred(c, "session", req[q].user, None)
  /\ Answer(q)
  /\ UNCHANGED <<users, spent>>

\* Only a browser session is revoked; a request with a bearer token has no cookie.
Logout(q) ==
  /\ Principal(q)
  /\ IF Has(req[q].cred, "session") THEN End(req[q].cred) ELSE UNCHANGED creds
  /\ Answer(q)
  /\ UNCHANGED <<users, spent>>

-----------------------------------------------------------------------------
\* The user's own account

\* None leaves the column as it is (COALESCE).
UserUpdated(row, role, disabled) ==
  [row EXCEPT !.role = IF role = None THEN @ ELSE role,
              !.disabled = IF disabled = None THEN @ ELSE disabled]

\* The profile form changes neither role nor disabled_at.
UpdateProfile(q) ==
  /\ Principal(q)
  /\ users' = [i \in Ids |-> IF i = req[q].user /\ Exists(i)
                             THEN UserUpdated(users[i], None, None) ELSE users[i]]
  /\ Answer(q)
  /\ UNCHANGED <<spent, creds>>

\* The current password is verified against the row read now ...
UpdatePassword(q, p) ==
  /\ Principal(q)
  /\ Exists(req[q].user) /\ users[req[q].user].pw = p
  /\ Goto(q, "password")
  /\ UNCHANGED <<users, spent, creds>>

\* ... and the new one written later, whatever the row says then.
UpdateUserPassword(q, p) ==
  /\ req[q].pc = "password"
  /\ Exists(req[q].user)
  /\ users' = [users EXCEPT ![req[q].user].pw = p]
  /\ Answer(q)
  /\ UNCHANGED <<spent, creds>>

\* A user's active tokens have different names.
NameTaken(i, n) ==
  \E d \in Creds : Active(d, "access") /\ creds[d].user = i /\ creds[d].name = n

CreateAccessToken(q, c, n) ==
  /\ Principal(q)
  /\ ~NameTaken(req[q].user, n)
  /\ insertCred(c, "access", req[q].user, n)
  /\ Answer(q)
  /\ UNCHANGED <<users, spent>>

Owns(i, c) == Has(c, "access") /\ creds[c].user = i

RevokeAccessToken(q, c) ==
  /\ Principal(q)
  /\ Owns(req[q].user, c)
  /\ End(c)
  /\ Answer(q)
  /\ UNCHANGED <<users, spent>>

-----------------------------------------------------------------------------
\* Administration

CreateUser(q, i, e, r) ==
  /\ requireAdmin(q)
  /\ insertUser(i, [email |-> e, role |-> r, disabled |-> FALSE, pw |-> None])
  /\ Answer(q)
  /\ UNCHANGED creds

\* Fault: only the own role is protected.
SelfRoleKept(q, i, role, disabled) == i = req[q].user => role = None

SelfUpdateAllowed(q, i, role, disabled) ==
  i = req[q].user => role = None /\ disabled # TRUE

UpdateUser(q, i, role, disabled) ==
  /\ requireAdmin(q)
  /\ SelfUpdateAllowed(q, i, role, disabled)
  /\ Exists(i)
  /\ users' = [users EXCEPT ![i] = UserUpdated(@, role, disabled)]
  /\ Answer(q)
  /\ UNCHANGED <<spent, creds>>

\* Fault: the token is read without FOR UPDATE.
Unlocked(c) == FALSE

\* A set-up token being redeemed is locked: the cascade waits for it.
Locked(c) == \E q \in Reqs : req[q].pc = "redeem" /\ req[q].cred = c

deleteCascade(i) ==
  /\ Exists(i)
  /\ \A c \in Creds : creds[c] # None /\ creds[c].user = i => ~Locked(c)
  /\ users' = [users EXCEPT ![i] = None]
  /\ spent' = spent \cup {i}
  /\ creds' = [c \in Creds |-> IF creds[c] # None /\ creds[c].user = i THEN None ELSE creds[c]]

DeleteUser(q, i) ==
  /\ requireAdmin(q)
  /\ i # req[q].user
  /\ deleteCascade(i)
  /\ Answer(q)

Pending(i) == Exists(i) /\ users[i].pw = None

CreateSetupToken(q, i) ==
  /\ requireAdmin(q)
  /\ Pending(i)
  /\ req' = [req EXCEPT ![q].pc = "mint", ![q].user = i]
  /\ UNCHANGED <<users, spent, creds>>

CreateAccountSetupToken(q, c) ==
  /\ req[q].pc = "mint"
  /\ insertCred(c, "setup", req[q].user, None)
  /\ Answer(q)
  /\ UNCHANGED <<users, spent>>

-----------------------------------------------------------------------------
\* Account set-up, on a public route

Redeemable(c) == Active(c, "setup")

\* SELECT ... FOR UPDATE waits for the row, then sees it as it is.
FindActiveSetupToken(q, c) ==
  /\ req[q].pc = "idle"
  /\ ~Locked(c)
  /\ Redeemable(c)
  /\ req' = [req EXCEPT ![q].pc = "redeem", ![q].cred = c, ![q].user = creds[c].user]
  /\ UNCHANGED <<users, spent, creds>>

\* The password is set and the token marked used, in the same transaction.
CompleteAccountSetup(q, p) ==
  /\ req[q].pc = "redeem"
  /\ Exists(req[q].user)
  /\ users' = [users EXCEPT ![req[q].user].pw = p]
  /\ End(req[q].cred)
  /\ Goto(q, "signin")
  /\ UNCHANGED spent

\* Sessions and set-up tokens have an expiry time.
Expire(c) ==
  /\ Active(c, "session") \/ Active(c, "setup")
  /\ creds' = [creds EXCEPT ![c].st = "expired"]
  /\ UNCHANGED <<users, spent, req>>

-----------------------------------------------------------------------------
Own(q) ==
  \/ Logout(q) \/ UpdateProfile(q)
  \/ \E p \in Passwords : UpdatePassword(q, p) \/ UpdateUserPassword(q, p)
  \/ \E c \in Creds, n \in Names : CreateAccessToken(q, c, n)
  \/ \E c \in Creds : RevokeAccessToken(q, c)

Admin(q) ==
  \/ \E i \in Ids, e \in Emails, r \in Roles : CreateUser(q, i, e, r)
  \/ \E i \in Ids, r \in Roles \cup {None}, d \in {TRUE, FALSE, None} : UpdateUser(q, i, r, d)
  \/ \E i \in Ids : DeleteUser(q, i) \/ CreateSetupToken(q, i)
  \/ \E c \in Creds : CreateAccountSetupToken(q, c)

Public(q) ==
  \/ Bootstrap(q)
  \/ \E i \in Ids, e \in Emails, p \in Passwords : CreateBootstrapAdmin(q, i, e, p)
  \/ \E i \in Ids, p \in Passwords : Login(q, i, p)
  \/ \E c \in Creds : createSessionCookie(q, c) \/ FindActiveSetupToken(q, c)
  \/ \E p \in Passwords : CompleteAccountSetup(q, p)

Next ==
  \/ \E q \in Reqs : \/ \E c \in Creds : authenticateRequest(q, c)
                     \/ authenticatedUser(q)
                     \/ Own(q) \/ Admin(q) \/ Public(q) \/ Abort(q)
  \/ \E c \in Creds : Expire(c)

Spec == Init /\ [][Next]_vars

-----------------------------------------------------------------------------
Administrators == {i \in Ids : Exists(i) /\ users[i].role = "admin" /\ ~users[i].disabled}

\* An instance loses its last enabled administrator only through a request whose
\* own administrator had been demoted, disabled or deleted after it was
\* authenticated.  The checks against one's own id in UpdateUser and DeleteUser
\* are all that keeps an administrator: bootstrap asks for an empty table.
OnlyStaleRequestsStrand ==
  [][Administrators # {} /\ Administrators' = {}
       => \E q \in Reqs : requireAdmin(q) /\ req'[q] = Idle /\ req[q].user \notin Administrators]_vars

\* Two requests with the same set-up token never both set the password: the
\* token is still unused when the transaction that redeems it commits.
SetupTokenUsedOnce ==
  [][\A q \in Reqs : req[q].pc = "redeem" /\ req'[q].pc = "signin"
       => Has(req[q].cred, "setup") /\ creds[req[q].cred].st # "ended"]_vars

\* No session, access token or set-up token outlives its user, whichever
\* requests of that user were under way when the account was deleted.
CredentialsHaveUsers ==
  \A c \in Creds : creds[c] # None => Exists(creds[c].user)

=============================================================================
