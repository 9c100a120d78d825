---------------------------- MODULE AccountsProofs ----------------------------
(***************************************************************************)
(* Theorems about accounts, for any sets of users, credentials and         *)
(* concurrent requests.                                                    *)
(***************************************************************************)
EXTENDS Accounts, TLAPS

(* A set-up token that is being redeemed is there and unused, and no other *)
(* request redeems it: deleting its user, or using it up, waits.           *)
RedeemedAreUnused ==
  \A q \in Reqs : req[q].pc = "redeem" =>
    Has(req[q].cred, "setup") /\ creds[req[q].cred].st # "ended"
RedeemedOnce ==
  \A q, r \in Reqs : req[q].pc = "redeem" /\ req[r].pc = "redeem" /\ req[q].cred = req[r].cred
                       => q = r
\* The credential a request holds is one: only an idle slot has none.
HoldsCred == \A q \in Reqs : req[q].pc \in {"cred", "authed", "redeem"} => req[q].cred \in Creds

AccountsInv ==
  TypeOK /\ HoldsCred /\ CredentialsHaveUsers /\ RedeemedAreUnused /\ RedeemedOnce

-----------------------------------------------------------------------------
(* Rows *)

LEMMA InsertUserType ==
  ASSUME TypeOK, NEW i \in Ids, NEW row \in UserRow, insertUser(i, row)
  PROVE  users' \in [Ids -> UserRow \cup {None}] /\ spent' \subseteq Ids
BY DEF TypeOK, insertUser

LEMMA InsertCredType ==
  ASSUME TypeOK, NEW c \in Creds, NEW kind \in {"session", "access", "setup"}, NEW i,
         NEW n \in Names \cup {None}, insertCred(c, kind, i, n)
  PROVE  creds' \in [Creds -> CredRow \cup {None}]
<1>1. i \in Ids
  BY DEF insertCred, Exists
<1>2. [kind |-> kind, user |-> i, name |-> n, st |-> "active"] \in CredRow
  BY <1>1 DEF CredRow
<1> QED
  BY <1>2 DEF TypeOK, insertCred

LEMMA EndType ==
  ASSUME TypeOK, NEW c \in Creds, creds[c] # None, End(c)
  PROVE  creds' \in [Creds -> CredRow \cup {None}]
<1>1. creds[c] \in CredRow
  BY DEF TypeOK
<1>2. [creds[c] EXCEPT !.st = "ended"] \in CredRow
  BY <1>1 DEF CredRow
<1> QED
  BY <1>2 DEF TypeOK, End

LEMMA AnswerType ==
  ASSUME TypeOK, NEW q \in Reqs, Answer(q)
  PROVE  req' \in [Reqs -> Request]
BY DEF TypeOK, Answer, Idle, Request

LEMMA GotoType ==
  ASSUME TypeOK, NEW q \in Reqs,
         NEW pc \in {"cred", "authed", "password", "mint", "counted", "signin", "redeem"}, Goto(q, pc)
  PROVE  req' \in [Reqs -> Request]
BY DEF TypeOK, Goto, Request

LEMMA UserUpdatedType ==
  ASSUME NEW row \in UserRow, NEW role \in Roles \cup {None}, NEW d \in {TRUE, FALSE, None}
  PROVE  UserUpdated(row, role, d) \in UserRow
BY DEF UserUpdated, UserRow

LEMMA UserRowType ==
  ASSUME TypeOK, NEW i \in Ids, Exists(i)
  PROVE  users[i] \in UserRow
BY DEF TypeOK, Exists

LEMMA ChangeUserType ==
  ASSUME TypeOK, NEW i \in Ids, NEW row \in UserRow, users' = [users EXCEPT ![i] = row]
  PROVE  /\ users' \in [Ids -> UserRow \cup {None}]
         /\ \A j \in Ids : j # i => users'[j] = users[j]
BY DEF TypeOK

LEMMA PasswordType ==
  ASSUME TypeOK, NEW i \in Ids, Exists(i), NEW p \in Passwords, users' = [users EXCEPT ![i].pw = p]
  PROVE  /\ users' \in [Ids -> UserRow \cup {None}]
         /\ \A j \in Ids : Exists(j) => users'[j] # None
<1>1. [users[i] EXCEPT !.pw = p] \in UserRow
  BY UserRowType DEF UserRow
<1> QED
  BY <1>1, RowAssumption DEF TypeOK, Exists

LEMMA CascadeType ==
  ASSUME TypeOK, NEW i \in Ids, deleteCascade(i)
  PROVE  /\ users' \in [Ids -> UserRow \cup {None}] /\ spent' \subseteq Ids
         /\ creds' \in [Creds -> CredRow \cup {None}]
BY DEF TypeOK, deleteCascade

-----------------------------------------------------------------------------
(* What the steps of requests leave of the invariant.                      *)

LEMMA ReqUpdated ==
  ASSUME TypeOK, NEW q \in Reqs, NEW r, req' = [req EXCEPT ![q] = r]
  PROVE  /\ req'[q] = r
         /\ \A s \in Reqs : s # q => req'[s] = req[s]
BY DEF TypeOK

\* A request goes on, not to redeem a token; tokens being redeemed stay.
LEMMA RequestMoves ==
  ASSUME AccountsInv, NEW q \in Reqs, NEW r \in Request, req' = [req EXCEPT ![q] = r],
         r.pc # "redeem", r.pc \in {"cred", "authed"} => r.cred \in Creds,
         \A c \in Creds, s \in Reqs : s # q /\ req[s].pc = "redeem" /\ req[s].cred = c
                                        => creds'[c] = creds[c]
  PROVE  HoldsCred' /\ RedeemedAreUnused' /\ RedeemedOnce'
<1>1. /\ req'[q] = r
      /\ \A s \in Reqs : s # q => req'[s] = req[s]
  BY ReqUpdated DEF AccountsInv
<1>2. HoldsCred'
  BY <1>1 DEF AccountsInv, HoldsCred
<1>3. RedeemedAreUnused'
  BY <1>1 DEF AccountsInv, HoldsCred, RedeemedAreUnused, Has
<1>4. RedeemedOnce'
  BY <1>1 DEF AccountsInv, RedeemedOnce
<1> QED
  BY <1>2, <1>3, <1>4

LEMMA AnswerMoves ==
  ASSUME AccountsInv, NEW q \in Reqs, Answer(q),
         \A c \in Creds, s \in Reqs : s # q /\ req[s].pc = "redeem" /\ req[s].cred = c
                                        => creds'[c] = creds[c]
  PROVE  HoldsCred' /\ RedeemedAreUnused' /\ RedeemedOnce'
<1>1. Idle \in Request /\ Idle.pc = "idle"
  BY DEF Idle, Request
<1>2. req' = [req EXCEPT ![q] = Idle]
  BY DEF Answer
<1> QED
  BY <1>1, <1>2, RequestMoves

LEMMA GotoMoves ==
  ASSUME AccountsInv, NEW q \in Reqs, NEW pc \in {"password", "counted", "mint", "signin"}, Goto(q, pc),
         \A c \in Creds, s \in Reqs : s # q /\ req[s].pc = "redeem" /\ req[s].cred = c
                                        => creds'[c] = creds[c]
  PROVE  HoldsCred' /\ RedeemedAreUnused' /\ RedeemedOnce'
<1>1. req[q] \in Request
  BY DEF AccountsInv, TypeOK
<1> DEFINE r == [req[q] EXCEPT !.pc = pc]
<1>2. r \in Request /\ r.pc = pc
  BY <1>1 DEF Request
<1>3. req' = [req EXCEPT ![q] = r]
  BY DEF Goto
<1> HIDE DEF r
<1> QED
  BY <1>2, <1>3, RequestMoves

LEMMA UsersStay ==
  ASSUME CredentialsHaveUsers, \A i \in Ids : Exists(i) => users'[i] # None, UNCHANGED creds
  PROVE  CredentialsHaveUsers'
BY DEF CredentialsHaveUsers, Exists

LEMMA InsertCredKeeps ==
  ASSUME AccountsInv, NEW c \in Creds, NEW kind, NEW i, NEW n, insertCred(c, kind, i, n),
         UNCHANGED users
  PROVE  /\ CredentialsHaveUsers'
         /\ \A d \in Creds, s \in Reqs : req[s].pc = "redeem" /\ req[s].cred = d
                                           => creds'[d] = creds[d]
<1>1. \A d \in Creds : d # c => creds'[d] = creds[d]
  BY DEF insertCred, AccountsInv, TypeOK
<1>2. creds'[c].user = i
  BY DEF insertCred, AccountsInv, TypeOK
<1>3. CredentialsHaveUsers'
  BY <1>1, <1>2 DEF AccountsInv, CredentialsHaveUsers, Exists, insertCred
<1>4. \A s \in Reqs : req[s].pc = "redeem" => req[s].cred # c
  BY DEF AccountsInv, RedeemedAreUnused, Has, insertCred
<1> QED
  BY <1>1, <1>3, <1>4

\* Ending a credential of another kind, or that only q redeems.
LEMMA EndKeeps ==
  ASSUME AccountsInv, NEW q \in Reqs, NEW c \in Creds, creds[c] # None, End(c),
         UNCHANGED users \/ (\A i \in Ids : Exists(i) => users'[i] # None),
         ~Has(c, "setup") \/ (req[q].pc = "redeem" /\ req[q].cred = c)
  PROVE  /\ CredentialsHaveUsers'
         /\ \A d \in Creds, s \in Reqs : s # q /\ req[s].pc = "redeem" /\ req[s].cred = d
                                           => creds'[d] = creds[d]
<1>1. \A d \in Creds : d # c => creds'[d] = creds[d]
  BY DEF End, AccountsInv, TypeOK
<1>2. creds'[c].user = creds[c].user
  <2>1. creds[c] \in CredRow
    BY DEF AccountsInv, TypeOK
  <2> QED
    BY <2>1 DEF End, AccountsInv, TypeOK, CredRow
<1>3. CredentialsHaveUsers'
  BY <1>1, <1>2 DEF AccountsInv, CredentialsHaveUsers, Exists
<1>4. \A s \in Reqs : s # q /\ req[s].pc = "redeem" => req[s].cred # c
  BY DEF AccountsInv, RedeemedAreUnused, RedeemedOnce
<1> QED
  BY <1>1, <1>3, <1>4

LEMMA CascadeKeeps ==
  ASSUME AccountsInv, NEW i \in Ids, deleteCascade(i)
  PROVE  /\ CredentialsHaveUsers'
         /\ \A d \in Creds, s \in Reqs : req[s].pc = "redeem" /\ req[s].cred = d
                                           => creds'[d] = creds[d]
<1>1. CredentialsHaveUsers'
  BY DEF AccountsInv, TypeOK, CredentialsHaveUsers, Exists, deleteCascade
<1> QED
  BY <1>1 DEF AccountsInv, RedeemedAreUnused, Has, deleteCascade, Locked

-----------------------------------------------------------------------------
(* The invariant is inductive. *)

LEMMA AccountsInit == Init => AccountsInv
BY NoneAssumption DEF Init, AccountsInv, TypeOK, Idle, Request, HoldsCred, CredentialsHaveUsers,
     RedeemedAreUnused, RedeemedOnce

LEMMA AuthenticationStep ==
  ASSUME AccountsInv, NEW q \in Reqs,
         (\E c \in Creds : authenticateRequest(q, c)) \/ authenticatedUser(q)
  PROVE  AccountsInv'
<1> USE DEF AccountsInv
<1>1. ASSUME NEW c \in Creds, authenticateRequest(q, c)
      PROVE  AccountsInv'
  <2> DEFINE r == [Idle EXCEPT !.pc = "cred", !.cred = c, !.user = creds[c].user]
  <2>1. creds[c] \in CredRow
    BY <1>1 DEF authenticateRequest, authenticateSession, authenticateBearer, Active, Has, TypeOK
  <2>2. r \in Request /\ r.pc = "cred" /\ r.cred \in Creds
    BY <2>1 DEF Idle, Request, CredRow
  <2>3. req' = [req EXCEPT ![q] = r] /\ UNCHANGED <<users, spent, creds>>
    BY <1>1 DEF authenticateRequest
  <2> HIDE DEF r
  <2>4. TypeOK'
    BY <2>2, <2>3 DEF TypeOK
  <2>5. CredentialsHaveUsers'
    BY <2>3, UsersStay DEF Exists
  <2> QED
    BY <2>2, <2>3, <2>4, <2>5, RequestMoves
<1>2. ASSUME authenticatedUser(q)
      PROVE  AccountsInv'
  <2> DEFINE r == [req[q] EXCEPT !.pc = "authed", !.role = users[req[q].user].role]
  <2>1. CASE Exists(req[q].user) /\ ~users[req[q].user].disabled
    <3>1. req[q] \in Request /\ users[req[q].user] \in UserRow
      BY <2>1, UserRowType DEF TypeOK, Exists
    <3>2. r \in Request /\ r.pc = "authed" /\ r.cred \in Creds
      BY <1>2, <3>1 DEF Request, UserRow, HoldsCred, authenticatedUser
    <3>3. req' = [req EXCEPT ![q] = r] /\ UNCHANGED <<users, spent, creds>>
      BY <1>2, <2>1 DEF authenticatedUser
    <3> HIDE DEF r
    <3>4. TypeOK'
      BY <3>2, <3>3 DEF TypeOK
    <3>5. CredentialsHaveUsers'
      BY <3>3, UsersStay DEF Exists
    <3> QED
      BY <3>2, <3>3, <3>4, <3>5, RequestMoves
  <2>2. CASE ~(Exists(req[q].user) /\ ~users[req[q].user].disabled)
    <3>1. Answer(q) /\ UNCHANGED <<users, spent, creds>>
      BY <1>2, <2>2 DEF authenticatedUser
    <3>2. TypeOK'
      BY <3>1, AnswerType DEF TypeOK
    <3> QED
      BY <3>1, <3>2, UsersStay, AnswerMoves DEF Exists
  <2> QED
    BY <2>1, <2>2
<1> QED
  BY <1>1, <1>2

\* A step that only answers, or goes on, and leaves the tables.
LEMMA TablesStay ==
  ASSUME AccountsInv, NEW q \in Reqs, UNCHANGED <<users, spent, creds>>,
         Answer(q) \/ (\E pc \in {"password", "counted"} : Goto(q, pc))
  PROVE  AccountsInv'
<1> USE DEF AccountsInv
<1>1. TypeOK'
  BY AnswerType, GotoType DEF TypeOK
<1>2. CredentialsHaveUsers'
  BY UsersStay DEF Exists
<1> QED
  BY <1>1, <1>2, AnswerMoves, GotoMoves

\* A step that changes or inserts a user and answers.
LEMMA UserWritten ==
  ASSUME AccountsInv, NEW q \in Reqs, Answer(q), UNCHANGED creds, spent' \subseteq Ids,
         users' \in [Ids -> UserRow \cup {None}], \A i \in Ids : Exists(i) => users'[i] # None
  PROVE  AccountsInv'
<1> USE DEF AccountsInv
<1>1. TypeOK'
  BY AnswerType DEF TypeOK
<1>2. CredentialsHaveUsers'
  BY UsersStay
<1> QED
  BY <1>1, <1>2, AnswerMoves

LEMMA OwnStep ==
  ASSUME AccountsInv, NEW q \in Reqs, Own(q)
  PROVE  AccountsInv'
<1> USE DEF AccountsInv
<1>1. CASE Logout(q)
  <2>1. req[q].cred \in Creds
    BY <1>1 DEF Logout, Principal, HoldsCred
  <2>2. CASE Has(req[q].cred, "session")
    <3>1. End(req[q].cred) /\ creds[req[q].cred] # None /\ ~Has(req[q].cred, "setup")
      BY <1>1, <2>2 DEF Logout, Has
    <3>2. TypeOK'
      BY <1>1, <2>1, <3>1, AnswerType, EndType DEF Logout, TypeOK
    <3> QED
      BY <1>1, <2>1, <3>1, <3>2, EndKeeps, AnswerMoves DEF Logout
  <2>3. CASE ~Has(req[q].cred, "session")
    BY <1>1, <2>3, TablesStay DEF Logout
  <2> QED
    BY <2>2, <2>3
<1>2. CASE UpdateProfile(q)
  <2>1. \A i \in Ids : Exists(i) => UserUpdated(users[i], None, None) \in UserRow
    BY UserRowType, UserUpdatedType
  <2>2. users' \in [Ids -> UserRow \cup {None}] /\ \A i \in Ids : Exists(i) => users'[i] \in UserRow
    BY <1>2, <2>1, UserRowType DEF UpdateProfile, TypeOK
  <2>3. \A i \in Ids : Exists(i) => users'[i] # None
    BY <2>2, RowAssumption
  <2> QED
    BY <1>2, <2>2, <2>3, UserWritten DEF UpdateProfile, TypeOK
<1>3. ASSUME NEW p \in Passwords, UpdatePassword(q, p)
      PROVE  AccountsInv'
  BY <1>3, TablesStay DEF UpdatePassword
<1>4. ASSUME NEW p \in Passwords, UpdateUserPassword(q, p)
      PROVE  AccountsInv'
  <2> DEFINE i == req[q].user
  <2>1. i \in Ids /\ Exists(i) /\ users' = [users EXCEPT ![i].pw = p]
    BY <1>4 DEF UpdateUserPassword, Exists
  <2> QED
    BY <1>4, <2>1, PasswordType, UserWritten DEF UpdateUserPassword, TypeOK
<1>5. ASSUME NEW c \in Creds, NEW n \in Names, CreateAccessToken(q, c, n)
      PROVE  AccountsInv'
  <2>1. TypeOK'
    BY <1>5, InsertCredType, AnswerType DEF CreateAccessToken, TypeOK
  <2> QED
    BY <1>5, <2>1, InsertCredKeeps, AnswerMoves DEF CreateAccessToken
<1>6. ASSUME NEW c \in Creds, RevokeAccessToken(q, c)
      PROVE  AccountsInv'
  <2>1. End(c) /\ creds[c] # None /\ ~Has(c, "setup")
    BY <1>6 DEF RevokeAccessToken, Owns, Has
  <2>2. TypeOK'
    BY <1>6, <2>1, EndType, AnswerType DEF RevokeAccessToken, TypeOK
  <2> QED
    BY <1>6, <2>1, <2>2, EndKeeps, AnswerMoves DEF RevokeAccessToken
<1> QED
  BY <1>1, <1>2, <1>3, <1>4, <1>5, <1>6 DEF Own

\* A user inserted, and the request goes on or is answered.
LEMMA InsertUserKeeps ==
  ASSUME AccountsInv, NEW i \in Ids, NEW row \in UserRow, insertUser(i, row), UNCHANGED creds
  PROVE  CredentialsHaveUsers' /\ \A j \in Ids : Exists(j) => users'[j] # None
<1>1. \A j \in Ids : Exists(j) => users'[j] # None
  BY RowAssumption DEF AccountsInv, TypeOK, insertUser, Exists
<1> QED
  BY <1>1, UsersStay DEF AccountsInv

LEMMA AdminStep ==
  ASSUME AccountsInv, NEW q \in Reqs, Admin(q)
  PROVE  AccountsInv'
<1> USE DEF AccountsInv
<1>1. ASSUME NEW i \in Ids, NEW e \in Emails, NEW r \in Roles, CreateUser(q, i, e, r)
      PROVE  AccountsInv'
  <2> DEFINE row == [email |-> e, role |-> r, disabled |-> FALSE, pw |-> None]
  <2>1. row \in UserRow
    BY DEF UserRow
  <2>2. insertUser(i, row) /\ Answer(q) /\ UNCHANGED creds
    BY <1>1 DEF CreateUser
  <2> HIDE DEF row
  <2> QED
    BY <2>1, <2>2, InsertUserType, InsertUserKeeps, UserWritten
<1>2. ASSUME NEW i \in Ids, NEW r \in Roles \cup {None}, NEW d \in {TRUE, FALSE, None},
             UpdateUser(q, i, r, d)
      PROVE  AccountsInv'
  <2> DEFINE row == UserUpdated(users[i], r, d)
  <2>1. row \in UserRow
    BY <1>2, UserRowType, UserUpdatedType DEF UpdateUser
  <2>2. users' = [users EXCEPT ![i] = row]
    BY <1>2 DEF UpdateUser
  <2> HIDE DEF row
  <2>3. users' \in [Ids -> UserRow \cup {None}] /\ \A j \in Ids : Exists(j) => users'[j] # None
    BY <2>1, <2>2, RowAssumption DEF TypeOK, Exists
  <2> QED
    BY <1>2, <2>3, UserWritten DEF UpdateUser, TypeOK
<1>3. ASSUME NEW i \in Ids, DeleteUser(q, i)
      PROVE  AccountsInv'
  <2>1. deleteCascade(i) /\ Answer(q)
    BY <1>3 DEF DeleteUser
  <2>2. TypeOK'
    BY <2>1, CascadeType, AnswerType DEF TypeOK
  <2> QED
    BY <2>1, <2>2, CascadeKeeps, AnswerMoves
<1>4. ASSUME NEW i \in Ids, CreateSetupToken(q, i)
      PROVE  AccountsInv'
  <2> DEFINE r == [req[q] EXCEPT !.pc = "mint", !.user = i]
  <2>1. r \in Request /\ r.pc = "mint"
    BY DEF TypeOK, Request
  <2>2. req' = [req EXCEPT ![q] = r] /\ UNCHANGED <<users, spent, creds>>
    BY <1>4 DEF CreateSetupToken
  <2> HIDE DEF r
  <2>3. TypeOK'
    BY <2>1, <2>2 DEF TypeOK
  <2> QED
    BY <2>1, <2>2, <2>3, UsersStay, RequestMoves DEF Exists
<1>5. ASSUME NEW c \in Creds, CreateAccountSetupToken(q, c)
      PROVE  AccountsInv'
  <2>1. TypeOK'
    BY <1>5, InsertCredType, AnswerType DEF CreateAccountSetupToken, TypeOK
  <2> QED
    BY <1>5, <2>1, InsertCredKeeps, AnswerMoves DEF CreateAccountSetupToken
<1> QED
  BY <1>1, <1>2, <1>3, <1>4, <1>5 DEF Admin

LEMMA PublicStep ==
  ASSUME AccountsInv, NEW q \in Reqs, Public(q)
  PROVE  AccountsInv'
<1> USE DEF AccountsInv
<1>1. CASE Bootstrap(q)
  BY <1>1, TablesStay DEF Bootstrap
<1>2. ASSUME NEW i \in Ids, NEW e \in Emails, NEW p \in Passwords, CreateBootstrapAdmin(q, i, e, p)
      PROVE  AccountsInv'
  <2> DEFINE row == [email |-> e, role |-> "admin", disabled |-> FALSE, pw |-> p]
             r == [req[q] EXCEPT !.pc = "signin", !.user = i]
  <2>1. row \in UserRow
    BY DEF UserRow, Roles
  <2>2. r \in Request /\ r.pc = "signin"
    BY DEF TypeOK, Request
  <2>3. insertUser(i, row) /\ req' = [req EXCEPT ![q] = r] /\ UNCHANGED creds
    BY <1>2 DEF CreateBootstrapAdmin
  <2> HIDE DEF row, r
  <2>4. TypeOK'
    BY <2>1, <2>2, <2>3, InsertUserType DEF TypeOK
  <2> QED
    BY <2>1, <2>2, <2>3, <2>4, InsertUserKeeps, RequestMoves
<1>3. ASSUME NEW i \in Ids, NEW p \in Passwords, Login(q, i, p)
      PROVE  AccountsInv'
  <2> DEFINE r == [req[q] EXCEPT !.pc = "signin", !.user = i]
  <2>1. r \in Request /\ r.pc = "signin"
    BY DEF TypeOK, Request
  <2>2. req' = [req EXCEPT ![q] = r] /\ UNCHANGED <<users, spent, creds>>
    BY <1>3 DEF Login
  <2> HIDE DEF r
  <2>3. TypeOK'
    BY <2>1, <2>2 DEF TypeOK
  <2> QED
    BY <2>1, <2>2, <2>3, UsersStay, RequestMoves DEF Exists
<1>4. ASSUME NEW c \in Creds, createSessionCookie(q, c)
      PROVE  AccountsInv'
  <2>1. TypeOK'
    BY <1>4, InsertCredType, AnswerType DEF createSessionCookie, TypeOK
  <2> QED
    BY <1>4, <2>1, InsertCredKeeps, AnswerMoves DEF createSessionCookie
<1>5. ASSUME NEW c \in Creds, FindActiveSetupToken(q, c)
      PROVE  AccountsInv'
  <2> DEFINE r == [req[q] EXCEPT !.pc = "redeem", !.cred = c, !.user = creds[c].user]
  <2>1. Has(c, "setup") /\ creds[c].st # "ended" /\ ~Locked(c)
    BY <1>5 DEF FindActiveSetupToken, Redeemable, Active
  <2>2. creds[c] \in CredRow
    BY <2>1 DEF Has, TypeOK
  <2>3. r \in Request /\ r.pc = "redeem" /\ r.cred = c
    BY <2>2 DEF TypeOK, Request, CredRow
  <2>4. req' = [req EXCEPT ![q] = r] /\ UNCHANGED <<users, spent, creds>>
    BY <1>5 DEF FindActiveSetupToken
  <2> HIDE DEF r
  <2>5. TypeOK'
    BY <2>3, <2>4 DEF TypeOK
  <2>6. req'[q] = r /\ \A s \in Reqs : s # q => req'[s] = req[s]
    BY <2>4 DEF TypeOK
  <2>7. HoldsCred'
    BY <2>3, <2>6 DEF HoldsCred
  <2>8. RedeemedAreUnused'
    BY <2>1, <2>3, <2>4, <2>6 DEF RedeemedAreUnused, Has
  <2>9. RedeemedOnce'
    BY <2>1, <2>3, <2>6 DEF RedeemedOnce, Locked
  <2> QED
    BY <2>4, <2>5, <2>7, <2>8, <2>9, UsersStay DEF Exists
<1>6. ASSUME NEW p \in Passwords, CompleteAccountSetup(q, p)
      PROVE  AccountsInv'
  <2> DEFINE i == req[q].user
             c == req[q].cred
  <2>1. req[q].pc = "redeem" /\ c \in Creds /\ creds[c] # None /\ End(c) /\ Goto(q, "signin")
    BY <1>6 DEF CompleteAccountSetup, HoldsCred, RedeemedAreUnused, Has
  <2>2. i \in Ids /\ Exists(i) /\ users' = [users EXCEPT ![i].pw = p] /\ spent' = spent
    BY <1>6 DEF CompleteAccountSetup, Exists
  <2>3. /\ users' \in [Ids -> UserRow \cup {None}]
        /\ \A j \in Ids : Exists(j) => users'[j] # None
    BY <2>2, PasswordType
  <2>4. TypeOK'
    BY <2>1, <2>2, <2>3, EndType, GotoType DEF TypeOK
  <2> QED
    BY <2>1, <2>3, <2>4, EndKeeps, GotoMoves
<1> QED
  BY <1>1, <1>2, <1>3, <1>4, <1>5, <1>6 DEF Public

LEMMA ExpireStep ==
  ASSUME AccountsInv, NEW c \in Creds, Expire(c)
  PROVE  AccountsInv'
<1> USE DEF AccountsInv
<1>1. creds[c] \in CredRow /\ creds[c] # None
  BY DEF Expire, Active, Has, TypeOK
<1> DEFINE row == [creds[c] EXCEPT !.st = "expired"]
<1>2. row \in CredRow /\ row.user = creds[c].user /\ row.kind = creds[c].kind /\ row.st = "expired"
  BY <1>1 DEF CredRow
<1>3. creds' = [creds EXCEPT ![c] = row] /\ UNCHANGED <<users, spent, req>>
  BY DEF Expire
<1> HIDE DEF row
<1>4. TypeOK'
  BY <1>2, <1>3 DEF TypeOK
<1>5. CredentialsHaveUsers'
  BY <1>1, <1>2, <1>3 DEF TypeOK, CredentialsHaveUsers, Exists
<1>6. creds'[c] # None
  BY <1>2, <1>3, RowAssumption DEF TypeOK
<1>7. RedeemedAreUnused'
  BY <1>2, <1>3, <1>6 DEF TypeOK, RedeemedAreUnused, Has
<1> QED
  BY <1>3, <1>4, <1>5, <1>7 DEF HoldsCred, RedeemedOnce

LEMMA AccountsStep ==
  ASSUME AccountsInv, [Next]_vars
  PROVE  AccountsInv'
<1>1. ASSUME NEW q \in Reqs, Abort(q)
      PROVE  AccountsInv'
  BY <1>1, TablesStay DEF Abort
<1>2. CASE UNCHANGED vars
  BY <1>2 DEF vars, AccountsInv, TypeOK, HoldsCred, CredentialsHaveUsers, RedeemedAreUnused,
              RedeemedOnce, Exists, Has
<1> QED
  BY <1>1, <1>2, AuthenticationStep, OwnStep, AdminStep, PublicStep, ExpireStep DEF Next

LEMMA AccountsInvariant == Spec => []AccountsInv
<1> QED
  BY AccountsInit, AccountsStep, PTL DEF Spec

-----------------------------------------------------------------------------
(* The tables of accounts and the requests keep their types. *)
THEOREM AccountsTypes == Spec => []TypeOK
<1>1. AccountsInv => TypeOK
  BY DEF AccountsInv
<1> QED
  BY <1>1, AccountsInvariant, PTL

(* No credential outlives its user: the cascade of DeleteUser and the      *)
(* foreign keys leave none, however the requests of that user interleave.  *)
THEOREM NoCredentialIsOrphaned == Spec => []CredentialsHaveUsers
<1>1. AccountsInv => CredentialsHaveUsers
  BY DEF AccountsInv
<1> QED
  BY <1>1, AccountsInvariant, PTL

(* The row lock of CompleteAccountSetup lets one request use a token up.   *)
THEOREM SetupTokenIsUsedOnce == Spec => SetupTokenUsedOnce
<1>1. AccountsInv /\ [Next]_vars => [\A q \in Reqs : req[q].pc = "redeem" /\ req'[q].pc = "signin"
         => Has(req[q].cred, "setup") /\ creds[req[q].cred].st # "ended"]_vars
  BY DEF AccountsInv, RedeemedAreUnused
<1> QED
  BY <1>1, AccountsInvariant, PTL DEF Spec, SetupTokenUsedOnce

-----------------------------------------------------------------------------
(* Administrators *)

LEMMA AdministratorsKept ==
  ASSUME Administrators # {},
         \A i \in Administrators : /\ users'[i] # None
                                   /\ users'[i].role = users[i].role
                                   /\ users'[i].disabled = users[i].disabled
  PROVE  Administrators' # {}
BY DEF Administrators, Exists

LEMMA AdministratorKept ==
  ASSUME NEW i \in Administrators,
         users'[i] # None, users'[i].role = users[i].role, users'[i].disabled = users[i].disabled
  PROVE  Administrators' # {}
BY DEF Administrators, Exists

LEMMA InsertKeepsAdministrators ==
  ASSUME TypeOK, Administrators # {}, NEW i \in Ids, NEW row, insertUser(i, row)
  PROVE  Administrators' # {}
<1>1. \A j \in Administrators : users'[j] = users[j] /\ users[j] # None
  BY DEF TypeOK, insertUser, Administrators, Exists
<1> QED
  BY <1>1, AdministratorsKept

LEMMA PasswordKeepsAdministrators ==
  ASSUME TypeOK, Administrators # {}, NEW i \in Ids, Exists(i), NEW p \in Passwords,
         users' = [users EXCEPT ![i].pw = p]
  PROVE  Administrators' # {}
<1>1. \A j \in Ids : Exists(j) => users'[j] # None
  BY PasswordType
<1>2. users'[i].role = users[i].role /\ users'[i].disabled = users[i].disabled
  BY UserRowType DEF TypeOK, UserRow
<1>3. \A j \in Ids : j # i => users'[j] = users[j]
  BY DEF TypeOK
<1> QED
  BY <1>1, <1>2, <1>3, AdministratorsKept DEF Administrators

\* An administrator who is one still cannot remove the last one.
LEMMA UpdateKeepsAdministrators ==
  ASSUME TypeOK, NEW q \in Reqs, req[q].user \in Administrators, NEW i \in Ids,
         NEW r \in Roles \cup {None}, NEW d \in {TRUE, FALSE, None}, UpdateUser(q, i, r, d)
  PROVE  Administrators' # {}
<1> DEFINE u == req[q].user
           row == UserUpdated(users[i], r, d)
<1>1. u \in Ids /\ users[u] \in UserRow /\ users[u] # None /\ users[u].disabled = FALSE
  BY UserRowType DEF Administrators, Exists, UserRow
<1>2. users' = [users EXCEPT ![i] = row]
  BY DEF UpdateUser
<1>3. CASE i # u
  <2>1. users'[u] = users[u]
    BY <1>1, <1>2, <1>3 DEF TypeOK
  <2> QED
    BY <1>1, <2>1, AdministratorKept
<1>4. CASE i = u
  <2>1. r = None /\ d # TRUE
    BY <1>4 DEF UpdateUser, SelfUpdateAllowed
  <2>2. row.role = users[u].role /\ row.disabled = FALSE /\ row \in UserRow
    BY <1>1, <1>4, <2>1, UserUpdatedType DEF UserUpdated, UserRow
  <2> HIDE DEF row
  <2>3. users'[u] = row
    BY <1>1, <1>2, <1>4 DEF TypeOK
  <2> QED
    BY <1>1, <2>2, <2>3, RowAssumption, AdministratorKept
<1> QED
  BY <1>3, <1>4

LEMMA DeleteKeepsAdministrators ==
  ASSUME TypeOK, NEW q \in Reqs, req[q].user \in Administrators, NEW i \in Ids, DeleteUser(q, i)
  PROVE  Administrators' # {}
<1>1. users'[req[q].user] = users[req[q].user] /\ users[req[q].user] # None
  BY DEF DeleteUser, deleteCascade, TypeOK, Administrators, Exists
<1> QED
  BY <1>1, AdministratorKept

StaleStrand ==
  Administrators # {} /\ Administrators' = {}
    => \E q \in Reqs : requireAdmin(q) /\ req'[q] = Idle /\ req[q].user \notin Administrators

LEMMA StrandStep ==
  ASSUME AccountsInv, [Next]_vars
  PROVE  StaleStrand
<1> SUFFICES ASSUME Administrators # {}, Administrators' = {}
             PROVE  \E q \in Reqs : /\ requireAdmin(q) /\ req'[q] = Idle
                                    /\ req[q].user \notin Administrators
  BY DEF StaleStrand
<1> USE DEF AccountsInv
<1>1. CASE UNCHANGED users
  BY <1>1, AdministratorsKept DEF Administrators, Exists
<1>2. ASSUME NEW q \in Reqs, NEW i \in Ids,
             \/ \E row : insertUser(i, row)
             \/ \E p \in Passwords : Exists(i) /\ users' = [users EXCEPT ![i].pw = p]
      PROVE  FALSE
  BY <1>2, InsertKeepsAdministrators, PasswordKeepsAdministrators
<1>3. ASSUME NEW q \in Reqs, UpdateProfile(q)
      PROVE  FALSE
  <2>1. \A i \in Ids : Exists(i) => /\ users'[i] = users[i] \/ users'[i] = UserUpdated(users[i], None, None)
                                    /\ users[i] \in UserRow
    BY <1>3, UserRowType DEF UpdateProfile
  <2>2. \A row \in UserRow : /\ UserUpdated(row, None, None).role = row.role
                             /\ UserUpdated(row, None, None).disabled = row.disabled
                             /\ UserUpdated(row, None, None) # None
    <3> SUFFICES ASSUME NEW row \in UserRow
                 PROVE  /\ UserUpdated(row, None, None).role = row.role
                        /\ UserUpdated(row, None, None).disabled = row.disabled
                        /\ UserUpdated(row, None, None) # None
      OBVIOUS
    <3>1. UserUpdated(row, None, None) \in UserRow
      BY UserUpdatedType
    <3> QED
      BY <3>1, RowAssumption DEF UserUpdated, UserRow
  <2>3. \A i \in Administrators : /\ users'[i] # None
                                  /\ users'[i].role = users[i].role
                                  /\ users'[i].disabled = users[i].disabled
    BY <2>1, <2>2 DEF Administrators, Exists
  <2> QED
    BY <2>3, AdministratorsKept
<1>4. ASSUME NEW q \in Reqs, requireAdmin(q), Answer(q),
             \/ \E i \in Ids, r \in Roles \cup {None}, d \in {TRUE, FALSE, None} : UpdateUser(q, i, r, d)
             \/ \E i \in Ids : DeleteUser(q, i)
      PROVE  \E s \in Reqs : requireAdmin(s) /\ req'[s] = Idle /\ req[s].user \notin Administrators
  <2>1. req'[q] = Idle
    BY <1>4 DEF Answer, TypeOK
  <2>2. req[q].user \notin Administrators
    BY <1>4, UpdateKeepsAdministrators, DeleteKeepsAdministrators
  <2> QED
    BY <1>4, <2>1, <2>2
<1>5. ASSUME NEW q \in Reqs, Own(q)
      PROVE  UNCHANGED users
  <2>1. ASSUME NEW p \in Passwords, UpdateUserPassword(q, p)
        PROVE  FALSE
    BY <2>1, <1>2 DEF UpdateUserPassword, Exists
  <2> QED
    BY <1>5, <1>3, <2>1 DEF Own, Logout, UpdatePassword, CreateAccessToken, RevokeAccessToken
<1>6. ASSUME NEW q \in Reqs, Public(q)
      PROVE  UNCHANGED users
  <2>1. ASSUME NEW i \in Ids, NEW e \in Emails, NEW p \in Passwords, CreateBootstrapAdmin(q, i, e, p)
        PROVE  FALSE
    BY <2>1, <1>2 DEF CreateBootstrapAdmin
  <2>2. ASSUME NEW p \in Passwords, CompleteAccountSetup(q, p)
        PROVE  FALSE
    BY <2>2, <1>2 DEF CompleteAccountSetup, Exists
  <2> QED
    BY <1>6, <2>1, <2>2 DEF Public, Bootstrap, Login, createSessionCookie, FindActiveSetupToken
<1>7. ASSUME NEW q \in Reqs, Admin(q)
      PROVE  \/ UNCHANGED users
             \/ \E s \in Reqs : requireAdmin(s) /\ req'[s] = Idle /\ req[s].user \notin Administrators
  <2>1. ASSUME NEW i \in Ids, NEW e \in Emails, NEW r \in Roles, CreateUser(q, i, e, r)
        PROVE  FALSE
    BY <2>1, <1>2 DEF CreateUser
  <2>2. ASSUME \/ \E i \in Ids, r \in Roles \cup {None}, d \in {TRUE, FALSE, None} : UpdateUser(q, i, r, d)
               \/ \E i \in Ids : DeleteUser(q, i)
        PROVE  requireAdmin(q) /\ Answer(q)
    BY <2>2 DEF UpdateUser, DeleteUser
  <2>3. ASSUME \/ \E i \in Ids : CreateSetupToken(q, i)
               \/ \E c \in Creds : CreateAccountSetupToken(q, c)
        PROVE  UNCHANGED users
    BY <2>3 DEF CreateSetupToken, CreateAccountSetupToken
  <2> QED
    BY <1>4, <1>7, <2>1, <2>2, <2>3 DEF Admin
<1>8. ASSUME NEW q \in Reqs, (\E c \in Creds : authenticateRequest(q, c)) \/ authenticatedUser(q) \/ Abort(q)
      PROVE  UNCHANGED users
  BY <1>8 DEF authenticateRequest, authenticatedUser, Abort
<1>9. ASSUME NEW c \in Creds, Expire(c)
      PROVE  UNCHANGED users
  BY <1>9 DEF Expire
<1>10. CASE UNCHANGED vars
  BY <1>1, <1>10 DEF vars
<1> QED
  BY <1>1, <1>5, <1>6, <1>7, <1>8, <1>9, <1>10 DEF Next

(* The last enabled administrator is lost only through a request that was  *)
(* authenticated as an administrator's and outlived that: for any number   *)
(* of users and requests, the checks of UpdateUser and DeleteUser against  *)
(* one's own id keep an administrator otherwise.                           *)
THEOREM AdministratorsRemain == Spec => OnlyStaleRequestsStrand
<1>1. AccountsInv /\ [Next]_vars => [StaleStrand]_vars
  BY StrandStep
<1> QED
  BY <1>1, AccountsInvariant, PTL DEF Spec, OnlyStaleRequestsStrand, StaleStrand

=============================================================================
