\* Two concurrent requests, three accounts of two addresses, three credentials.
SPECIFICATION Spec
CONSTANTS
  Ids = {u1, u2, u3}
  Emails = {e1, e2}
  Creds = {c1, c2, c3}
  Names = {n1}
  Passwords = {p1}
  Reqs = {q1, q2}
  None = None
SYMMETRY Symmetry
INVARIANTS CredentialsHaveUsers
PROPERTIES OnlyStaleRequestsStrand SetupTokenUsedOnce
CHECK_DEADLOCK FALSE
