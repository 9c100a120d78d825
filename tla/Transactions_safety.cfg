\* Labels: one transaction and label, two patterns, two connections.  Columns: one
\* transaction with two matching patterns and a mapping, a category of the user's
\* and a default bucket, one ingestion at a time.
SPECIFICATION MCSpec
CONSTANTS
  Messages = {m1}
  Labels = {l1}
  Patterns = {p1, p2}
  Manual = Manual
  Clients = {c1, c2}
  f1 = f1
  a = a
  k = k
  Txns = {t1}
  MutePatterns = {q1, q2}
  Fragments = {f1}
  Contains <- Everything
  Rank <- ByLength
  Categories = {a}
  Buckets = {k}
  Defaults <- OneDefault
  Writers = {w1}
  Empty = Empty
  None = None
SYMMETRY Symmetry
INVARIANTS LabelsHaveSources MappingsReachAll MutesFollowPatterns DeletedNamesStayGone
PROPERTIES ManualLabelsStay EditsPreserved
CHECK_DEADLOCK FALSE
