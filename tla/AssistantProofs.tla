---------------------------- MODULE AssistantProofs ----------------------------
(***************************************************************************)
(* Proofs about Rules and LLMProviders.                                    *)
(*                                                                         *)
(* Rules, for any number of tenants, rules, documents and builds: what a   *)
(* scan extracts with (ScansUseOwnRules), that new rules reach old mail    *)
(* (NewRulesReachOldMail) and that exports restore (ImportRestoresExport). *)
(* A lemma about one statement on the table becomes one about a document,  *)
(* or a build, by following the tables that its statements lead through.   *)
(* OwedInv says what the scans under way will have made good when they     *)
(* save their checkpoint; RowsNormal, that the rows of tenants are as      *)
(* normalization leaves them, so that exporting and parsing returns them.  *)
(*                                                                         *)
(* LLMProviders, for any number of providers, concurrent requests,         *)
(* configurations and keys: what the active provider is worth              *)
(* (ReadyProviderAnswers) and what a returned draft is worth               *)
(* (DraftsMatchSamples).  The strengthening says what an activation knows  *)
(* at each of its statements: unless its provider was saved or             *)
(* disconnected since, the config it read is the row's, and from the       *)
(* health check on the row has credentials that make a client of it.       *)
(***************************************************************************)
EXTENDS Rules, LLMProviders, FiniteSetTheorems, WellFoundedInduction, SequenceTheorems, TLAPS

ScanRecord ==
    [pc : {"rules", "reading"}, tenant : Tenants, live : BOOLEAN, full : BOOLEAN,
     own : SUBSET Ids, listed : BOOLEAN, overtaken : SUBSET Ids]

HandlerRecord == [pc : {"state", "clear", "restart", "delete"}, tenant : Tenants, id : Ids]

IsTable(table) == table = [i \in Ids |-> table[i]]

\* At most one row of an owner has a name.
OneRowPerName(table) ==
    \A i, j \in Ids :
        /\ table[i] # None /\ table[j] # None
        /\ table[i].tenant = table[j].tenant /\ table[i].name = table[j].name
        => i = j

TableInv ==
    /\ build \in DOMAIN Embedded
    /\ IsTable(rules)
    /\ OneRowPerName(rules)

ScansTyped ==
    /\ reader \subseteq Tenants
    /\ scans = [s \in Scans |-> scans[s]]
    /\ \A s \in Scans : scans[s] # Idle => scans[s] \in ScanRecord

HandlerOwns ==
    handler # Idle =>
        /\ handler \in HandlerRecord
        /\ handler.pc # "restart" => handler.id \in Own(handler.tenant)

OwedStored ==
    /\ owed = [t \in Tenants |-> owed[t]]
    /\ \A t \in Tenants : owed[t] \subseteq Own(t)

\* A scan whose checkpoint will be saved has made good, or will make good when it
\* lists its rules, whatever is owed to its tenant.
MakesGood(s) ==
    /\ scans[s].pc = "reading" => owed[scans[s].tenant] \subseteq Settled(s)
    /\ scans[s].pc = "rules" /\ ~scans[s].full
         => owed[scans[s].tenant] \subseteq scans[s].overtaken

ScansMakeGood == \A s \in Scans : scans[s] # Idle /\ scans[s].live => MakesGood(s)

OwedInv ==
    /\ ScansTyped /\ HandlerOwns /\ OwedStored /\ ScansMakeGood
    /\ NewRulesReachOldMail

-----------------------------------------------------------------------------
\* What a statement on the table leaves: the rows that were there, under their
\* keys and owners, and all but one of the free keys.
Free(table) == {i \in Ids : table[i] = None}

Grows(a, b) ==
    \A i \in Ids : a[i] # None => b[i] # None /\ b[i].tenant = a[i].tenant

Statement(a, b) ==
    IsTable(a) =>
        /\ IsTable(b)
        /\ OneRowPerName(a) => OneRowPerName(b)
        /\ \A n \in Nat : Cardinality(Free(a)) >= n + 1
                            => Grows(a, b) /\ Cardinality(Free(b)) >= n

IsSequence(rs) == Len(rs) \in Nat /\ DOMAIN rs = 1..Len(rs)

\* The row that is stored for the rule r of the owner t.
Fits(t, r) == Row(t, r) # None /\ Row(t, r).tenant = t /\ Row(t, r).name = r.name

\* f are the tables that an import, or seeding, leads through.
Imports(f, table, t, rs) ==
    f = [n \in 0..Len(rs) |-> IF n = 0 THEN table ELSE Upsert(f[n - 1], t, rs[n])]

Seeds(f, table, rs) ==
    f = [n \in 0..Len(rs) |-> IF n = 0 THEN table ELSE InsertMissing(f[n - 1], System, rs[n])]

-----------------------------------------------------------------------------
\* Every set of numbers that has a member has a least one.
LEMMA LeastNumber ==
    ASSUME NEW S \in SUBSET Nat, S # {}
    PROVE  \E m \in S : \A k \in S : m <= k
<1> DEFINE R == {p \in Nat \X Nat : p[1] < p[2]}
<1>1. IsWellFoundedOn(R, Nat)
  BY NatLessThanWellFounded DEF OpToRel
<1>2. PICK m \in S : \A k \in S : ~ (<<k, m>> \in R)
  BY <1>1, WFMin
<1>3. ASSUME NEW k \in S PROVE m <= k
  <2>1. k < m => <<k, m>> \in R
    OBVIOUS
  <2> QED BY <1>2, <2>1
<1> QED BY <1>3

\* Induction up to N, over a set.
LEMMA UpTo ==
    ASSUME NEW N \in Nat, NEW S, 0 \in S, \A n \in 1..N : n - 1 \in S => n \in S
    PROVE  \A n \in 0..N : n \in S
<1> DEFINE Bad == {n \in 0..N : n \notin S}
<1> SUFFICES ASSUME Bad # {} PROVE FALSE
  OBVIOUS
<1>1. Bad \in SUBSET Nat
  OBVIOUS
<1>2. PICK m \in Bad : \A k \in Bad : m <= k
  BY <1>1, LeastNumber
<1>3. m \in 1..N /\ m \notin S
  BY <1>2
<1>4. m - 1 \in 0..N /\ m - 1 \notin Bad
  <2> HIDE DEF Bad
  <2> QED BY <1>2, <1>3
<1> QED BY <1>3, <1>4

\* The tables that an import leads through: the recursive function exists.
LEMMA ImportTables ==
    ASSUME NEW table, NEW t, NEW rs, Len(rs) \in Nat
    PROVE  \E f : /\ Imports(f, table, t, rs)
                  /\ ImportUserRules(table, t, rs) = f[Len(rs)]
<1> DEFINE Leads(f, m) == f = [n \in 0..m |-> IF n = 0 THEN table ELSE Upsert(f[n - 1], t, rs[n])]
           Stuck == {m \in Nat : \A f : ~Leads(f, m)}
<1>1. Stuck = {}
  <2> SUFFICES ASSUME Stuck # {} PROVE FALSE
    OBVIOUS
  <2>1. PICK m \in Stuck : \A k \in Stuck : m <= k
    BY LeastNumber
  <2>2. m # 0
    <3> DEFINE f == [n \in 0..0 |-> table]
    <3>1. Leads(f, 0)
      OBVIOUS
    <3> QED BY <3>1
  <2>3. PICK f : Leads(f, m - 1)
    <3>1. m \in Nat /\ m - 1 \in Nat
      BY <2>1, <2>2
    <3>2. m - 1 \notin Stuck
      <4> HIDE DEF Stuck
      <4> QED BY <2>1, <3>1
    <3> QED BY <3>1, <3>2
  <2> DEFINE g == [n \in 0..m |-> IF n = m THEN Upsert(f[m - 1], t, rs[m]) ELSE f[n]]
  <2>4. Leads(g, m)
    <3> m \in Nat \ {0}
      BY <2>1, <2>2
    <3>1. ASSUME NEW n \in 0..m
          PROVE  g[n] = IF n = 0 THEN table ELSE Upsert(g[n - 1], t, rs[n])
      <4>1. CASE n = m
        BY <4>1
      <4>2. CASE n # m
        <5>1. n \in 0..(m - 1) /\ (n # 0 => n - 1 \in 0..(m - 1) /\ n - 1 # m)
          BY <4>2
        <5>2. f[n] = IF n = 0 THEN table ELSE Upsert(f[n - 1], t, rs[n])
          BY <2>3, <5>1
        <5> QED BY <5>1, <5>2, <4>2
      <4> QED BY <4>1, <4>2
    <3> QED BY <3>1
  <2> QED BY <2>4, <2>1
<1>2. \E f : Leads(f, Len(rs))
  BY <1>1
<1> DEFINE after == CHOOSE f : Leads(f, Len(rs))
<1>3. Leads(after, Len(rs))
  BY <1>2
<1>4. ImportUserRules(table, t, rs) = after[Len(rs)]
  BY DEF ImportUserRules
<1> HIDE DEF after
<1> QED BY <1>3, <1>4 DEF Imports

\* The tables that seeding leads through.
LEMMA SeedTables ==
    ASSUME NEW table, NEW rs, Len(rs) \in Nat
    PROVE  \E f : /\ Seeds(f, table, rs)
                  /\ SeedPredefinedRules(table, rs) = f[Len(rs)]
<1> DEFINE Leads(f, m) == f = [n \in 0..m |-> IF n = 0 THEN table ELSE InsertMissing(f[n - 1], System, rs[n])]
           Stuck == {m \in Nat : \A f : ~Leads(f, m)}
<1>1. Stuck = {}
  <2> SUFFICES ASSUME Stuck # {} PROVE FALSE
    OBVIOUS
  <2>1. PICK m \in Stuck : \A k \in Stuck : m <= k
    BY LeastNumber
  <2>2. m # 0
    <3> DEFINE f == [n \in 0..0 |-> table]
    <3>1. Leads(f, 0)
      OBVIOUS
    <3> QED BY <3>1
  <2>3. PICK f : Leads(f, m - 1)
    <3>1. m \in Nat /\ m - 1 \in Nat
      BY <2>1, <2>2
    <3>2. m - 1 \notin Stuck
      <4> HIDE DEF Stuck
      <4> QED BY <2>1, <3>1
    <3> QED BY <3>1, <3>2
  <2> DEFINE g == [n \in 0..m |-> IF n = m THEN InsertMissing(f[m - 1], System, rs[m]) ELSE f[n]]
  <2>4. Leads(g, m)
    <3> m \in Nat \ {0}
      BY <2>1, <2>2
    <3>1. ASSUME NEW n \in 0..m
          PROVE  g[n] = IF n = 0 THEN table ELSE InsertMissing(g[n - 1], System, rs[n])
      <4>1. CASE n = m
        BY <4>1
      <4>2. CASE n # m
        <5>1. n \in 0..(m - 1) /\ (n # 0 => n - 1 \in 0..(m - 1) /\ n - 1 # m)
          BY <4>2
        <5>2. f[n] = IF n = 0 THEN table ELSE InsertMissing(f[n - 1], System, rs[n])
          BY <2>3, <5>1
        <5> QED BY <5>1, <5>2, <4>2
      <4> QED BY <4>1, <4>2
    <3> QED BY <3>1
  <2> QED BY <2>4, <2>1
<1>2. \E f : Leads(f, Len(rs))
  BY <1>1
<1> DEFINE after == CHOOSE f : Leads(f, Len(rs))
<1>3. Leads(after, Len(rs))
  BY <1>2
<1>4. SeedPredefinedRules(table, rs) = after[Len(rs)]
  BY DEF SeedPredefinedRules
<1> HIDE DEF after
<1> QED BY <1>3, <1>4 DEF Seeds

LEMMA FreeIsFinite ==
    ASSUME NEW table
    PROVE  IsFiniteSet(Free(table)) /\ Cardinality(Free(table)) \in Nat
BY IdAssumption, FS_Subset, FS_CardinalityType DEF Free

LEMMA NotFull ==
    ASSUME NEW table, NEW n \in Nat, ~Full(table, n)
    PROVE  Cardinality(Free(table)) >= n
BY FreeIsFinite DEF Full, Free

LEMMA InsertStatement ==
    ASSUME NEW table, NEW t, NEW r, Fits(t, r), ~Has(table, t, r.name)
    PROVE  Statement(table, Insert(table, t, r))
<1> SUFFICES ASSUME IsTable(table)
             PROVE  /\ IsTable(Insert(table, t, r))
                    /\ OneRowPerName(table) => OneRowPerName(Insert(table, t, r))
                    /\ \A n \in Nat : Cardinality(Free(table)) >= n + 1
                         => /\ Grows(table, Insert(table, t, r))
                            /\ Cardinality(Free(Insert(table, t, r))) >= n
  BY DEF Statement
<1> DEFINE k == FreeKey(table)
           new == Insert(table, t, r)
<1>1. new = [i \in Ids |-> IF i = k THEN Row(t, r) ELSE table[i]]
  BY DEF Insert, IsTable
<1>2. \A i \in Ids : table[i] # None => ~(table[i].tenant = t /\ table[i].name = r.name)
  BY DEF Has, Rows
<1> HIDE DEF k, new
<1>3. IsTable(new)
  BY <1>1 DEF IsTable
<1>4. OneRowPerName(table) => OneRowPerName(new)
  BY <1>1, <1>2 DEF OneRowPerName, Fits
<1>5. ASSUME NEW n \in Nat, Cardinality(Free(table)) >= n + 1
      PROVE  Grows(table, new) /\ Cardinality(Free(new)) >= n
  <2>1. Free(table) # {}
    BY <1>5, FS_EmptySet
  <2>2. k \in Free(table)
    BY <2>1 DEF k, FreeKey, Free
  <2>3. Free(new) = Free(table) \ {k}
    BY <1>1, <2>2 DEF Free, Fits
  <2>4. Cardinality(Free(new)) = Cardinality(Free(table)) - 1
    BY <2>2, <2>3, FreeIsFinite, FS_RemoveElement
  <2>5. Grows(table, new)
    BY <1>1, <2>2 DEF Grows, Free
  <2> QED BY <2>4, <2>5, <1>5, FreeIsFinite
<1> QED BY <1>3, <1>4, <1>5 DEF new

LEMMA SameStatement ==
    ASSUME NEW table
    PROVE  Statement(table, table)
BY FreeIsFinite DEF Statement, Grows

LEMMA InsertMissingStatement ==
    ASSUME NEW table, NEW t, NEW r, Fits(t, r)
    PROVE  Statement(table, InsertMissing(table, t, r))
BY InsertStatement, SameStatement DEF InsertMissing

LEMMA UpsertStatement ==
    ASSUME NEW table, NEW t, NEW r, Fits(t, r)
    PROVE  Statement(table, Upsert(table, t, r))
<1>1. CASE ~Has(table, t, r.name)
  BY <1>1, InsertStatement DEF Upsert
<1>2. CASE Has(table, t, r.name)
  <2> SUFFICES ASSUME IsTable(table) PROVE Statement(table, Upsert(table, t, r))
    BY DEF Statement
  <2> DEFINE k == KeyOf(table, t, r.name)
             new == Upsert(table, t, r)
  <2>1. k \in Ids /\ table[k] # None /\ table[k].tenant = t /\ table[k].name = r.name
    BY <1>2 DEF Has, Rows, KeyOf
  <2>2. new = [i \in Ids |-> IF i = k THEN Row(t, r) ELSE table[i]]
    BY <1>2 DEF Upsert, IsTable
  <2> HIDE DEF k, new
  <2>3. IsTable(new)
    BY <2>2 DEF IsTable
  <2>4. OneRowPerName(table) => OneRowPerName(new)
    BY <2>1, <2>2 DEF OneRowPerName, Fits
  <2>5. Free(new) = Free(table)
    BY <2>1, <2>2 DEF Free, Fits
  <2>6. Grows(table, new)
    BY <2>1, <2>2 DEF Grows, Fits
  <2>7. Statement(table, new)
    BY <2>3, <2>4, <2>5, <2>6, FreeIsFinite DEF Statement
  <2> QED BY <2>7 DEF new
<1> QED BY <1>1, <1>2

LEMMA Statements ==
    ASSUME NEW f, NEW N \in Nat, IsTable(f[0]),
           \A n \in 1..N : Statement(f[n - 1], f[n])
    PROVE  /\ IsTable(f[N])
           /\ OneRowPerName(f[0]) => OneRowPerName(f[N])
           /\ Cardinality(Free(f[0])) >= N => Grows(f[0], f[N])
<1> DEFINE Good(n) == /\ IsTable(f[n])
                      /\ OneRowPerName(f[0]) => OneRowPerName(f[n])
                      /\ Cardinality(Free(f[0])) >= N
                           => Grows(f[0], f[n]) /\ Cardinality(Free(f[n])) >= N - n
           S == {n \in 0..N : Good(n)}
<1>1. Good(0)
  BY FreeIsFinite DEF Grows
<1>2. ASSUME NEW n \in 1..N, Good(n - 1) PROVE Good(n)
  <2>1. Statement(f[n - 1], f[n])
    OBVIOUS
  <2>2. IsTable(f[n]) /\ (OneRowPerName(f[0]) => OneRowPerName(f[n]))
    BY <1>2, <2>1 DEF Statement
  <2>3. ASSUME Cardinality(Free(f[0])) >= N
        PROVE  Grows(f[0], f[n]) /\ Cardinality(Free(f[n])) >= N - n
    <3>1. Grows(f[0], f[n - 1]) /\ Cardinality(Free(f[n - 1])) >= N - (n - 1)
      BY <1>2, <2>3
    <3>2. N - n \in Nat /\ N - (n - 1) = (N - n) + 1
      OBVIOUS
    <3>3. Grows(f[n - 1], f[n]) /\ Cardinality(Free(f[n])) >= N - n
      BY <1>2, <2>1, <3>1, <3>2 DEF Statement
    <3>4. Grows(f[0], f[n])
      BY <3>1, <3>3 DEF Grows
    <3> QED BY <3>3, <3>4
  <2> QED BY <2>2, <2>3
<1> HIDE DEF Good
<1>3. \A n \in 0..N : n \in S
  <2>1. 0 \in S /\ \A n \in 1..N : n - 1 \in S => n \in S
    BY <1>1, <1>2
  <2> HIDE DEF S
  <2> QED BY <2>1, UpTo
<1> QED BY <1>3 DEF Good

LEMMA ImportGrows ==
    ASSUME NEW table, NEW t, NEW rs, IsTable(table), IsSequence(rs),
           \A k \in DOMAIN rs : Fits(t, rs[k])
    PROVE  /\ IsTable(ImportUserRules(table, t, rs))
           /\ OneRowPerName(table) => OneRowPerName(ImportUserRules(table, t, rs))
           /\ ~Full(table, Len(rs)) => Grows(table, ImportUserRules(table, t, rs))
<1> DEFINE N == Len(rs)
<1>1. N \in Nat /\ DOMAIN rs = 1..N
  BY DEF IsSequence
<1>2. PICK f : Imports(f, table, t, rs) /\ ImportUserRules(table, t, rs) = f[N]
  BY <1>1, ImportTables
<1> HIDE DEF N
<1>3. f[0] = table
  BY <1>1, <1>2 DEF N, Imports
<1>4. ASSUME NEW n \in 1..N PROVE Statement(f[n - 1], f[n])
  <2>1. f[n] = Upsert(f[n - 1], t, rs[n])
    BY <1>1, <1>2 DEF N, Imports
  <2> QED BY <1>1, <2>1, UpsertStatement
<1>5. ~Full(table, N) => Cardinality(Free(table)) >= N
  BY <1>1, NotFull
<1> QED BY <1>1, <1>2, <1>3, <1>4, <1>5, Statements DEF N

LEMMA SeedGrows ==
    ASSUME NEW table, NEW rs, IsTable(table), IsSequence(rs),
           \A k \in DOMAIN rs : Fits(System, rs[k])
    PROVE  /\ IsTable(SeedPredefinedRules(table, rs))
           /\ OneRowPerName(table) => OneRowPerName(SeedPredefinedRules(table, rs))
           /\ ~Full(table, Len(rs)) => Grows(table, SeedPredefinedRules(table, rs))
<1> DEFINE N == Len(rs)
<1>1. N \in Nat /\ DOMAIN rs = 1..N
  BY DEF IsSequence
<1>2. PICK f : Seeds(f, table, rs) /\ SeedPredefinedRules(table, rs) = f[N]
  BY <1>1, SeedTables
<1> HIDE DEF N
<1>3. f[0] = table
  BY <1>1, <1>2 DEF N, Seeds
<1>4. ASSUME NEW n \in 1..N PROVE Statement(f[n - 1], f[n])
  <2>1. f[n] = InsertMissing(f[n - 1], System, rs[n])
    BY <1>1, <1>2 DEF N, Seeds
  <2> QED BY <1>1, <2>1, InsertMissingStatement
<1>5. ~Full(table, N) => Cardinality(Free(table)) >= N
  BY <1>1, NotFull
<1> QED BY <1>1, <1>2, <1>3, <1>4, <1>5, Statements DEF N

-----------------------------------------------------------------------------
\* Every set of numbers that has a member and a bound has a greatest one.
LEMMA GreatestNumber ==
    ASSUME NEW S \in SUBSET Nat, S # {}, NEW N \in Nat, \A k \in S : k <= N
    PROVE  \E m \in S : \A k \in S : k <= m
<1> DEFINE Bounds == {n \in Nat : \A k \in S : k <= n}
<1>1. PICK n \in Bounds : \A b \in Bounds : n <= b
  <2>1. Bounds \in SUBSET Nat /\ N \in Bounds
    OBVIOUS
  <2> HIDE DEF Bounds
  <2> QED BY <2>1, LeastNumber
<1>2. n \in S
  <2> SUFFICES ASSUME n \notin S PROVE FALSE
    OBVIOUS
  <2>1. \A k \in S : k <= n /\ k # n
    BY <1>1
  <2>2. PICK k \in S : TRUE
    OBVIOUS
  <2>3. n - 1 \in Nat /\ \A j \in S : j <= n - 1
    BY <1>1, <2>1, <2>2
  <2>4. n - 1 \in Bounds
    BY <2>3
  <2> QED BY <1>1, <2>4
<1> QED BY <1>1, <1>2

LEMMA Extremes ==
    ASSUME NEW S \in SUBSET Nat, S # {}, NEW N \in Nat, \A k \in S : k <= N
    PROVE  /\ Min(S) \in S /\ \A k \in S : Min(S) <= k
           /\ Max(S) \in S /\ \A k \in S : k <= Max(S)
<1>1. \E m \in S : \A k \in S : m <= k
  BY LeastNumber
<1>2. \E m \in S : \A k \in S : m >= k
  BY GreatestNumber
<1> QED BY <1>1, <1>2 DEF Min, Max

\* What is trimmed stays as it is.
LEMMA TrimTwice ==
    ASSUME NEW text \in Text
    PROVE  Trim(text) \in Text /\ Trim(Trim(text)) = Trim(text)
<1> DEFINE words == {k \in DOMAIN text : text[k] # Blank}
           m == Min(words)
           n == Max(words)
           u == Trim(text)
<1>1. text \in Seq(STRING) /\ Len(text) \in Nat /\ DOMAIN text = 1..Len(text)
  BY LenProperties DEF Text
<1>2. CASE words = {}
  <2>1. u = <<>>
    BY <1>2 DEF Trim
  <2>2. Trim(<<>>) = <<>>
    BY DEF Trim
  <2> QED BY <2>1, <2>2, EmptySeq DEF Text
<1>3. CASE words # {}
  <2>1. u = SubSeq(text, m, n)
    BY <1>3 DEF Trim
  <2> HIDE DEF m, n, u
  <2>2. words \in SUBSET Nat /\ \A k \in words : k <= Len(text)
    BY <1>1
  <2>3. m \in words /\ n \in words /\ m <= n
    <3> HIDE DEF words
    <3> QED BY <1>1, <1>3, <2>2, Extremes DEF m, n
  <2>4. m \in 1..Len(text) /\ n \in 1..Len(text) /\ text[m] # Blank /\ text[n] # Blank
    BY <1>1, <2>3
  <2> DEFINE L == n - m + 1
  <2> HIDE DEF words
  <2>5. /\ u \in Seq(STRING) /\ Len(u) = L /\ L \in Nat \ {0}
        /\ \A i \in 1..L : u[i] = text[m + i - 1]
    <3>1. \A i \in m..n : text[i] \in STRING
      BY <1>1, <2>4, ElementOfSeq
    <3>2. /\ SubSeq(text, m, n) \in Seq(STRING)
          /\ Len(SubSeq(text, m, n)) = IF m <= n THEN n - m + 1 ELSE 0
          /\ \A i \in 1..(n - m + 1) : SubSeq(text, m, n)[i] = text[m + i - 1]
      BY <2>4, <3>1, SubSeqProperties
    <3> QED BY <2>1, <2>3, <2>4, <3>2
  <2>6. u[1] # Blank /\ u[L] # Blank /\ DOMAIN u = 1..L
    <3>1. u[1] = text[m] /\ u[L] = text[n]
      BY <2>4, <2>5
    <3> QED BY <2>4, <2>5, <3>1, LenProperties
  <2> DEFINE left == {k \in DOMAIN u : u[k] # Blank}
  <2>7. left \in SUBSET Nat /\ 1 \in left /\ L \in left /\ \A k \in left : 1 <= k /\ k <= L
    BY <2>5, <2>6
  <2>8. Trim(u) = SubSeq(u, Min(left), Max(left))
    BY <2>7 DEF Trim
  <2> HIDE DEF left, L
  <2>9. /\ Min(left) \in left /\ \A k \in left : Min(left) <= k
        /\ Max(left) \in left /\ \A k \in left : k <= Max(left)
    BY <2>5, <2>7, Extremes
  <2>10. Min(left) = 1 /\ Max(left) = L
    <3>1. Min(left) \in Nat /\ Min(left) <= 1 /\ 1 <= Min(left)
      BY <2>7, <2>9
    <3>2. Max(left) \in Nat /\ Max(left) <= L /\ L <= Max(left)
      BY <2>7, <2>9
    <3> QED BY <2>5, <3>1, <3>2
  <2>11. Trim(u) = u
    BY <2>5, <2>8, <2>10, SubSeqFull
  <2> QED BY <2>5, <2>11 DEF Text, u
<1> QED BY <1>2, <1>3

LEMMA ShownIsText ==
    ASSUME NEW source \in Source
    PROVE  Display(source) \in Text
<1>1. /\ source.bank \in Text /\ source.type \in Text /\ source.label \in Text
  BY DEF Source
<1>2. Trim(source.bank) \in Text /\ Trim(source.type) \in Text /\ Trim(source.label) \in Text
  BY <1>1, TrimTwice
<1> DEFINE shown == Trim(source.bank) \o Trim(source.type)
           label == Trim(source.label)
<1>3. shown \in Text
  BY <1>2, ConcatProperties DEF Text
<1>4. Display(source) = IF label = shown THEN shown ELSE shown \o label
  BY DEF Display
<1> HIDE DEF shown
<1>5. shown \o label \in Text
  BY <1>2, <1>3, ConcatProperties DEF Text
<1> QED BY <1>3, <1>4, <1>5

LEMMA SplitIsSource ==
    ASSUME NEW text \in Text
    PROVE  splitLegacySource(text) \in Source
<1> DEFINE separates == CHOOSE f : f = [k \in DOMAIN text |->
                          k > 1 /\ k < Len(text) /\ text[k] = Dash /\ ~f[k - 1]]
           dashes == {k \in DOMAIN text : separates[k]}
           k == CHOOSE d \in dashes : TRUE
<1>1. text \in Seq(STRING) /\ Len(text) \in Nat /\ DOMAIN text = 1..Len(text)
  BY LenProperties DEF Text
<1>2. <<>> \in Text
  BY EmptySeq DEF Text
<1>3. CASE Cardinality(dashes) = 1
  <2>1. dashes # {}
    <3> HIDE DEF dashes
    <3> QED BY <1>3, FS_EmptySet
  <2>2. k \in 1..Len(text)
    BY <1>1, <2>1
  <2>3. splitLegacySource(text) =
          [type |-> Trim(SubSeq(text, 1, k - 1)), label |-> text,
           bank |-> Trim(SubSeq(text, k + 1, Len(text)))]
    BY <1>3 DEF splitLegacySource
  <2> HIDE DEF k
  <2>4. \A i \in 1..Len(text) : text[i] \in STRING
    BY <1>1, ElementOfSeq
  <2>5. SubSeq(text, 1, k - 1) \in Text
    BY <1>1, <2>2, <2>4, SubSeqProperties DEF Text
  <2>6. SubSeq(text, k + 1, Len(text)) \in Text
    BY <1>1, <2>2, <2>4, SubSeqProperties DEF Text
  <2>7. Trim(SubSeq(text, 1, k - 1)) \in Text /\ Trim(SubSeq(text, k + 1, Len(text))) \in Text
    BY <2>5, <2>6, TrimTwice
  <2> QED BY <2>3, <2>7 DEF Source
<1>4. CASE Cardinality(dashes) # 1
  BY <1>2, <1>4 DEF splitLegacySource, Source
<1> QED BY <1>3, <1>4

-----------------------------------------------------------------------------
\* Senders in lower case, each once.
IsNormal(senders) ==
    /\ senders \in Seq(Addresses)
    /\ \A j, k \in DOMAIN senders : senders[j] = senders[k] => j = k
    /\ \A k \in DOMAIN senders : Lower[senders[k]] = senders[k]

\* f are the lists that normalizing leads through.
Normalizes(f, senders) ==
    f = [n \in 0..Len(senders) |-> IF n = 0 THEN <<>> ELSE AddSender(f[n - 1], senders[n])]

LEMMA SenderLists ==
    ASSUME NEW senders, Len(senders) \in Nat
    PROVE  \E f : /\ Normalizes(f, senders)
                  /\ normalizedHTTPSenders(senders) = f[Len(senders)]
<1> DEFINE Leads(f, m) == f = [n \in 0..m |-> IF n = 0 THEN <<>> ELSE AddSender(f[n - 1], senders[n])]
           Stuck == {m \in Nat : \A f : ~Leads(f, m)}
<1>1. Stuck = {}
  <2> SUFFICES ASSUME Stuck # {} PROVE FALSE
    OBVIOUS
  <2>1. PICK m \in Stuck : \A k \in Stuck : m <= k
    BY LeastNumber
  <2>2. m # 0
    <3> DEFINE f == [n \in 0..0 |-> <<>>]
    <3>1. Leads(f, 0)
      OBVIOUS
    <3> QED BY <3>1
  <2>3. PICK f : Leads(f, m - 1)
    <3>1. m \in Nat /\ m - 1 \in Nat
      BY <2>1, <2>2
    <3>2. m - 1 \notin Stuck
      <4> HIDE DEF Stuck
      <4> QED BY <2>1, <3>1
    <3> QED BY <3>1, <3>2
  <2> DEFINE g == [n \in 0..m |-> IF n = m THEN AddSender(f[m - 1], senders[m]) ELSE f[n]]
  <2>4. Leads(g, m)
    <3> m \in Nat \ {0}
      BY <2>1, <2>2
    <3>1. ASSUME NEW n \in 0..m
          PROVE  g[n] = IF n = 0 THEN <<>> ELSE AddSender(g[n - 1], senders[n])
      <4>1. CASE n = m
        BY <4>1
      <4>2. CASE n # m
        <5>1. n \in 0..(m - 1) /\ (n # 0 => n - 1 \in 0..(m - 1) /\ n - 1 # m)
          BY <4>2
        <5>2. f[n] = IF n = 0 THEN <<>> ELSE AddSender(f[n - 1], senders[n])
          BY <2>3, <5>1
        <5> QED BY <5>1, <5>2, <4>2
      <4> QED BY <4>1, <4>2
    <3> QED BY <3>1
  <2> QED BY <2>4, <2>1
<1>2. \E f : Leads(f, Len(senders))
  BY <1>1
<1> DEFINE after == CHOOSE f : Leads(f, Len(senders))
<1>3. Leads(after, Len(senders))
  BY <1>2
<1>4. normalizedHTTPSenders(senders) = after[Len(senders)]
  BY DEF normalizedHTTPSenders
<1> HIDE DEF after
<1> QED BY <1>3, <1>4 DEF Normalizes

LEMMA AddNormal ==
    ASSUME NEW out, IsNormal(out), NEW a \in Addresses \cup {Blank}
    PROVE  /\ IsNormal(AddSender(out, a))
           /\ out # <<>> \/ a # Blank => AddSender(out, a) # <<>>
<1>1. out \in Seq(Addresses) /\ Len(out) \in Nat /\ DOMAIN out = 1..Len(out)
  BY LenProperties DEF IsNormal
<1>2. CASE a = Blank
  BY <1>2 DEF AddSender
<1>3. CASE a # Blank /\ Contains(out, Lower[a])
  <2>1. AddSender(out, a) = out
    BY <1>3 DEF AddSender
  <2>2. out # <<>>
    <3>1. 1..Len(out) # {}
      BY <1>3 DEF Contains
    <3>2. Len(out) # 0
      BY <3>1
    <3> QED BY <3>2, EmptySeq
  <2> QED BY <2>1, <2>2
<1>4. CASE a # Blank /\ ~Contains(out, Lower[a])
  <2> DEFINE b == Lower[a]
             new == Append(out, b)
             N == Len(out)
  <2>1. AddSender(out, a) = new
    BY <1>4 DEF AddSender
  <2>2. b \in Addresses /\ Lower[b] = b
    BY <1>4, LowerAssumption
  <2>3. \A k \in 1..N : out[k] # b
    BY <1>4 DEF Contains
  <2> HIDE DEF b
  <2>4. /\ new \in Seq(Addresses) /\ new # <<>> /\ Len(new) = N + 1
        /\ \A k \in 1..N : new[k] = out[k]
        /\ new[N + 1] = b
    BY <1>1, <2>2, AppendProperties
  <2>5. DOMAIN new = 1..(N + 1)
    BY <2>4, LenProperties
  <2> HIDE DEF new, N
  <2>6. N \in Nat /\ DOMAIN out = 1..N
    BY <1>1 DEF N
  <2>7. \A k \in 1..(N + 1) : k \in 1..N \/ k = N + 1
    BY <2>6
  <2>8. \A j, k \in 1..(N + 1) : new[j] = new[k] => j = k
    BY <2>3, <2>4, <2>6, <2>7 DEF IsNormal
  <2>9. \A k \in 1..(N + 1) : Lower[new[k]] = new[k]
    BY <2>2, <2>4, <2>6, <2>7 DEF IsNormal
  <2> QED BY <2>1, <2>4, <2>5, <2>8, <2>9 DEF IsNormal
<1> QED BY <1>2, <1>3, <1>4

LEMMA NothingIsNormal == IsNormal(<<>>)
BY EmptySeq DEF IsNormal

\* What is normalized is normal, and has a member where there was one.
LEMMA SendersNormal ==
    ASSUME NEW senders \in Seq(Addresses \cup {Blank})
    PROVE  /\ IsNormal(normalizedHTTPSenders(senders))
           /\ (\E k \in DOMAIN senders : senders[k] # Blank) => normalizedHTTPSenders(senders) # <<>>
<1> DEFINE N == Len(senders)
<1>1. N \in Nat /\ DOMAIN senders = 1..N
  BY LenProperties
<1>2. PICK f : Normalizes(f, senders) /\ normalizedHTTPSenders(senders) = f[N]
  BY <1>1, SenderLists
<1> HIDE DEF N
<1>3. f[0] = <<>> /\ \A n \in 1..N : f[n] = AddSender(f[n - 1], senders[n])
  BY <1>1, <1>2 DEF N, Normalizes
<1> DEFINE Good(n) == IsNormal(f[n]) /\ ((\E k \in 1..n : senders[k] # Blank) => f[n] # <<>>)
           S == {n \in 0..N : Good(n)}
<1>4. Good(0)
  BY <1>3, NothingIsNormal
<1>5. ASSUME NEW n \in 1..N, Good(n - 1) PROVE Good(n)
  <2>1. senders[n] \in Addresses \cup {Blank}
    BY <1>1, ElementOfSeq DEF N
  <2>2. IsNormal(f[n]) /\ (f[n - 1] # <<>> \/ senders[n] # Blank => f[n] # <<>>)
    BY <1>3, <1>5, <2>1, AddNormal
  <2>3. \A k \in 1..n : k \in 1..(n - 1) \/ k = n
    OBVIOUS
  <2> QED BY <1>5, <2>2, <2>3
<1> HIDE DEF Good
<1>6. \A n \in 0..N : n \in S
  <2>1. 0 \in S /\ \A n \in 1..N : n - 1 \in S => n \in S
    BY <1>1, <1>4, <1>5
  <2> HIDE DEF S
  <2> QED BY <1>1, <2>1, UpTo
<1>7. Good(N)
  BY <1>1, <1>6
<1> QED BY <1>1, <1>2, <1>7 DEF Good

\* What is normal stays as it is.
LEMMA NormalStays ==
    ASSUME NEW senders, IsNormal(senders)
    PROVE  normalizedHTTPSenders(senders) = senders
<1> DEFINE N == Len(senders)
<1>1. senders \in Seq(Addresses) /\ N \in Nat /\ DOMAIN senders = 1..N
  BY LenProperties DEF IsNormal
<1>2. PICK f : Normalizes(f, senders) /\ normalizedHTTPSenders(senders) = f[N]
  BY <1>1, SenderLists
<1>3. f[0] = <<>> /\ \A n \in 1..N : f[n] = AddSender(f[n - 1], senders[n])
  BY <1>1, <1>2 DEF Normalizes
<1> DEFINE S == {n \in 0..N : f[n] = SubSeq(senders, 1, n)}
<1>4. 0 \in S
  <2>1. f[0] = SubSeq(senders, 1, 0)
    <3>1. SubSeq(senders, 1, 0) = <<>>
      BY SubSeqEmpty
    <3> QED BY <1>3, <3>1, Zenon
  <2> HIDE DEF N
  <2> QED BY <1>1, <2>1
<1>5. ASSUME NEW n \in 1..N, n - 1 \in S PROVE n \in S
  <2> DEFINE part == SubSeq(senders, 1, n - 1)
             a == senders[n]
  <2>1. a \in Addresses /\ a # Blank /\ Lower[a] = a
    <3>1. a \in Addresses
      BY <1>1, ElementOfSeq
    <3> QED BY <1>1, <3>1, LowerAssumption DEF IsNormal
  <2>2. /\ part \in Seq(Addresses) /\ Len(part) = n - 1
        /\ \A k \in 1..(n - 1) : part[k] = senders[k]
    <3>1. \A k \in 1..(n - 1) : senders[k] \in Addresses
      BY <1>1, ElementOfSeq
    <3>2. /\ part \in Seq(Addresses)
          /\ Len(part) = IF 1 <= n - 1 THEN (n - 1) - 1 + 1 ELSE 0
          /\ \A k \in 1..((n - 1) - 1 + 1) : part[k] = senders[1 + k - 1]
      BY <3>1, SubSeqProperties
    <3> QED BY <3>2
  <2>3. ~Contains(part, a)
    <3>1. \A k \in 1..(n - 1) : senders[k] # senders[n]
      BY <1>1 DEF IsNormal
    <3> QED BY <2>2, <3>1 DEF Contains
  <2>4. f[n] = AddSender(part, a)
    BY <1>3, <1>5
  <2>5. SubSeq(senders, 1, n) = part \o <<a>>
    BY <1>1, SubSeqRecursiveSecond
  <2> HIDE DEF part, a
  <2>6. AddSender(part, a) = Append(part, a)
    BY <2>1, <2>3 DEF AddSender
  <2>7. Append(part, a) = part \o <<a>>
    BY <2>1, <2>2, AppendIsConcat
  <2> QED BY <2>4, <2>5, <2>6, <2>7
<1>6. N \in S
  <2>1. \A n \in 1..N : n - 1 \in S => n \in S
    BY <1>5
  <2> HIDE DEF S, N
  <2> QED BY <1>1, <1>4, <2>1, UpTo
<1>7. SubSeq(senders, 1, N) = senders
  BY <1>1, SubSeqFull
<1> QED BY <1>2, <1>6, <1>7

-----------------------------------------------------------------------------
\* The rows of tenants are what the requests and the documents make them; a request
\* may leave expressions that do not compile.
IsRule(r) ==
    /\ r.name \in Text /\ Trim(r.name) = r.name
    /\ r.amount \in Text /\ Trim(r.amount) = r.amount
    /\ r.merchant \in Text /\ Trim(r.merchant) = r.merchant
    /\ IsNormal(r.senders) /\ r.senders # <<>>
    /\ r.source \in Source

\* A source without a label displays nothing.
IsRow(r) ==
    /\ r = [tenant |-> r.tenant, name |-> r.name, senders |-> r.senders, amount |-> r.amount,
            merchant |-> r.merchant, source |-> r.source]
    /\ IsRule(r)
    /\ r.source.label = <<>> => Display(r.source) = <<>>

RowsNormal(table) ==
    \A i \in Ids : table[i] # None /\ table[i].tenant # System => IsRow(table[i])

LEMMA StoredRule ==
    ASSUME NEW t, NEW r, IsRule(r)
    PROVE  IsRow(Row(t, r))
<1> DEFINE s == r.source
           label == FirstOf(s.label, Display(s))
<1>1. s.label \in Text /\ s.type \in Text /\ s.bank \in Text
  BY DEF IsRule, Source
<1>2. s = [type |-> s.type, label |-> s.label, bank |-> s.bank]
  BY DEF IsRule, Source
<1>3. Display(s) \in Text
  BY ShownIsText DEF IsRule
<1>4. label \in Text /\ (label = <<>> => label = s.label /\ Display(s) = <<>>)
  BY <1>1, <1>3 DEF FirstOf
<1>5. Row(t, r).source = [type |-> s.type, label |-> label, bank |-> s.bank]
  BY <1>2 DEF Row
<1> HIDE DEF s, label
<1>6. Row(t, r).source \in Source
  BY <1>1, <1>4, <1>5 DEF Source
<1>7. Row(t, r).source.label = <<>> => Display(Row(t, r).source) = <<>>
  <2>1. ASSUME label = <<>> PROVE Row(t, r).source = s
    BY <1>2, <1>4, <1>5, <2>1
  <2> QED BY <1>4, <1>5, <2>1
<1>8. /\ Row(t, r).name = r.name /\ Row(t, r).amount = r.amount /\ Row(t, r).merchant = r.merchant
      /\ Row(t, r).senders = r.senders
      /\ Row(t, r) = [tenant |-> Row(t, r).tenant, name |-> Row(t, r).name,
                      senders |-> Row(t, r).senders, amount |-> Row(t, r).amount,
                      merchant |-> Row(t, r).merchant, source |-> Row(t, r).source]
  BY DEF Row
<1> QED BY <1>6, <1>7, <1>8 DEF IsRow, IsRule

LEMMA MutationIsRule ==
    ASSUME NEW b \in Bodies
    PROVE  IsRule(ruleMutationToRow(b))
<1>1. b \in [name : Text, senders : Seq(Addresses) \ {<<>>}, amount : Expressions,
             merchant : Expressions, source : Source]
  BY BodyAssumption
<1>2. /\ b.name \in Text /\ b.amount \in Text /\ b.merchant \in Text
      /\ b.senders \in Seq(Addresses) /\ b.senders # <<>> /\ b.source \in Source
  BY <1>1, ExpressionAssumption
<1>3. b.source.type \in Text /\ b.source.label \in Text /\ b.source.bank \in Text
  BY <1>2 DEF Source
<1>4. TrimSource(b.source) \in Source
  BY <1>3, TrimTwice DEF TrimSource, Source
<1>5. /\ Trim(b.name) \in Text /\ Trim(Trim(b.name)) = Trim(b.name)
      /\ Trim(b.amount) \in Text /\ Trim(Trim(b.amount)) = Trim(b.amount)
      /\ Trim(b.merchant) \in Text /\ Trim(Trim(b.merchant)) = Trim(b.merchant)
  BY <1>2, TrimTwice
<1>6. b.senders \in Seq(Addresses \cup {Blank})
  BY <1>2, SeqMonotonic
<1>7. \E k \in DOMAIN b.senders : b.senders[k] # Blank
  <2>1. Len(b.senders) \in Nat \ {0} /\ DOMAIN b.senders = 1..Len(b.senders)
    BY <1>2, EmptySeq, LenProperties
  <2>2. 1 \in DOMAIN b.senders /\ b.senders[1] \in Addresses
    BY <1>2, <2>1, ElementOfSeq
  <2> QED BY <2>2, LowerAssumption
<1>8. IsNormal(normalizedHTTPSenders(b.senders)) /\ normalizedHTTPSenders(b.senders) # <<>>
  BY <1>6, <1>7, SendersNormal
<1> QED BY <1>4, <1>5, <1>8 DEF IsRule, ruleMutationToRow

LEMMA EntryIsRule ==
    ASSUME NEW e, e.name \in Text, e.amount \in Text, e.merchant \in Text, e.legacy \in Text,
           e.senders \in Seq(Addresses \cup {Blank}), e.source \in Source, Compiles(e)
    PROVE  IsRule(compileRule(e))
<1>1. /\ Trim(e.name) \in Text /\ Trim(Trim(e.name)) = Trim(e.name)
      /\ Trim(e.amount) \in Text /\ Trim(Trim(e.amount)) = Trim(e.amount)
      /\ Trim(e.merchant) \in Text /\ Trim(Trim(e.merchant)) = Trim(e.merchant)
  BY TrimTwice
<1>2. IsNormal(normalizedHTTPSenders(e.senders)) /\ normalizedHTTPSenders(e.senders) # <<>>
  BY SendersNormal DEF Compiles
<1>3. compileRule(e).source \in Source
  <2>1. splitLegacySource(Trim(e.legacy)) \in Source
    BY TrimTwice, SplitIsSource
  <2> QED BY <2>1 DEF compileRule
<1> QED BY <1>1, <1>2, <1>3 DEF IsRule, compileRule

LEMMA DocumentRules ==
    ASSUME NEW doc \in Documents, Valid(doc), NEW k \in DOMAIN doc
    PROVE  IsRule(ParseDocument(doc)[k])
<1> DEFINE e == doc[k]
           E == [name : Text, senders : Seq(Addresses \cup {Blank}), amount : Text,
                 merchant : Text, source : Source, legacy : Text]
<1>1. e \in E
  <2>1. doc \in Seq(E)
    BY DocumentAssumption
  <2> HIDE DEF E
  <2> QED BY <2>1, ElementOfSeq, LenProperties
<1>2. /\ e.name \in Text /\ e.amount \in Text /\ e.merchant \in Text /\ e.legacy \in Text
      /\ e.senders \in Seq(Addresses \cup {Blank}) /\ e.source \in Source
  BY <1>1
<1>3. Compiles(e)
  BY DEF Valid
<1> HIDE DEF e
<1>4. IsRule(compileRule(e))
  BY <1>2, <1>3, EntryIsRule
<1> QED BY <1>4 DEF ParseDocument, e

LEMMA RowFits ==
    ASSUME NEW t, NEW r, Row(t, r) \in TableRow
    PROVE  Fits(t, r)
BY NoneAssumption DEF Row, Fits

LEMMA RuleFits ==
    ASSUME NEW t \in Owners, NEW r, IsRule(r)
    PROVE  Fits(t, r)
<1>1. IsRow(Row(t, r)) /\ Row(t, r).tenant = t
  BY StoredRule DEF Row
<1>2. Row(t, r) \in TableRow
  BY <1>1 DEF IsRow, IsRule, IsNormal, TableRow
<1> QED BY <1>2, RowFits

LEMMA MutationFits ==
    ASSUME NEW t \in Tenants, NEW b \in Bodies
    PROVE  Fits(t, ruleMutationToRow(b))
BY MutationIsRule, RuleFits DEF Owners

LEMMA DocumentFits ==
    ASSUME NEW t \in Tenants, NEW doc \in Documents, Valid(doc)
    PROVE  /\ IsSequence(ParseDocument(doc))
           /\ \A k \in DOMAIN ParseDocument(doc) : Fits(t, ParseDocument(doc)[k])
<1> DEFINE rs == ParseDocument(doc)
           T == {compileRule(doc[k]) : k \in DOMAIN doc}
<1>1. rs = [k \in DOMAIN doc |-> compileRule(doc[k])]
  BY DEF ParseDocument
<1>2. Len(doc) \in Nat /\ DOMAIN doc = 1..Len(doc)
  BY DocumentAssumption, LenProperties
<1>3. rs \in [1..Len(doc) -> T]
  BY <1>1, <1>2
<1>4. rs \in Seq(T)
  BY <1>2, <1>3, SeqDef
<1>5. \A k \in DOMAIN doc : Fits(t, rs[k])
  BY DocumentRules, RuleFits DEF Owners
<1> QED BY <1>1, <1>4, <1>5, LenProperties DEF IsSequence

LEMMA BuildFits ==
    ASSUME NEW b \in DOMAIN Embedded
    PROVE  IsSequence(Embedded[b]) /\ \A k \in DOMAIN Embedded[b] : Fits(System, Embedded[b][k])
BY EmbeddedAssumption, RowFits DEF IsSequence

-----------------------------------------------------------------------------
LEMMA InsertGrows ==
    ASSUME NEW t \in Tenants, NEW b \in Bodies, IsTable(rules),
           ~Has(rules, t, ruleMutationToRow(b).name), ~Full(rules, 1)
    PROVE  LET new == Insert(rules, t, ruleMutationToRow(b))
           IN /\ IsTable(new)
              /\ OneRowPerName(rules) => OneRowPerName(new)
              /\ Grows(rules, new)
              /\ FreeKey(rules) \in Ids
              /\ new[FreeKey(rules)] # None /\ new[FreeKey(rules)].tenant = t
<1> DEFINE r == ruleMutationToRow(b)
<1>1. Fits(t, r)
  BY MutationFits
<1> HIDE DEF r
<1>2. Statement(rules, Insert(rules, t, r))
  BY <1>1, InsertStatement DEF r
<1>3. Cardinality(Free(rules)) >= 0 + 1
  BY NotFull
<1>4. FreeKey(rules) \in Ids
  <2>1. Free(rules) # {}
    BY <1>3, FS_EmptySet
  <2> QED BY <2>1 DEF FreeKey, Free
<1>5. Insert(rules, t, r)[FreeKey(rules)] = Row(t, r)
  BY <1>4 DEF Insert, IsTable
<1>6. /\ IsTable(Insert(rules, t, r))
      /\ OneRowPerName(rules) => OneRowPerName(Insert(rules, t, r))
      /\ Grows(rules, Insert(rules, t, r))
  BY <1>2, <1>3 DEF Statement
<1> QED BY <1>1, <1>4, <1>5, <1>6 DEF Fits, r

LEMMA TableInit ==
    ASSUME RulesInit
    PROVE  TableInv
<1> DEFINE empty == [i \in Ids |-> None]
<1>1. build = 1 /\ rules = SeedPredefinedRules(empty, Embedded[1]) /\ 1 \in DOMAIN Embedded
  BY EmbeddedAssumption DEF RulesInit
<1>2. IsTable(empty) /\ OneRowPerName(empty)
  BY DEF IsTable, OneRowPerName
<1> QED BY <1>1, <1>2, BuildFits, SeedGrows DEF TableInv

\* No statement takes a row, or gives it to another owner, except the one that
\* deletes it.
LEMMA TableStep ==
    ASSUME TableInv, [RulesNext]_ruleVars
    PROVE  /\ TableInv'
           /\ Delete \/ Grows(rules, rules')
<1> USE DEF TableInv
<1> DEFINE Kept == TableInv' /\ Grows(rules, rules')
<1>1. ASSUME UNCHANGED <<rules, build>> PROVE Kept
  BY <1>1 DEF IsTable, OneRowPerName, Grows
<1>2. ASSUME NEW t \in Tenants, NEW b \in Bodies, CreateRule(t, b) PROVE Kept
  BY <1>2, InsertGrows DEF CreateRule, Handle
<1>3. ASSUME NEW t \in Tenants, NEW i \in Ids, NEW b \in Bodies, UpdateRule(t, i, b) PROVE Kept
  <2> DEFINE r == ruleMutationToRow(b)
  <2>1. Fits(t, r)
    BY MutationFits
  <2> HIDE DEF r
  <2>2. /\ i \in Own(t)
        /\ r.name # rules[i].name => ~Has(rules, t, r.name)
        /\ rules' = [rules EXCEPT ![i] = Row(t, r)]
        /\ build' = build
    BY <1>3 DEF UpdateRule, r
  <2>3. rules[i] # None /\ rules[i].tenant = t
    BY <2>2 DEF Own, Stored
  <2>4. rules' = [k \in Ids |-> IF k = i THEN Row(t, r) ELSE rules[k]]
    BY <2>2 DEF IsTable
  <2>5. \A k \in Ids \ {i} :
          rules[k] # None => ~(rules[k].tenant = t /\ rules[k].name = r.name)
    BY <2>2, <2>3 DEF Has, Rows, OneRowPerName
  <2>6. IsTable(rules')
    BY <2>4 DEF IsTable
  <2>7. OneRowPerName(rules')
    BY <2>1, <2>4, <2>5 DEF OneRowPerName, Fits
  <2>8. Grows(rules, rules')
    BY <2>1, <2>3, <2>4 DEF Grows, Fits
  <2> QED BY <2>2, <2>6, <2>7, <2>8
<1>4. ASSUME NEW t \in Tenants, NEW doc \in Documents, ImportRules(t, doc) PROVE Kept
  <2>1. /\ Valid(doc) /\ ~Full(rules, Len(ParseDocument(doc)))
        /\ rules' = ImportUserRules(rules, t, ParseDocument(doc))
        /\ build' = build
    BY <1>4 DEF ImportRules
  <2> QED BY <2>1, DocumentFits, ImportGrows
<1>5. ASSUME Upgrade PROVE Kept
  <2>1. /\ build' \in DOMAIN Embedded
        /\ ~Full(rules, Len(Embedded[build']))
        /\ rules' = SeedPredefinedRules(rules, Embedded[build'])
    BY <1>5 DEF Upgrade
  <2> QED BY <2>1, BuildFits, SeedGrows
<1>6. ASSUME Delete PROVE TableInv'
  <2>1. rules' = [rules EXCEPT ![handler.id] = None] /\ build' = build
    BY <1>6 DEF Delete, Handle
  <2>2. rules' = [k \in Ids |-> IF k = handler.id THEN None ELSE rules[k]]
    BY <2>1 DEF IsTable
  <2>3. IsTable(rules')
    BY <2>2 DEF IsTable
  <2>4. OneRowPerName(rules')
    BY <2>2 DEF OneRowPerName
  <2> QED BY <2>1, <2>3, <2>4
<1>7. ASSUME ScanStep PROVE UNCHANGED <<rules, build>>
  BY <1>7 DEF ScanStep, BeginScheduled, BeginDaemon, BeginScan, LoadRules, Iterated, EndScan
<1>8. ASSUME HandlerStep, ~Delete PROVE UNCHANGED <<rules, build>>
  BY <1>8 DEF HandlerStep, ReadActiveReader, ClearCheckpoint, ClearFails, RestartDaemon, Handle
<1>9. ASSUME RuleRequest PROVE Kept
  <2> SUFFICES ASSUME NEW t \in Tenants,
                      \/ \E b \in Bodies : CreateRule(t, b)
                      \/ \E i \in Ids, b \in Bodies : UpdateRule(t, i, b)
                      \/ \E i \in Ids : DeleteRule(t, i)
                      \/ \E doc \in Documents : ImportRules(t, doc)
                      \/ SetReader(t)
               PROVE  Kept
    BY <1>9 DEF RuleRequest
  <2>1. ASSUME NEW i \in Ids, DeleteRule(t, i) PROVE UNCHANGED <<rules, build>>
    BY <2>1 DEF DeleteRule, Handle
  <2>2. ASSUME SetReader(t) PROVE UNCHANGED <<rules, build>>
    BY <2>2 DEF SetReader
  <2> HIDE DEF Kept
  <2> QED BY <1>1, <1>2, <1>3, <1>4, <2>1, <2>2
<1>10. CASE UNCHANGED ruleVars
  BY <1>1, <1>10 DEF ruleVars
<1> QED
  <2> HIDE DEF TableInv
  <2> QED BY <1>1, <1>5, <1>6, <1>7, <1>8, <1>9, <1>10 DEF RulesNext

\* One owner has one row per name, whatever is created, renamed, imported or seeded.
THEOREM TableHolds == RulesSpec => []TableInv
<1>1. RulesInit => TableInv
  BY TableInit
<1>2. TableInv /\ [RulesNext]_ruleVars => TableInv'
  BY TableStep
<1> QED BY <1>1, <1>2, PTL DEF RulesSpec

-----------------------------------------------------------------------------
LEMMA OwnGrows ==
    ASSUME Grows(rules, rules'), NEW t
    PROVE  Own(t) \subseteq Own(t)'
BY DEF Grows, Own, Stored

\* What is owed, and how far a scan has come, is as before.
LEMMA SameScans ==
    ASSUME OwedInv, UNCHANGED <<scans, owed, reader, checkpoint>>,
           \A t \in Tenants : Own(t) \subseteq Own(t)'
    PROVE  ScansTyped' /\ OwedStored' /\ ScansMakeGood' /\ NewRulesReachOldMail'
<1>1. ScansTyped'
  BY DEF OwedInv, ScansTyped
<1>2. OwedStored'
  BY DEF OwedInv, OwedStored
<1>3. ScansMakeGood'
  BY DEF OwedInv, ScansMakeGood, MakesGood, Settled
<1>4. NewRulesReachOldMail'
  BY DEF OwedInv, NewRulesReachOldMail
<1> QED BY <1>1, <1>2, <1>3, <1>4

LEMMA SameHandler ==
    ASSUME OwedInv, UNCHANGED handler, \A t \in Tenants : Own(t) \subseteq Own(t)'
    PROVE  HandlerOwns'
BY DEF OwedInv, HandlerOwns, HandlerRecord

LEMMA SameRows ==
    ASSUME UNCHANGED rules
    PROVE  \A t : Own(t)' = Own(t)
BY DEF Own, Stored

LEMMA OwedInit ==
    ASSUME RulesInit
    PROVE  OwedInv
<1>1. /\ reader \subseteq Tenants
      /\ scans = [s \in Scans |-> Idle] /\ handler = Idle
      /\ owed = [t \in Tenants |-> {}]
  BY TenantAssumption DEF RulesInit
<1>2. ScansTyped /\ ScansMakeGood
  BY <1>1 DEF ScansTyped, ScansMakeGood
<1>3. HandlerOwns
  BY <1>1 DEF HandlerOwns
<1>4. OwedStored /\ NewRulesReachOldMail
  BY <1>1 DEF OwedStored, NewRulesReachOldMail
<1> QED BY <1>2, <1>3, <1>4 DEF OwedInv

\* A scan that skips old mail starts from a checkpoint, and then nothing is owed.
LEMMA BeginKeeps ==
    ASSUME OwedInv, NEW s \in Scans, NEW t \in Tenants, NEW forced \in BOOLEAN,
           BeginScan(s, t, forced)
    PROVE  OwedInv'
<1> DEFINE x == [pc |-> "rules", tenant |-> t, live |-> TRUE,
                 full |-> forced \/ t \notin checkpoint,
                 own |-> {}, listed |-> TRUE, overtaken |-> {}]
<1>1. /\ scans' = [scans EXCEPT ![s] = x]
      /\ UNCHANGED <<rules, build, reader, checkpoint, handler, owed>>
  BY DEF BeginScan
<1>2. x \in ScanRecord /\ x.tenant = t /\ x.pc = "rules" /\ (~x.full => t \in checkpoint)
  BY DEF ScanRecord
<1> HIDE DEF x
<1>3. scans' = [r \in Scans |-> IF r = s THEN x ELSE scans[r]]
  BY <1>1 DEF OwedInv, ScansTyped
<1>4. ScansTyped'
  BY <1>1, <1>2, <1>3 DEF OwedInv, ScansTyped
<1>5. HandlerOwns' /\ OwedStored' /\ NewRulesReachOldMail'
  BY <1>1, SameRows, SameHandler DEF OwedInv, OwedStored, NewRulesReachOldMail
<1>6. ScansMakeGood'
  <2> SUFFICES ASSUME NEW r \in Scans, scans'[r] # Idle, scans'[r].live PROVE MakesGood(r)'
    BY DEF ScansMakeGood
  <2>1. CASE r = s
    <3>1. owed[t] # {} => t \notin checkpoint
      BY DEF OwedInv, NewRulesReachOldMail
    <3> QED BY <1>1, <1>2, <1>3, <2>1, <3>1 DEF MakesGood
  <2>2. CASE r # s
    <3>1. scans'[r] = scans[r]
      BY <1>3, <2>2
    <3>2. MakesGood(r)
      BY <3>1 DEF OwedInv, ScansMakeGood
    <3> QED BY <1>1, <3>1, <3>2 DEF MakesGood, Settled
  <2> QED BY <2>1, <2>2
<1> QED BY <1>4, <1>5, <1>6 DEF OwedInv

LEMMA LoadKeeps ==
    ASSUME OwedInv, NEW s \in Scans, LoadRules(s)
    PROVE  OwedInv'
<1>1. PICK listed \in BOOLEAN :
        scans' = [scans EXCEPT ![s].pc = "reading", ![s].listed = listed,
                               ![s].own = IF listed THEN Own(scans[s].tenant) ELSE {}]
  BY DEF LoadRules
<1> DEFINE x == scans[s]
           y == [x EXCEPT !.pc = "reading", !.listed = listed,
                          !.own = IF listed THEN Own(x.tenant) ELSE {}]
<1>2. x # Idle /\ x \in ScanRecord /\ x.pc = "rules"
  BY DEF LoadRules, OwedInv, ScansTyped, Idle
<1>3. Own(x.tenant) \subseteq Ids
  BY DEF Own, Stored
<1>4. /\ y \in ScanRecord
      /\ y.pc = "reading" /\ y.tenant = x.tenant /\ y.live = x.live /\ y.full = x.full
      /\ y.overtaken = x.overtaken /\ y.listed = listed
      /\ listed => y.own = Own(x.tenant)
  BY <1>2, <1>3 DEF ScanRecord
<1>5. scans' = [r \in Scans |-> IF r = s THEN y ELSE scans[r]]
  BY <1>1 DEF OwedInv, ScansTyped
<1> HIDE DEF x, y
<1>6. UNCHANGED <<rules, build, reader, checkpoint, handler, owed>>
  BY DEF LoadRules
<1>7. ScansTyped'
  BY <1>4, <1>5, <1>6 DEF OwedInv, ScansTyped
<1>8. HandlerOwns' /\ OwedStored' /\ NewRulesReachOldMail'
  BY <1>6, SameRows, SameHandler DEF OwedInv, OwedStored, NewRulesReachOldMail
<1>9. ScansMakeGood'
  <2> SUFFICES ASSUME NEW r \in Scans, scans'[r] # Idle, scans'[r].live PROVE MakesGood(r)'
    BY DEF ScansMakeGood
  <2>1. CASE r = s
    <3>1. scans'[r] = y
      BY <1>5, <2>1
    <3>2. x.tenant \in Tenants /\ owed[x.tenant] \subseteq Own(x.tenant)
      BY <1>2 DEF OwedInv, OwedStored, ScanRecord
    <3>3. ~x.full => owed[x.tenant] \subseteq x.overtaken
      <4>1. MakesGood(s)
        BY <1>2, <1>4, <2>1, <3>1 DEF OwedInv, ScansMakeGood, x
      <4> QED BY <1>2, <4>1 DEF MakesGood, x
    <3> QED BY <1>3, <1>4, <1>6, <3>1, <3>2, <3>3 DEF MakesGood, Settled
  <2>2. CASE r # s
    <3>1. scans'[r] = scans[r]
      BY <1>5, <2>2
    <3>2. MakesGood(r)
      BY <3>1 DEF OwedInv, ScansMakeGood
    <3> QED BY <1>6, <3>1, <3>2 DEF MakesGood, Settled
  <2> QED BY <2>1, <2>2
<1> QED BY <1>7, <1>8, <1>9 DEF OwedInv

\* A scan that saves its checkpoint has made good whatever was owed.
LEMMA IteratedKeeps ==
    ASSUME OwedInv, NEW s \in Scans, Iterated(s)
    PROVE  OwedInv'
<1> DEFINE x == scans[s]
           y == IF s = Daemon /\ x.live THEN [x EXCEPT !.full = FALSE] ELSE Idle
<1>1. x # Idle /\ x \in ScanRecord /\ x.pc = "reading" /\ x.tenant \in Tenants
  BY DEF Iterated, OwedInv, ScansTyped, Idle, ScanRecord
<1>2. /\ y # Idle => y \in ScanRecord
      /\ y # Idle => y.tenant = x.tenant /\ y.pc = "reading" /\ x.live
  BY <1>1 DEF ScanRecord
<1>3. scans' = [r \in Scans |-> IF r = s THEN y ELSE scans[r]]
  BY DEF Iterated, OwedInv, ScansTyped
<1>4. UNCHANGED <<rules, build, reader, handler>>
  BY DEF Iterated
<1> HIDE DEF y
<1>5. x.live => owed[x.tenant] \subseteq Settled(s)
  BY <1>1 DEF OwedInv, ScansMakeGood, MakesGood
<1>6. CASE x.live
  <2>1. /\ checkpoint' = checkpoint \cup {x.tenant}
        /\ owed' = [owed EXCEPT ![x.tenant] = @ \ Settled(s)]
    BY <1>6 DEF Iterated, OnCheckpoint
  <2>2. owed' = [t \in Tenants |-> IF t = x.tenant THEN {} ELSE owed[t]]
    <3>1. owed = [t \in Tenants |-> owed[t]]
      BY DEF OwedInv, OwedStored
    <3>2. owed[x.tenant] \ Settled(s) = {}
      BY <1>5, <1>6
    <3> HIDE DEF x
    <3> QED BY <1>1, <2>1, <3>1, <3>2
  <2> HIDE DEF x
  <2>3. ScansTyped'
    BY <1>2, <1>3, <1>4 DEF OwedInv, ScansTyped
  <2>4. HandlerOwns' /\ OwedStored'
    BY <1>4, <2>2, SameRows, SameHandler DEF OwedInv, OwedStored
  <2>5. NewRulesReachOldMail'
    BY <2>1, <2>2 DEF OwedInv, NewRulesReachOldMail
  <2>6. ScansMakeGood'
    <3> SUFFICES ASSUME NEW r \in Scans, scans'[r] # Idle, scans'[r].live PROVE MakesGood(r)'
      BY DEF ScansMakeGood
    <3>1. CASE r = s
      BY <1>1, <1>2, <1>3, <2>2, <3>1 DEF MakesGood
    <3>2. CASE r # s
      <4>1. scans'[r] = scans[r]
        BY <1>3, <3>2
      <4>2. MakesGood(r) /\ scans[r].tenant \in Tenants
        BY <4>1 DEF OwedInv, ScansMakeGood, ScansTyped, ScanRecord
      <4>3. owed'[scans[r].tenant] \subseteq owed[scans[r].tenant]
        BY <2>2, <4>2
      <4>4. Settled(r)' = Settled(r)
        BY <4>1 DEF Settled
      <4> QED BY <4>1, <4>2, <4>3, <4>4 DEF MakesGood
    <3> QED BY <3>1, <3>2
  <2> QED BY <2>3, <2>4, <2>5, <2>6 DEF OwedInv
<1>7. CASE ~x.live
  <2>1. UNCHANGED <<checkpoint, owed>>
    BY <1>7 DEF Iterated, OnCheckpoint
  <2>2. y = Idle
    BY <1>7 DEF y
  <2> HIDE DEF x
  <2>3. ScansTyped'
    BY <1>2, <1>3, <1>4 DEF OwedInv, ScansTyped
  <2>4. HandlerOwns' /\ OwedStored' /\ NewRulesReachOldMail'
    BY <1>4, <2>1, SameRows, SameHandler DEF OwedInv, OwedStored, NewRulesReachOldMail
  <2>5. ScansMakeGood'
    BY <1>3, <2>1, <2>2 DEF OwedInv, ScansMakeGood, MakesGood, Settled
  <2> QED BY <2>3, <2>4, <2>5 DEF OwedInv
<1> QED BY <1>6, <1>7

LEMMA EndKeeps ==
    ASSUME OwedInv, NEW s \in Scans, EndScan(s)
    PROVE  OwedInv'
<1>1. /\ scans' = [r \in Scans |-> IF r = s THEN Idle ELSE scans[r]]
      /\ UNCHANGED <<rules, build, reader, checkpoint, handler, owed>>
  BY DEF EndScan, OwedInv, ScansTyped
<1>2. ScansTyped'
  BY <1>1 DEF OwedInv, ScansTyped
<1>3. HandlerOwns' /\ OwedStored' /\ NewRulesReachOldMail'
  BY <1>1, SameRows, SameHandler DEF OwedInv, OwedStored, NewRulesReachOldMail
<1>4. ScansMakeGood'
  BY <1>1 DEF OwedInv, ScansMakeGood, MakesGood, Settled
<1> QED BY <1>2, <1>3, <1>4 DEF OwedInv

-----------------------------------------------------------------------------
\* A handler that clears the checkpoint leaves its rule behind with every scan of
\* the tenant that is under way.
LEMMA ClearKeeps ==
    ASSUME OwedInv, ClearCheckpoint
    PROVE  OwedInv'
<1> DEFINE t == handler.tenant
           i == handler.id
           x(s) == IF scans[s] # Idle /\ scans[s].tenant = t
                   THEN [scans[s] EXCEPT !.overtaken = @ \cup {i}] ELSE scans[s]
<1>1. /\ handler.pc = "clear" /\ handler \in HandlerRecord /\ i \in Own(t)
      /\ t \in Tenants /\ i \in Ids
  BY DEF ClearCheckpoint, OwedInv, HandlerOwns, HandlerRecord, Idle
<1>2. /\ handler' = [handler EXCEPT !.pc = "restart"]
      /\ checkpoint' = checkpoint \ {t}
      /\ UNCHANGED <<rules, build, reader, queued>>
      /\ scans' = [s \in Scans |-> x(s)]
  BY DEF ClearCheckpoint, Handle
<1>3. owed' = [u \in Tenants |-> IF u = t THEN owed[t] \cup {i} ELSE owed[u]]
  <2>1. {i} \cap Stored = {i}
    BY <1>1 DEF Own
  <2>2. owed' = [owed EXCEPT ![t] = @ \cup {i}]
    BY <2>1 DEF ClearCheckpoint
  <2> HIDE DEF t, i
  <2> QED BY <2>2 DEF OwedInv, OwedStored
<1>4. HandlerOwns'
  BY <1>1, <1>2 DEF HandlerOwns, HandlerRecord
<1>5. ASSUME NEW s \in Scans, scans[s] # Idle
      PROVE  /\ scans[s] \in ScanRecord /\ x(s) \in ScanRecord
             /\ x(s).pc = scans[s].pc /\ x(s).tenant = scans[s].tenant
             /\ x(s).live = scans[s].live /\ x(s).full = scans[s].full
             /\ x(s).own = scans[s].own /\ x(s).listed = scans[s].listed
             /\ x(s).overtaken = IF scans[s].tenant = t THEN scans[s].overtaken \cup {i}
                                 ELSE scans[s].overtaken
  BY <1>1, <1>5 DEF OwedInv, ScansTyped, ScanRecord
<1>6. \A s \in Scans : scans[s] = Idle => x(s) = Idle
  OBVIOUS
<1> HIDE DEF t, i, x
<1>7. ScansTyped'
  BY <1>2, <1>5, <1>6 DEF OwedInv, ScansTyped
<1>8. OwedStored' /\ NewRulesReachOldMail'
  BY <1>1, <1>2, <1>3, SameRows DEF OwedInv, OwedStored, NewRulesReachOldMail
<1>9. ScansMakeGood'
  <2> SUFFICES ASSUME NEW s \in Scans, scans'[s] # Idle, scans'[s].live PROVE MakesGood(s)'
    BY DEF ScansMakeGood
  <2>1. scans'[s] = x(s) /\ scans[s] # Idle
    BY <1>2, <1>6
  <2>2. scans[s].live /\ MakesGood(s) /\ scans[s].tenant \in Tenants
    BY <1>5, <2>1 DEF OwedInv, ScansMakeGood, ScanRecord
  <2>3. CASE scans[s].tenant = t
    <3>1. owed'[t] = owed[t] \cup {i} /\ x(s).overtaken = scans[s].overtaken \cup {i}
      BY <1>1, <1>3, <1>5, <2>1, <2>3
    <3> QED BY <1>5, <2>1, <2>2, <2>3, <3>1 DEF MakesGood, Settled
  <2>4. CASE scans[s].tenant # t
    BY <1>3, <1>5, <2>1, <2>2, <2>4 DEF MakesGood, Settled
  <2> QED BY <2>3, <2>4
<1> QED BY <1>4, <1>7, <1>8, <1>9 DEF OwedInv

LEMMA RestartKeeps ==
    ASSUME OwedInv, RestartDaemon
    PROVE  OwedInv'
<1>1. /\ handler' = Idle
      /\ UNCHANGED <<rules, build, reader, checkpoint, owed>>
  BY DEF RestartDaemon
<1>2. HandlerOwns' /\ OwedStored' /\ NewRulesReachOldMail'
  BY <1>1, SameRows DEF OwedInv, HandlerOwns, OwedStored, NewRulesReachOldMail
<1>3. CASE scans[Daemon] = Idle
  <2>1. UNCHANGED scans
    BY <1>3 DEF RestartDaemon
  <2>2. ScansTyped' /\ ScansMakeGood'
    BY <1>1, <2>1 DEF OwedInv, ScansTyped, ScansMakeGood, MakesGood, Settled
  <2> QED BY <1>2, <2>2 DEF OwedInv
<1>4. CASE scans[Daemon] # Idle
  <2> DEFINE y == [scans[Daemon] EXCEPT !.live = FALSE]
  <2>1. scans' = [s \in Scans |-> IF s = Daemon THEN y ELSE scans[s]]
    BY <1>4 DEF RestartDaemon, OwedInv, ScansTyped
  <2>2. y \in ScanRecord /\ ~y.live
    BY <1>4 DEF OwedInv, ScansTyped, ScanRecord, Scans
  <2> HIDE DEF y
  <2>3. ScansTyped'
    BY <1>1, <2>1, <2>2 DEF OwedInv, ScansTyped
  <2>4. ScansMakeGood'
    BY <1>1, <2>1, <2>2 DEF OwedInv, ScansMakeGood, MakesGood, Settled
  <2> QED BY <1>2, <2>3, <2>4 DEF OwedInv
<1> QED BY <1>3, <1>4

\* The row that is deleted is owed to nobody: its owner no longer has it, and
\* nobody else had it.
LEMMA DeleteKeeps ==
    ASSUME OwedInv, TableInv, Delete
    PROVE  OwedInv'
<1> DEFINE t == handler.tenant
           i == handler.id
<1>1. i \in Own(t) /\ t \in Tenants
  BY DEF Delete, OwedInv, HandlerOwns, HandlerRecord, Idle
<1>2. /\ handler' = Idle
      /\ rules' = [rules EXCEPT ![i] = None]
      /\ UNCHANGED <<build, reader, queued, checkpoint, scans>>
      /\ owed' = [owed EXCEPT ![t] = @ \ {i}]
  BY DEF Delete, Handle
<1> HIDE DEF t, i
<1>3. owed' = [u \in Tenants |-> IF u = t THEN owed[t] \ {i} ELSE owed[u]]
  BY <1>2 DEF OwedInv, OwedStored
<1>4. rules' = [k \in Ids |-> IF k = i THEN None ELSE rules[k]]
  BY <1>2 DEF TableInv, IsTable
<1>5. \A u \in Tenants : Own(u) \ {i} \subseteq Own(u)'
  BY <1>4 DEF Own, Stored
<1>6. \A u \in Tenants \ {t} : i \notin Own(u)
  BY <1>1 DEF Own
<1>7. OwedStored'
  BY <1>3, <1>5, <1>6 DEF OwedInv, OwedStored
<1>8. HandlerOwns' /\ ScansTyped'
  BY <1>2 DEF OwedInv, HandlerOwns, ScansTyped
<1>9. \A u \in Tenants : owed'[u] \subseteq owed[u]
  BY <1>3
<1>10. NewRulesReachOldMail'
  BY <1>2, <1>9 DEF OwedInv, NewRulesReachOldMail
<1>11. ScansMakeGood'
  <2> SUFFICES ASSUME NEW s \in Scans, scans'[s] # Idle, scans'[s].live PROVE MakesGood(s)'
    BY DEF ScansMakeGood
  <2>1. scans[s].tenant \in Tenants /\ MakesGood(s)
    BY <1>2 DEF OwedInv, ScansMakeGood, ScansTyped, ScanRecord
  <2> QED BY <1>2, <1>9, <2>1 DEF MakesGood, Settled
<1> QED BY <1>7, <1>8, <1>10, <1>11 DEF OwedInv

LEMMA UpgradeKeeps ==
    ASSUME OwedInv, Upgrade, Grows(rules, rules')
    PROVE  OwedInv'
<1>1. /\ scans' = [s \in Scans |-> Idle] /\ handler' = Idle
      /\ UNCHANGED <<reader, checkpoint, owed>>
  BY DEF Upgrade
<1>2. ScansTyped' /\ ScansMakeGood' /\ HandlerOwns'
  BY <1>1 DEF OwedInv, ScansTyped, ScansMakeGood, HandlerOwns
<1>3. OwedStored' /\ NewRulesReachOldMail'
  BY <1>1, OwnGrows DEF OwedInv, OwedStored, NewRulesReachOldMail
<1> QED BY <1>2, <1>3 DEF OwedInv

\* A request gets to work on a row that its tenant has just created or still has.
LEMMA RequestKeeps ==
    ASSUME OwedInv, TableInv, NEW t \in Tenants, Grows(rules, rules'),
           \/ \E b \in Bodies : CreateRule(t, b)
           \/ \E i \in Ids, b \in Bodies : UpdateRule(t, i, b)
           \/ \E i \in Ids : DeleteRule(t, i)
           \/ \E doc \in Documents : ImportRules(t, doc)
           \/ SetReader(t)
    PROVE  OwedInv'
<1>1. \A u \in Tenants : Own(u) \subseteq Own(u)'
  BY OwnGrows
<1>2. ASSUME NEW b \in Bodies, CreateRule(t, b) PROVE OwedInv'
  <2> DEFINE i == FreeKey(rules)
  <2>1. /\ handler' = [pc |-> "state", tenant |-> t, id |-> i]
        /\ UNCHANGED <<scans, owed, reader, checkpoint>>
    BY <1>2 DEF CreateRule, Handle
  <2>2. i \in Ids /\ rules'[i] # None /\ rules'[i].tenant = t
    BY <1>2, InsertGrows DEF CreateRule, TableInv
  <2>3. HandlerOwns'
    BY <2>1, <2>2 DEF HandlerOwns, HandlerRecord, Own, Stored
  <2> QED BY <1>1, <2>1, <2>3, SameScans DEF OwedInv
<1>3. ASSUME NEW i \in Ids, DeleteRule(t, i) PROVE OwedInv'
  <2>1. /\ i \in Own(t)
        /\ handler' = [pc |-> "delete", tenant |-> t, id |-> i]
        /\ UNCHANGED <<scans, owed, reader, checkpoint>>
    BY <1>3 DEF DeleteRule, Handle
  <2>2. HandlerOwns'
    BY <1>1, <2>1 DEF HandlerOwns, HandlerRecord
  <2> QED BY <1>1, <2>1, <2>2, SameScans DEF OwedInv
<1>4. ASSUME \/ \E i \in Ids, b \in Bodies : UpdateRule(t, i, b)
             \/ \E doc \in Documents : ImportRules(t, doc)
      PROVE  OwedInv'
  <2>1. UNCHANGED <<scans, owed, reader, checkpoint, handler>>
    BY <1>4 DEF UpdateRule, ImportRules
  <2> QED BY <1>1, <2>1, SameScans, SameHandler DEF OwedInv
<1>5. ASSUME SetReader(t) PROVE OwedInv'
  <2>1. reader' \subseteq Tenants /\ UNCHANGED <<rules, scans, owed, checkpoint, handler>>
    BY <1>5, TenantAssumption DEF SetReader, OwedInv, ScansTyped
  <2>2. ScansTyped'
    BY <2>1 DEF OwedInv, ScansTyped
  <2>3. HandlerOwns' /\ OwedStored' /\ NewRulesReachOldMail'
    BY <1>1, <2>1, SameHandler DEF OwedInv, OwedStored, NewRulesReachOldMail
  <2>4. ScansMakeGood'
    BY <2>1 DEF OwedInv, ScansMakeGood, MakesGood, Settled
  <2> QED BY <2>2, <2>3, <2>4 DEF OwedInv
<1> QED BY <1>2, <1>3, <1>4, <1>5

LEMMA OwedStep ==
    ASSUME TableInv, OwedInv, [RulesNext]_ruleVars
    PROVE  OwedInv'
<1>1. CASE UNCHANGED ruleVars
  <2>1. \A t \in Tenants : Own(t) \subseteq Own(t)'
    BY <1>1, SameRows DEF ruleVars
  <2> QED BY <1>1, <2>1, SameScans, SameHandler DEF ruleVars, OwedInv
<1>2. CASE ScanStep
  <2>1. ASSUME NEW t \in Tenants, BeginScheduled(t) PROVE OwedInv'
    BY <2>1, BeginKeeps DEF BeginScheduled, Scans
  <2>2. ASSUME NEW t \in Tenants, NEW forced \in BOOLEAN, BeginDaemon(t, forced) PROVE OwedInv'
    BY <2>2, BeginKeeps DEF BeginDaemon, Scans
  <2> QED BY <1>2, <2>1, <2>2, LoadKeeps, IteratedKeeps, EndKeeps DEF ScanStep
<1>3. ASSUME \/ ReadActiveReader \/ ClearFails
      PROVE  OwedInv'
  <2>1. UNCHANGED <<rules, scans, owed, reader, checkpoint>>
    BY <1>3 DEF ReadActiveReader, ClearFails, Handle
  <2>2. \/ handler' = Idle
        \/ handler.pc = "state" /\ handler' = [handler EXCEPT !.pc = "clear"]
    BY <1>3 DEF ReadActiveReader, ClearFails, Handle
  <2>3. HandlerOwns'
    BY <2>1, <2>2, SameRows DEF OwedInv, HandlerOwns, HandlerRecord, Idle
  <2> QED BY <2>1, <2>3, SameRows, SameScans DEF OwedInv
<1>4. CASE HandlerStep
  BY <1>3, <1>4, ClearKeeps, RestartKeeps, DeleteKeeps DEF HandlerStep
<1>5. CASE RuleRequest
  <2>1. Grows(rules, rules')
    <3>1. ~Delete
      BY <1>5 DEF RuleRequest, CreateRule, UpdateRule, DeleteRule, ImportRules, SetReader,
                  Delete, Handle, Idle
    <3> QED BY <3>1, TableStep
  <2> QED BY <1>5, <2>1, RequestKeeps DEF RuleRequest
<1>6. CASE Upgrade
  <2>1. Delete \/ Grows(rules, rules')
    BY TableStep
  <2> QED BY <1>6, <2>1, DeleteKeeps, UpgradeKeeps
<1> QED BY <1>1, <1>2, <1>4, <1>5, <1>6 DEF RulesNext

\* A rule created while mail had been scanned is tried on all of it, by the scan
\* that makes good what is owed before any checkpoint comes back.
THEOREM NewRulesReach == RulesSpec => []NewRulesReachOldMail
<1>1. RulesInit => OwedInv
  BY OwedInit
<1>2. TableInv /\ OwedInv /\ [RulesNext]_ruleVars => OwedInv'
  BY OwedStep
<1>3. OwedInv => NewRulesReachOldMail
  BY DEF OwedInv
<1> QED BY <1>1, <1>2, <1>3, TableHolds, PTL DEF RulesSpec

-----------------------------------------------------------------------------
\* A finite set, as a sequence: each member once.
LEMMA SequenceOfSet ==
    ASSUME NEW S, IsFiniteSet(S)
    PROVE  /\ SetToSeq(S) \in Seq(S) /\ Len(SetToSeq(S)) = Cardinality(S)
           /\ \A j, k \in DOMAIN SetToSeq(S) : SetToSeq(S)[j] = SetToSeq(S)[k] => j = k
           /\ ToSet(SetToSeq(S)) = S
<1> DEFINE n == Cardinality(S)
           f == SetToSeq(S)
<1>1. n \in Nat /\ ExistsBijection(1..n, S)
  BY FS_CardinalityType
<1>2. \E g \in [1..n -> S] : IsInjective(g)
  BY <1>1 DEF ExistsBijection, Bijection, Injection
<1>3. f \in [1..n -> S] /\ IsInjective(f)
  BY <1>2 DEF SetToSeq
<1> HIDE DEF n, f
<1>4. f \in Seq(S)
  BY <1>1, <1>3, SeqDef
<1>5. f \in Injection(1..n, S)
  BY <1>3 DEF Injection
<1>6. Cardinality(1..n) = n
  BY <1>1, FS_Interval
<1>7. f \in Surjection(1..n, S)
  BY <1>5, <1>6, FS_Injection DEF n
<1>8. ToSet(f) = S
  BY <1>3, <1>7 DEF ToSet, Surjection
<1>9. Len(f) = n
  BY <1>1, <1>3, <1>4, LenProperties
<1> QED BY <1>3, <1>4, <1>8, <1>9 DEF IsInjective, f, n

LEMMA ImageIsFinite ==
    ASSUME NEW t
    PROVE  IsFiniteSet({Extract(rules[i]) : i \in Usable(t)})
<1> DEFINE T == {Extract(rules[i]) : i \in Usable(t)}
           f == [i \in Usable(t) |-> Extract(rules[i])]
<1>1. IsFiniteSet(Usable(t))
  BY IdAssumption, FS_Subset DEF Usable, Own, Stored
<1>2. f \in Surjection(Usable(t), T)
  BY DEF Surjection
<1> QED BY <1>1, <1>2, FS_Surjection

\* One rule per name.
OnePerName(rs) == \A j, k \in DOMAIN rs : rs[j].name = rs[k].name => j = k

\* What a tenant's scan lists are the tenant's rows that compile, one per name.
LEMMA ListedRules ==
    ASSUME TableInv, NEW t \in Tenants
    PROVE  LET own == {Extract(rules[i]) : i \in Usable(t)}
           IN /\ LoadPersisted(t) \in Seq(own)
              /\ ToSet(LoadPersisted(t)) = own
              /\ OnePerName(LoadPersisted(t))
<1> DEFINE own == {Extract(rules[i]) : i \in Usable(t)}
           listed == {Extract(r) : r \in {q \in ListRules(t) :
                                          q.tenant # System /\ compilePersisted(q)}}
<1>1. listed = own
  <2>1. {q \in ListRules(t) : q.tenant # System /\ compilePersisted(q)}
          = {rules[i] : i \in Usable(t)}
    BY TenantAssumption DEF ListRules, Rows, Usable, Own, Stored, compilePersisted
  <2> QED BY <2>1
<1>2. \A i, j \in Usable(t) : rules[i].name = rules[j].name => i = j
  BY DEF TableInv, OneRowPerName, Usable, Own, Stored
<1>3. \A r : Extract(r).name = r.name
  BY DEF Extract
<1>4. \A q, r \in own : q.name = r.name => q = r
  BY <1>2, <1>3
<1> HIDE DEF own
<1>5. LoadPersisted(t) = SetToSeq(own)
  BY <1>1 DEF LoadPersisted
<1>6. IsFiniteSet(own)
  BY ImageIsFinite DEF own
<1>7. /\ SetToSeq(own) \in Seq(own)
      /\ \A j, k \in DOMAIN SetToSeq(own) : SetToSeq(own)[j] = SetToSeq(own)[k] => j = k
      /\ ToSet(SetToSeq(own)) = own
  BY <1>6, SequenceOfSet
<1>8. OnePerName(SetToSeq(own))
  BY <1>4, <1>7 DEF OnePerName, ToSet
<1> QED BY <1>5, <1>7, <1>8 DEF own

\* Merging keeps one rule per name: the user's where there is one.
LEMMA Merged ==
    ASSUME NEW system, IsSequence(system), OnePerName(system),
           NEW own, IsFiniteSet(own), NEW user \in Seq(own), ToSet(user) = own, OnePerName(user)
    PROVE  /\ OnePerName(MergeRules(system, user))
           /\ ToSet(MergeRules(system, user)) =
                own \cup {r \in ToSet(system) : r.name \notin {q.name : q \in own}}
<1> DEFINE Named(r, q) == q.name = r.name
           Override(r) == IF \E k \in DOMAIN user : Named(r, user[k])
                          THEN user[CHOOSE k \in DOMAIN user : Named(r, user[k])] ELSE r
           f == [k \in DOMAIN system |-> Override(system[k])]
           rest == {q \in ToSet(user) : \A k \in DOMAIN system : ~Named(q, system[k])}
           g == SetToSeq(rest)
           used == MergeRules(system, user)
           N == Len(system)
           All == own \cup ToSet(system)
<1>1. N \in Nat /\ DOMAIN system = 1..N
  BY DEF IsSequence
<1>2. used = f \o g
  BY DEF MergeRules
<1>3. \A k \in 1..N :
        /\ f[k].name = system[k].name
        /\ \/ f[k] \in own
           \/ f[k] = system[k] /\ \A q \in own : q.name # system[k].name
  <2>1. /\ \A j \in DOMAIN user : user[j] \in own
        /\ \A q \in own : \E j \in DOMAIN user : user[j] = q
    BY DEF ToSet
  <2> SUFFICES ASSUME NEW k \in 1..N
               PROVE  /\ f[k].name = system[k].name
                      /\ \/ f[k] \in own
                         \/ f[k] = system[k] /\ \A q \in own : q.name # system[k].name
    OBVIOUS
  <2>2. f[k] = Override(system[k])
    BY <1>1
  <2> HIDE DEF f, N
  <2>3. CASE \E j \in DOMAIN user : Named(system[k], user[j])
    <3>1. PICK j \in DOMAIN user : Named(system[k], user[j]) /\ f[k] = user[j]
      BY <2>2, <2>3
    <3> QED BY <2>1, <3>1
  <2>4. CASE ~\E j \in DOMAIN user : Named(system[k], user[j])
    BY <2>1, <2>2, <2>4
  <2> QED BY <2>3, <2>4
<1>4. IsFiniteSet(rest) /\ rest \subseteq own
  BY FS_Subset
<1>5. /\ g \in Seq(rest)
      /\ \A j, k \in DOMAIN g : g[j] = g[k] => j = k
      /\ ToSet(g) = rest
  BY <1>4, SequenceOfSet
<1>6. \A q, r \in own : q.name = r.name => q = r
  BY DEF OnePerName, ToSet
<1>7. /\ \A q \in rest : q \in own /\ \A k \in 1..N : q.name # system[k].name
      /\ \A q \in own : q \in rest \/ \E k \in 1..N : system[k].name = q.name
  BY <1>1, <1>4
<1>8. f \in [1..N -> All]
  BY <1>1, <1>3 DEF ToSet
<1> HIDE DEF f, g, rest, used, N
<1>9. f \in Seq(All) /\ Len(f) = N
  <2>1. f \in Seq(All)
    BY <1>1, <1>8, SeqDef
  <2> QED BY <1>1, <1>8, <2>1, LenProperties
<1>10. g \in Seq(All)
  BY <1>4, <1>5, SeqDef
<1> DEFINE M == Len(g)
<1>11. M \in Nat /\ DOMAIN g = 1..M
  BY <1>10, LenProperties
<1> HIDE DEF M, All
<1>12. /\ DOMAIN used = 1..(N + M)
       /\ \A i \in 1..(N + M) : used[i] = IF i <= N THEN f[i] ELSE g[i - N]
  <2>1. /\ used \in Seq(All) /\ Len(used) = N + M
        /\ \A i \in 1..(N + M) : used[i] = IF i <= N THEN f[i] ELSE g[i - N]
    BY <1>2, <1>9, <1>10, ConcatProperties DEF M
  <2> QED BY <2>1, LenProperties
<1>13. \A i \in (N + 1)..(N + M) :
         i - N \in 1..M /\ used[i] = g[i - N] /\ g[i - N] \in rest
  BY <1>1, <1>5, <1>11, <1>12 DEF ToSet
<1>14. \A i \in 1..N : used[i] = f[i]
  BY <1>1, <1>11, <1>12
<1>15. OnePerName(used)
  <2> SUFFICES ASSUME NEW i \in 1..(N + M), NEW j \in 1..(N + M), used[i].name = used[j].name
               PROVE  i = j
    BY <1>12 DEF OnePerName
  <2>1. CASE i \in 1..N /\ j \in 1..N
    BY <1>1, <1>3, <1>14, <2>1 DEF OnePerName
  <2>2. CASE i \in 1..N /\ j \in (N + 1)..(N + M)
    BY <1>3, <1>7, <1>13, <1>14, <2>2
  <2>3. CASE i \in (N + 1)..(N + M) /\ j \in 1..N
    BY <1>3, <1>7, <1>13, <1>14, <2>3
  <2>4. CASE i \in (N + 1)..(N + M) /\ j \in (N + 1)..(N + M)
    <3>1. g[i - N] = g[j - N]
      BY <1>6, <1>7, <1>13, <2>4
    <3>2. i - N = j - N
      BY <1>5, <1>11, <1>13, <2>4, <3>1
    <3> QED BY <1>1, <1>11, <3>2
  <2> QED BY <1>1, <1>11, <2>1, <2>2, <2>3, <2>4
<1> DEFINE left == {r \in ToSet(system) : r.name \notin {q.name : q \in own}}
<1>16. ToSet(used) \subseteq own \cup left
  <2> SUFFICES ASSUME NEW i \in 1..(N + M) PROVE used[i] \in own \cup left
    BY <1>12 DEF ToSet
  <2>1. CASE i \in 1..N
    BY <1>1, <1>3, <1>14, <2>1 DEF ToSet
  <2>2. CASE i \in (N + 1)..(N + M)
    BY <1>7, <1>13, <2>2
  <2> QED BY <1>1, <1>11, <2>1, <2>2
<1>17. ASSUME NEW r \in own PROVE r \in ToSet(used)
  <2>1. CASE r \in rest
    <3>1. PICK k \in 1..M : g[k] = r
      BY <1>5, <1>11, <2>1 DEF ToSet
    <3>2. k + N \in 1..(N + M) /\ ~(k + N <= N) /\ (k + N) - N = k
      BY <1>1, <1>11
    <3> QED BY <1>12, <3>1, <3>2 DEF ToSet
  <2>2. CASE r \notin rest
    <3>1. PICK k \in 1..N : system[k].name = r.name
      BY <1>7, <2>2
    <3>2. f[k] = r
      BY <1>3, <1>6, <3>1
    <3>3. k \in DOMAIN used /\ used[k] = r
      BY <1>1, <1>11, <1>12, <1>14, <3>2
    <3> QED BY <3>3 DEF ToSet
  <2> QED BY <2>1, <2>2
<1>18. ASSUME NEW r \in left PROVE r \in ToSet(used)
  <2>1. PICK k \in 1..N : system[k] = r
    BY <1>1 DEF ToSet
  <2>2. f[k] = r
    BY <1>3, <2>1
  <2>3. k \in DOMAIN used /\ used[k] = r
    BY <1>1, <1>11, <1>12, <1>14, <2>2
  <2> QED BY <2>3 DEF ToSet
<1> QED BY <1>15, <1>16, <1>17, <1>18 DEF used

\* A scan extracts with one rule per name: the tenant's own that compiles, else that
\* of the binary that runs.
THEOREM ScansUseRules == RulesSpec => []ScansUseOwnRules
<1>1. ASSUME TableInv PROVE ScansUseOwnRules
  <2> SUFFICES ASSUME NEW t \in Tenants, NEW listed \in BOOLEAN
               PROVE  LET used == ScanRules(t, listed)
                          own == {Extract(rules[i]) : i \in IF listed THEN Usable(t) ELSE {}}
                      IN /\ OnePerName(used)
                         /\ ToSet(used) = own \cup {r \in ToSet(Embedded[build]) :
                                                      r.name \notin {q.name : q \in own}}
    BY DEF ScansUseOwnRules, OnePerName
  <2>1. IsSequence(Embedded[build]) /\ OnePerName(Embedded[build])
    BY <1>1, EmbeddedAssumption DEF TableInv, OnePerName, IsSequence
  <2> DEFINE own == {Extract(rules[i]) : i \in IF listed THEN Usable(t) ELSE {}}
             user == IF listed THEN LoadPersisted(t) ELSE <<>>
  <2>2. IsFiniteSet(own) /\ user \in Seq(own) /\ ToSet(user) = own /\ OnePerName(user)
    <3>1. CASE listed
      BY <1>1, <3>1, ListedRules, ImageIsFinite
    <3>2. CASE ~listed
      BY <3>2, FS_EmptySet DEF ToSet, OnePerName
    <3> QED BY <3>1, <3>2
  <2>3. ScanRules(t, listed) = MergeRules(Embedded[build], user)
    BY DEF ScanRules
  <2> HIDE DEF own, user
  <2>4. /\ OnePerName(MergeRules(Embedded[build], user))
        /\ ToSet(MergeRules(Embedded[build], user)) =
             own \cup {r \in ToSet(Embedded[build]) : r.name \notin {q.name : q \in own}}
    BY <2>1, <2>2, Merged
  <2> QED BY <2>3, <2>4 DEF own
<1> QED BY <1>1, TableHolds, PTL

\* A stored rule whose export can be imported.
Importable(r) ==
    /\ <<>> \notin {r.name, r.amount, r.merchant}
    /\ {r.amount, r.merchant} \subseteq Expressions

\* What is stored is a rule again when it is exported and imported.
LEMMA EntryOfRow ==
    ASSUME NEW r, IsRow(r), NEW u
    PROVE  LET e == ruleDocumentEntryFromRow(r)
           IN /\ Compiles(e) <=> Importable(r)
              /\ compileRule(e).name = r.name
              /\ Row(u, compileRule(e)) = [r EXCEPT !.tenant = u]
<1> DEFINE e == ruleDocumentEntryFromRow(r)
           x == compileRule(e)
<1>1. normalizedHTTPSenders(r.senders) = r.senders
  BY NormalStays DEF IsRow, IsRule
<1>2. e = [name |-> r.name, senders |-> r.senders, amount |-> r.amount,
           merchant |-> r.merchant, source |-> r.source, legacy |-> <<>>]
  BY <1>1 DEF ruleDocumentEntryFromRow
<1>3. Trim(r.name) = r.name /\ Trim(r.amount) = r.amount /\ Trim(r.merchant) = r.merchant
  BY DEF IsRow, IsRule
<1> HIDE DEF e
<1>4. Compiles(e) <=> Importable(r)
  BY <1>1, <1>2, <1>3 DEF Compiles, Importable, IsRow, IsRule
<1>5. (IF e.source = NoSource THEN splitLegacySource(Trim(e.legacy)) ELSE e.source) = r.source
  <2>1. Trim(<<>>) = <<>>
    BY DEF Trim
  <2>2. splitLegacySource(<<>>) = NoSource
    <3> DEFINE separates == CHOOSE f : f = [k \in DOMAIN <<>> |->
                              k > 1 /\ k < Len(<<>>) /\ <<>>[k] = Dash /\ ~f[k - 1]]
               dashes == {k \in DOMAIN <<>> : separates[k]}
    <3>1. dashes = {}
      OBVIOUS
    <3>2. Cardinality(dashes) # 1
      BY <3>1, FS_EmptySet
    <3> QED BY <3>2 DEF splitLegacySource, NoSource
  <2> QED BY <1>2, <2>1, <2>2
<1>6. x = [name |-> r.name, senders |-> r.senders, amount |-> r.amount,
           merchant |-> r.merchant, source |-> r.source]
  BY <1>1, <1>2, <1>3, <1>5 DEF compileRule
<1> HIDE DEF x
<1>7. [x.source EXCEPT !.label = FirstOf(@, Display(x.source))] = r.source
  <2>1. r.source = [type |-> r.source.type, label |-> r.source.label, bank |-> r.source.bank]
    BY DEF IsRow, IsRule, Source
  <2>2. FirstOf(r.source.label, Display(r.source)) = r.source.label
    BY DEF FirstOf, IsRow
  <2> QED BY <1>6, <2>1, <2>2
<1>8. Row(u, x) = [tenant |-> u, name |-> r.name, senders |-> r.senders, amount |-> r.amount,
                   merchant |-> r.merchant, source |-> r.source]
  BY <1>6, <1>7 DEF Row
<1>9. [r EXCEPT !.tenant = u] =
        [tenant |-> u, name |-> r.name, senders |-> r.senders, amount |-> r.amount,
         merchant |-> r.merchant, source |-> r.source]
  BY DEF IsRow
<1> QED BY <1>4, <1>6, <1>8, <1>9 DEF e, x

-----------------------------------------------------------------------------
\* A statement stores nothing but the row of its rule.
Stores(a, b, r) == \A i \in Ids : b[i] = a[i] \/ b[i] = r

LEMMA InsertStores ==
    ASSUME NEW table, IsTable(table), NEW t, NEW r
    PROVE  Stores(table, Insert(table, t, r), Row(t, r))
BY DEF Stores, Insert, IsTable

LEMMA UpsertStores ==
    ASSUME NEW table, IsTable(table), NEW t, NEW r
    PROVE  Stores(table, Upsert(table, t, r), Row(t, r))
BY InsertStores DEF Stores, Upsert, IsTable

LEMMA InsertMissingStores ==
    ASSUME NEW table, IsTable(table), NEW t, NEW r
    PROVE  Stores(table, InsertMissing(table, t, r), Row(t, r))
BY InsertStores DEF Stores, InsertMissing, IsTable

LEMMA ManyStored ==
    ASSUME NEW f, NEW N \in Nat, IsTable(f[0]), RowsNormal(f[0]), NEW t, NEW rs,
           \A n \in 1..N : Stores(f[n - 1], f[n], Row(t, rs[n])),
           t # System => \A n \in 1..N : IsRule(rs[n])
    PROVE  RowsNormal(f[N])
<1> DEFINE S == {n \in 0..N : RowsNormal(f[n])}
<1>1. ASSUME NEW n \in 1..N, RowsNormal(f[n - 1]) PROVE RowsNormal(f[n])
  <2>1. t # System => IsRow(Row(t, rs[n]))
    BY StoredRule
  <2>2. Row(t, rs[n]).tenant = t
    BY DEF Row
  <2> QED BY <1>1, <2>1, <2>2 DEF Stores, RowsNormal
<1>2. 0 \in S /\ \A n \in 1..N : n - 1 \in S => n \in S
  BY <1>1
<1> HIDE DEF S
<1>3. N \in S
  BY <1>2, UpTo
<1> QED BY <1>3 DEF S

LEMMA ImportNormal ==
    ASSUME NEW table, IsTable(table), RowsNormal(table), NEW t \in Tenants,
           NEW doc \in Documents, Valid(doc)
    PROVE  RowsNormal(ImportUserRules(table, t, ParseDocument(doc)))
<1> DEFINE rs == ParseDocument(doc)
           N == Len(rs)
<1>1. N \in Nat /\ DOMAIN rs = 1..N /\ \A k \in DOMAIN rs : Fits(t, rs[k])
  BY DocumentFits DEF IsSequence
<1>2. \A k \in 1..N : IsRule(rs[k])
  BY <1>1, DocumentRules DEF ParseDocument
<1> HIDE DEF rs
<1>3. PICK f : Imports(f, table, t, rs) /\ ImportUserRules(table, t, rs) = f[N]
  BY <1>1, ImportTables
<1> HIDE DEF N
<1>4. f[0] = table /\ \A n \in 1..N : f[n] = Upsert(f[n - 1], t, rs[n])
  BY <1>1, <1>3 DEF N, Imports
<1> DEFINE S == {n \in 0..N : IsTable(f[n])}
<1>5. \A n \in 0..N : n \in S
  <2>1. \A n \in 1..N : n - 1 \in S => n \in S
    BY <1>1, <1>4, UpsertStatement DEF Statement
  <2>2. 0 \in S
    BY <1>1, <1>4
  <2> HIDE DEF S
  <2> QED BY <1>1, <2>1, <2>2, UpTo
<1>6. \A n \in 1..N : Stores(f[n - 1], f[n], Row(t, rs[n]))
  BY <1>1, <1>4, <1>5, UpsertStores
<1> QED BY <1>1, <1>2, <1>3, <1>4, <1>6, ManyStored DEF rs

LEMMA SeedNormal ==
    ASSUME NEW table, IsTable(table), RowsNormal(table), NEW b \in DOMAIN Embedded
    PROVE  RowsNormal(SeedPredefinedRules(table, Embedded[b]))
<1> DEFINE rs == Embedded[b]
           N == Len(rs)
<1>1. N \in Nat /\ DOMAIN rs = 1..N /\ \A k \in DOMAIN rs : Fits(System, rs[k])
  BY BuildFits DEF IsSequence
<1> HIDE DEF rs
<1>2. PICK f : Seeds(f, table, rs) /\ SeedPredefinedRules(table, rs) = f[N]
  BY <1>1, SeedTables
<1> HIDE DEF N
<1>3. f[0] = table /\ \A n \in 1..N : f[n] = InsertMissing(f[n - 1], System, rs[n])
  BY <1>1, <1>2 DEF N, Seeds
<1> DEFINE S == {n \in 0..N : IsTable(f[n])}
<1>4. \A n \in 0..N : n \in S
  <2>1. \A n \in 1..N : n - 1 \in S => n \in S
    BY <1>1, <1>3, InsertMissingStatement DEF Statement
  <2>2. 0 \in S
    BY <1>1, <1>3
  <2> HIDE DEF S
  <2> QED BY <1>1, <2>1, <2>2, UpTo
<1>5. \A n \in 1..N : Stores(f[n - 1], f[n], Row(System, rs[n]))
  BY <1>1, <1>3, <1>4, InsertMissingStores
<1> QED BY <1>1, <1>2, <1>3, <1>5, ManyStored DEF rs

LEMMA RowsInit ==
    ASSUME RulesInit
    PROVE  RowsNormal(rules)
<1> DEFINE empty == [i \in Ids |-> None]
<1>1. rules = SeedPredefinedRules(empty, Embedded[1]) /\ 1 \in DOMAIN Embedded
  BY EmbeddedAssumption DEF RulesInit
<1>2. IsTable(empty) /\ RowsNormal(empty)
  BY DEF IsTable, RowsNormal
<1> QED BY <1>1, <1>2, SeedNormal

LEMMA RowsStep ==
    ASSUME TableInv, RowsNormal(rules), [RulesNext]_ruleVars
    PROVE  RowsNormal(rules')
<1> DEFINE Kept == RowsNormal(rules')
<1>1. IsTable(rules)
  BY DEF TableInv
<1>2. ASSUME UNCHANGED rules PROVE Kept
  BY <1>2 DEF RowsNormal
<1>3. ASSUME NEW r, Stores(rules, rules', r), IsRow(r) PROVE Kept
  BY <1>3 DEF Stores, RowsNormal
<1>4. ASSUME NEW t \in Tenants, NEW b \in Bodies PROVE IsRow(Row(t, ruleMutationToRow(b)))
  BY MutationIsRule, StoredRule
<1> HIDE DEF Kept
<1>5. ASSUME NEW t \in Tenants, NEW b \in Bodies, CreateRule(t, b) PROVE Kept
  BY <1>1, <1>3, <1>4, <1>5, InsertStores DEF CreateRule
<1>6. ASSUME NEW t \in Tenants, NEW i \in Ids, NEW b \in Bodies, UpdateRule(t, i, b) PROVE Kept
  <2>1. rules' = [rules EXCEPT ![i] = Row(t, ruleMutationToRow(b))]
    BY <1>6 DEF UpdateRule
  <2>2. Stores(rules, rules', Row(t, ruleMutationToRow(b)))
    BY <1>1, <2>1 DEF Stores, IsTable
  <2> QED BY <1>3, <1>4, <2>2
<1>7. ASSUME NEW t \in Tenants, NEW doc \in Documents, ImportRules(t, doc) PROVE Kept
  BY <1>1, <1>7, ImportNormal DEF ImportRules, Kept
<1>8. ASSUME Upgrade PROVE Kept
  BY <1>1, <1>8, SeedNormal DEF Upgrade, Kept
<1>9. ASSUME Delete PROVE Kept
  <2>1. rules' = [rules EXCEPT ![handler.id] = None]
    BY <1>9 DEF Delete
  <2>2. rules' = [i \in Ids |-> IF i = handler.id THEN None ELSE rules[i]]
    BY <1>1, <2>1 DEF IsTable
  <2> QED BY <2>2 DEF RowsNormal, Kept
<1>10. ASSUME ScanStep PROVE UNCHANGED rules
  BY <1>10 DEF ScanStep, BeginScheduled, BeginDaemon, BeginScan, LoadRules, Iterated, EndScan
<1>11. ASSUME HandlerStep, ~Delete PROVE UNCHANGED rules
  BY <1>11 DEF HandlerStep, ReadActiveReader, ClearCheckpoint, ClearFails, RestartDaemon, Handle
<1>12. ASSUME RuleRequest PROVE Kept
  <2> SUFFICES ASSUME NEW t \in Tenants,
                      \/ \E b \in Bodies : CreateRule(t, b)
                      \/ \E i \in Ids, b \in Bodies : UpdateRule(t, i, b)
                      \/ \E i \in Ids : DeleteRule(t, i)
                      \/ \E doc \in Documents : ImportRules(t, doc)
                      \/ SetReader(t)
               PROVE  Kept
    BY <1>12 DEF RuleRequest
  <2>1. ASSUME NEW i \in Ids, DeleteRule(t, i) PROVE UNCHANGED rules
    BY <2>1 DEF DeleteRule, Handle
  <2>2. ASSUME SetReader(t) PROVE UNCHANGED rules
    BY <2>2 DEF SetReader
  <2> QED BY <1>2, <1>5, <1>6, <1>7, <2>1, <2>2
<1>13. CASE UNCHANGED ruleVars
  BY <1>2, <1>13 DEF ruleVars
<1> QED BY <1>2, <1>8, <1>9, <1>10, <1>11, <1>12, <1>13 DEF RulesNext, Kept

-----------------------------------------------------------------------------
\* What an import leaves: the rules it brings, and the rows of the same owner that
\* they do not replace.
Replaces(t, rs, n, r) == r.tenant = t /\ \E k \in 1..n : rs[k].name = r.name

AllRows(table) == {table[i] : i \in Ids} \ {None}

LEMMA RowsOfTable ==
    ASSUME NEW table
    PROVE  Rows(table) = AllRows(table)
BY DEF Rows, AllRows

LEMMA UpsertRows ==
    ASSUME NEW table, IsTable(table), OneRowPerName(table), Free(table) # {},
           NEW t, NEW x, Fits(t, x)
    PROVE  Rows(Upsert(table, t, x)) =
             {Row(t, x)} \cup {r \in Rows(table) : ~(r.tenant = t /\ r.name = x.name)}
<1> DEFINE new == Upsert(table, t, x)
           row == Row(t, x)
           kept == {r \in AllRows(table) : ~(r.tenant = t /\ r.name = x.name)}
<1>1. PICK k \in Ids :
        /\ new = [table EXCEPT ![k] = row]
        /\ \A i \in Ids : table[i] # None => (table[i].tenant = t /\ table[i].name = x.name <=> i = k)
  <2>1. CASE Has(table, t, x.name)
    <3>1. PICK k \in Ids : table[k] # None /\ table[k].tenant = t /\ table[k].name = x.name
      BY <2>1 DEF Has, Rows
    <3>2. KeyOf(table, t, x.name) = k
      BY <3>1 DEF KeyOf, OneRowPerName
    <3>3. new = [table EXCEPT ![k] = row]
      BY <2>1, <3>2 DEF Upsert
    <3>4. \A i \in Ids : table[i] # None => (table[i].tenant = t /\ table[i].name = x.name <=> i = k)
      BY <3>1 DEF OneRowPerName
    <3> QED BY <3>3, <3>4
  <2>2. CASE ~Has(table, t, x.name)
    <3>1. FreeKey(table) \in Ids /\ table[FreeKey(table)] = None
      BY DEF FreeKey, Free
    <3>2. new = [table EXCEPT ![FreeKey(table)] = row]
      BY <2>2 DEF Upsert, Insert
    <3>3. \A i \in Ids : table[i] # None => ~(table[i].tenant = t /\ table[i].name = x.name)
      BY <2>2 DEF Has, Rows
    <3> HIDE DEF new
    <3> QED BY <3>1, <3>2, <3>3
  <2> QED BY <2>1, <2>2
<1>2. new = [i \in Ids |-> IF i = k THEN row ELSE table[i]]
  BY <1>1 DEF IsTable
<1>3. row # None
  BY DEF Fits
<1> HIDE DEF new, row
<1>4. ASSUME NEW r \in AllRows(new) PROVE r \in {row} \cup kept
  <2>1. PICK i \in Ids : r = new[i] /\ r # None
    BY DEF AllRows
  <2>2. i # k => r = table[i] /\ ~(r.tenant = t /\ r.name = x.name)
    BY <1>1, <1>2, <2>1
  <2> QED BY <1>2, <2>1, <2>2 DEF AllRows
<1>5. {row} \cup kept \subseteq AllRows(new)
  <2>1. row \in AllRows(new)
    BY <1>1, <1>2, <1>3 DEF AllRows
  <2>2. ASSUME NEW r \in kept PROVE r \in AllRows(new)
    <3>1. PICK i \in Ids : r = table[i]
      BY DEF AllRows
    <3>2. i # k /\ r # None
      BY <1>1, <3>1 DEF AllRows
    <3> QED BY <1>2, <3>1, <3>2 DEF AllRows
  <2> QED BY <2>1, <2>2
<1>6. Rows(new) = {row} \cup kept
  BY <1>4, <1>5, RowsOfTable
<1> QED BY <1>6, RowsOfTable DEF new, row

LEMMA ImportedRows ==
    ASSUME NEW table, IsTable(table), OneRowPerName(table),
           NEW t, NEW rs, IsSequence(rs), OnePerName(rs), \A k \in DOMAIN rs : Fits(t, rs[k]),
           Cardinality(Free(table)) >= Len(rs)
    PROVE  Rows(ImportUserRules(table, t, rs)) =
             {Row(t, rs[k]) : k \in 1..Len(rs)}
             \cup {r \in Rows(table) : ~Replaces(t, rs, Len(rs), r)}
<1> DEFINE N == Len(rs)
<1>1. N \in Nat /\ DOMAIN rs = 1..N
  BY DEF IsSequence
<1>2. PICK f : Imports(f, table, t, rs) /\ ImportUserRules(table, t, rs) = f[N]
  BY <1>1, ImportTables
<1> HIDE DEF N
<1>3. f[0] = table /\ \A n \in 1..N : f[n] = Upsert(f[n - 1], t, rs[n])
  BY <1>1, <1>2 DEF N, Imports
<1> DEFINE Now(n) == {Row(t, rs[k]) : k \in 1..n} \cup {r \in Rows(table) : ~Replaces(t, rs, n, r)}
           Good(n) == /\ IsTable(f[n]) /\ OneRowPerName(f[n])
                      /\ Cardinality(Free(f[n])) >= N - n
                      /\ Rows(f[n]) = Now(n)
           S == {n \in 0..N : Good(n)}
<1>4. Good(0)
  <2>1. Now(0) = Rows(table)
    BY DEF Replaces
  <2>2. Cardinality(Free(table)) >= N - 0
    BY <1>1 DEF N
  <2> QED BY <1>3, <2>1, <2>2
<1>5. ASSUME NEW n \in 1..N, Good(n - 1) PROVE Good(n)
  <2> DEFINE a == f[n - 1]
  <2>1. /\ IsTable(a) /\ OneRowPerName(a) /\ Rows(a) = Now(n - 1)
        /\ Cardinality(Free(a)) >= (N - n) + 1 /\ N - n \in Nat
    <3>1. Cardinality(Free(a)) >= N - (n - 1)
      BY <1>5
    <3>2. N - n \in Nat /\ N - (n - 1) = (N - n) + 1
      BY <1>1
    <3> QED BY <1>5, <3>1, <3>2
  <2> HIDE DEF Now, a
  <2>2. f[n] = Upsert(a, t, rs[n])
    BY <1>3 DEF a
  <2>3. Fits(t, rs[n])
    BY <1>1
  <2>4. /\ IsTable(f[n]) /\ OneRowPerName(f[n])
        /\ Cardinality(Free(f[n])) >= N - n
    BY <2>1, <2>2, <2>3, UpsertStatement DEF Statement
  <2>5. Free(a) # {}
    <3>1. Cardinality(Free(a)) # 0
      BY <2>1, FreeIsFinite
    <3> QED BY <3>1, FS_EmptySet
  <2>6. Rows(f[n]) = {Row(t, rs[n])} \cup {r \in Now(n - 1) : ~(r.tenant = t /\ r.name = rs[n].name)}
    BY <2>1, <2>2, <2>3, <2>5, UpsertRows
  <2>7. \A k \in 1..n : k \in 1..(n - 1) \/ k = n
    OBVIOUS
  <2>8. \A k \in 1..(n - 1) : k \in 1..n /\ Row(t, rs[k]).name # rs[n].name
    <3> SUFFICES ASSUME NEW k \in 1..(n - 1) PROVE k \in 1..n /\ Row(t, rs[k]).name # rs[n].name
      OBVIOUS
    <3>1. k \in DOMAIN rs /\ n \in DOMAIN rs /\ k # n
      BY <1>1
    <3>2. Row(t, rs[k]).name = rs[k].name
      BY <3>1 DEF Fits
    <3> QED BY <3>1, <3>2 DEF OnePerName
  <2>9. \A r : Replaces(t, rs, n, r) <=>
                 Replaces(t, rs, n - 1, r) \/ (r.tenant = t /\ r.name = rs[n].name)
    BY <2>7 DEF Replaces
  <2>10. Now(n) \subseteq Rows(f[n])
    BY <2>6, <2>7, <2>8, <2>9 DEF Now
  <2>11. Rows(f[n]) \subseteq Now(n)
    BY <2>6, <2>7, <2>8, <2>9 DEF Now
  <2> QED BY <2>4, <2>10, <2>11
<1> HIDE DEF Good
<1>6. N \in S
  <2>1. 0 \in S /\ \A n \in 1..N : n - 1 \in S => n \in S
    BY <1>1, <1>4, <1>5
  <2> HIDE DEF S
  <2> QED BY <1>1, <2>1, UpTo
<1> QED BY <1>2, <1>6 DEF N, Good

\* An import of what the table holds changes nothing.
LEMMA ImportedAgain ==
    ASSUME NEW table, IsTable(table), OneRowPerName(table), NEW t, NEW rs, IsSequence(rs),
           \A k \in DOMAIN rs : \E i \in Ids :
               /\ table[i] # None /\ table[i].tenant = t /\ table[i].name = rs[k].name
               /\ Row(t, rs[k]) = table[i]
    PROVE  ImportUserRules(table, t, rs) = table
<1> DEFINE N == Len(rs)
<1>1. N \in Nat /\ DOMAIN rs = 1..N
  BY DEF IsSequence
<1>2. PICK f : Imports(f, table, t, rs) /\ ImportUserRules(table, t, rs) = f[N]
  BY <1>1, ImportTables
<1> HIDE DEF N
<1>3. f[0] = table /\ \A n \in 1..N : f[n] = Upsert(f[n - 1], t, rs[n])
  BY <1>1, <1>2 DEF N, Imports
<1> DEFINE S == {n \in 0..N : f[n] = table}
<1>4. ASSUME NEW n \in 1..N PROVE Upsert(table, t, rs[n]) = table
  <2>1. PICK i \in Ids : /\ table[i] # None /\ table[i].tenant = t /\ table[i].name = rs[n].name
                         /\ Row(t, rs[n]) = table[i]
    BY <1>1
  <2>2. Has(table, t, rs[n].name) /\ KeyOf(table, t, rs[n].name) = i
    BY <2>1 DEF Has, Rows, KeyOf, OneRowPerName
  <2>3. Upsert(table, t, rs[n]) = [table EXCEPT ![i] = table[i]]
    BY <2>1, <2>2 DEF Upsert
  <2> QED BY <2>3 DEF IsTable
<1>5. 0 \in S /\ \A n \in 1..N : n - 1 \in S => n \in S
  BY <1>1, <1>3, <1>4
<1> HIDE DEF S
<1>6. N \in S
  BY <1>1, <1>5, UpTo
<1> QED BY <1>2, <1>6 DEF S

-----------------------------------------------------------------------------
\* What a tenant exports: an entry for each of its rows.
LEMMA Exported ==
    ASSUME TableInv, RowsNormal(rules), NEW t \in Tenants
    PROVE  LET own == {rules[i] : i \in Own(t)}
               doc == ExportRules(t)
           IN /\ \A r \in own : IsRow(r) /\ r.tenant = t
              /\ \A q, r \in own : q.name = r.name => q = r
              /\ Len(doc) \in Nat /\ DOMAIN doc = 1..Len(doc)
              /\ Len(doc) <= Cardinality(Ids) /\ Cardinality(Ids) \in Nat
              /\ \A j, k \in DOMAIN doc : doc[j] = doc[k] => j = k
              /\ \A k \in DOMAIN doc : \E r \in own : doc[k] = ruleDocumentEntryFromRow(r)
              /\ \A r \in own : \E k \in DOMAIN doc : doc[k] = ruleDocumentEntryFromRow(r)
<1> DEFINE own == {rules[i] : i \in Own(t)}
           entries == {ruleDocumentEntryFromRow(r) : r \in own}
           doc == ExportRules(t)
           f == [i \in Own(t) |-> ruleDocumentEntryFromRow(rules[i])]
<1>1. {q \in ListRules(t) : q.tenant # System} = own
  BY TenantAssumption DEF ListRules, Rows, Own, Stored
<1>2. doc = SetToSeq(entries)
  BY <1>1 DEF ExportRules
<1>3. \A r \in own : IsRow(r) /\ r.tenant = t
  BY TenantAssumption DEF RowsNormal, Own, Stored
<1>4. \A q, r \in own : q.name = r.name => q = r
  BY DEF TableInv, OneRowPerName, Own, Stored
<1>5. /\ IsFiniteSet(Own(t)) /\ Cardinality(Own(t)) <= Cardinality(Ids)
      /\ Cardinality(Own(t)) \in Nat /\ Cardinality(Ids) \in Nat
  BY IdAssumption, FS_Subset, FS_CardinalityType DEF Own, Stored
<1>6. f \in Surjection(Own(t), entries)
  BY DEF Surjection
<1>7. /\ IsFiniteSet(entries) /\ Cardinality(entries) \in Nat
      /\ Cardinality(entries) <= Cardinality(Own(t))
  <2> HIDE DEF entries, f
  <2> QED BY <1>5, <1>6, FS_Surjection, FS_CardinalityType
<1>8. /\ doc \in Seq(entries) /\ Len(doc) = Cardinality(entries)
      /\ \A j, k \in DOMAIN doc : doc[j] = doc[k] => j = k
      /\ ToSet(doc) = entries
  <2> HIDE DEF entries, doc
  <2> QED BY <1>2, <1>7, SequenceOfSet
<1>9. /\ Len(doc) \in Nat /\ DOMAIN doc = 1..Len(doc)
      /\ Len(doc) <= Cardinality(Ids)
  <2> HIDE DEF entries, doc
  <2> QED BY <1>5, <1>7, <1>8, LenProperties
<1>10. \A e : e \in entries <=> \E k \in DOMAIN doc : doc[k] = e
  <2> HIDE DEF entries, doc
  <2> QED BY <1>8 DEF ToSet
<1>11. \A k \in DOMAIN doc : \E r \in own : doc[k] = ruleDocumentEntryFromRow(r)
  <2> HIDE DEF doc, own
  <2> QED BY <1>10
<1>12. \A r \in own : \E k \in DOMAIN doc : doc[k] = ruleDocumentEntryFromRow(r)
  <2> HIDE DEF doc, own
  <2> QED BY <1>10
<1> HIDE DEF own, doc
<1> QED BY <1>3, <1>4, <1>5, <1>8, <1>9, <1>11, <1>12 DEF own, doc

\* What that document is parsed to: the rules of the rows.
LEMMA Reparsed ==
    ASSUME TableInv, RowsNormal(rules), NEW t \in Tenants
    PROVE  LET own == {rules[i] : i \in Own(t)}
               rs == ParseDocument(ExportRules(t))
               Restores(k, r) == /\ rs[k].name = r.name
                                 /\ \A u \in Tenants : /\ Row(u, rs[k]) = [r EXCEPT !.tenant = u]
                                                       /\ Fits(u, rs[k])
           IN /\ Valid(ExportRules(t)) <=> \A r \in own : Importable(r)
              /\ \A r \in own : IsRow(r) /\ r.tenant = t
              /\ IsSequence(rs) /\ OnePerName(rs)
              /\ Len(rs) <= Cardinality(Ids) /\ Cardinality(Ids) \in Nat
              /\ \A k \in DOMAIN rs : \E r \in own : Restores(k, r)
              /\ \A r \in own : \E k \in DOMAIN rs : Restores(k, r)
<1> DEFINE own == {rules[i] : i \in Own(t)}
           doc == ExportRules(t)
           rs == ParseDocument(doc)
           Entry(r) == ruleDocumentEntryFromRow(r)
           T == {compileRule(doc[k]) : k \in DOMAIN doc}
           Restores(k, r) == /\ rs[k].name = r.name
                             /\ \A u \in Tenants : /\ Row(u, rs[k]) = [r EXCEPT !.tenant = u]
                                                   /\ Fits(u, rs[k])
<1>1. /\ \A r \in own : IsRow(r) /\ r.tenant = t
      /\ \A q, r \in own : q.name = r.name => q = r
      /\ Len(doc) \in Nat /\ DOMAIN doc = 1..Len(doc)
      /\ Len(doc) <= Cardinality(Ids) /\ Cardinality(Ids) \in Nat
      /\ \A j, k \in DOMAIN doc : doc[j] = doc[k] => j = k
      /\ \A k \in DOMAIN doc : \E r \in own : doc[k] = Entry(r)
      /\ \A r \in own : \E k \in DOMAIN doc : doc[k] = Entry(r)
  BY Exported
<1> HIDE DEF own, doc
<1>2. rs = [k \in DOMAIN doc |-> compileRule(doc[k])]
  BY DEF ParseDocument
<1>3. rs \in [1..Len(doc) -> T]
  BY <1>1, <1>2
<1>4. /\ IsSequence(rs) /\ Len(rs) = Len(doc) /\ DOMAIN rs = DOMAIN doc
  <2> HIDE DEF rs, T
  <2>1. rs \in Seq(T)
    BY <1>1, <1>3, SeqDef
  <2> QED BY <1>1, <1>3, <2>1, LenProperties DEF IsSequence
<1>5. ASSUME NEW r \in own, NEW u \in Tenants
      PROVE  /\ Compiles(Entry(r)) <=> Importable(r)
             /\ compileRule(Entry(r)).name = r.name
             /\ Row(u, compileRule(Entry(r))) = [r EXCEPT !.tenant = u]
             /\ Fits(u, compileRule(Entry(r)))
  <2>1. IsRow(r)
    BY <1>1
  <2>2. /\ Compiles(Entry(r)) <=> Importable(r)
        /\ compileRule(Entry(r)).name = r.name
        /\ Row(u, compileRule(Entry(r))) = [r EXCEPT !.tenant = u]
    BY <2>1, EntryOfRow
  <2>3. [r EXCEPT !.tenant = u] \in TableRow
    BY <2>1 DEF IsRow, IsRule, IsNormal, TableRow, Owners
  <2> QED BY <2>2, <2>3, RowFits
<1> HIDE DEF rs, Entry
<1>6. ASSUME NEW k \in DOMAIN doc, NEW r \in own, doc[k] = Entry(r) PROVE Restores(k, r)
  BY <1>2, <1>5, <1>6
<1>7. OnePerName(rs)
  <2> SUFFICES ASSUME NEW j \in DOMAIN doc, NEW k \in DOMAIN doc, rs[j].name = rs[k].name
               PROVE  j = k
    BY <1>4 DEF OnePerName
  <2>1. PICK q \in own : doc[j] = Entry(q)
    BY <1>1
  <2>2. PICK r \in own : doc[k] = Entry(r)
    BY <1>1
  <2>3. q.name = r.name
    BY <1>6, <2>1, <2>2
  <2> QED BY <1>1, <2>1, <2>2, <2>3
<1>8. Valid(doc) <=> \A r \in own : Importable(r)
  BY <1>1, <1>5 DEF Valid
<1> HIDE DEF Restores
<1>9. /\ \A k \in DOMAIN rs : \E r \in own : Restores(k, r)
      /\ \A r \in own : \E k \in DOMAIN rs : Restores(k, r)
  BY <1>1, <1>4, <1>6
<1> QED BY <1>1, <1>4, <1>7, <1>8, <1>9 DEF own, doc, rs, Restores

\* Exporting and importing restores a tenant's rules, where they came from and
\* elsewhere.
THEOREM ExportsRestore == RulesSpec => []ImportRestoresExport
<1>1. ASSUME TableInv, RowsNormal(rules) PROVE ImportRestoresExport
  <2> SUFFICES ASSUME NEW t \in Tenants
               PROVE  LET own == {rules[i] : i \in Own(t)}
                          doc == ExportRules(t)
                          rs == ParseDocument(doc)
                          empty == [i \in Ids |-> None]
                      IN /\ Valid(doc) <=> \A r \in own : Importable(r)
                         /\ ImportUserRules(rules, t, rs) = rules
                         /\ Rows(ImportUserRules(empty, t, rs)) = own
                         /\ \A u \in Tenants \ {t} :
                              LET there == {rules[i] : i \in Own(u)}
                                  merged == {r \in Rows(ImportUserRules(rules, u, rs)) : r.tenant = u}
                              IN ~Full(rules, Len(rs)) =>
                                   merged = {[r EXCEPT !.tenant = u] : r \in own}
                                            \cup {r \in there : r.name \notin {q.name : q \in own}}
    BY DEF ImportRestoresExport, Importable
  <2> DEFINE own == {rules[i] : i \in Own(t)}
             doc == ExportRules(t)
             rs == ParseDocument(doc)
             empty == [i \in Ids |-> None]
             N == Len(rs)
             Restores(k, r) == /\ rs[k].name = r.name
                               /\ \A u \in Tenants : /\ Row(u, rs[k]) = [r EXCEPT !.tenant = u]
                                                     /\ Fits(u, rs[k])
             Moved(u) == {[r EXCEPT !.tenant = u] : r \in own}
             Imported(u) == {Row(u, rs[k]) : k \in 1..N}
  <2>1. /\ Valid(doc) <=> \A r \in own : Importable(r)
        /\ \A r \in own : IsRow(r) /\ r.tenant = t
        /\ IsSequence(rs) /\ OnePerName(rs)
        /\ N <= Cardinality(Ids) /\ Cardinality(Ids) \in Nat
        /\ \A k \in DOMAIN rs : \E r \in own : Restores(k, r)
        /\ \A r \in own : \E k \in DOMAIN rs : Restores(k, r)
    BY <1>1, Reparsed
  <2>2. \A r \in own : \E i \in Ids : rules[i] = r /\ rules[i] # None
    BY DEF Own, Stored
  <2>3. IsTable(rules) /\ OneRowPerName(rules)
    BY <1>1 DEF TableInv
  <2>4. N \in Nat /\ DOMAIN rs = 1..N
    BY <2>1 DEF IsSequence
  <2> HIDE DEF own, doc, rs, N
  <2>5. \A r \in own : [r EXCEPT !.tenant = t] = r
    BY <2>1 DEF IsRow
  <2>6. \A u \in Tenants : \A k \in DOMAIN rs : Fits(u, rs[k])
    BY <2>1
  <2>7. ASSUME NEW u \in Tenants PROVE Imported(u) = Moved(u)
    BY <2>1, <2>4
  <2>8. \A r : (\E k \in 1..N : rs[k].name = r.name) <=> r.name \in {q.name : q \in own}
    <3>1. /\ \A k \in 1..N : \E q \in own : rs[k].name = q.name
          /\ \A q \in own : \E k \in 1..N : rs[k].name = q.name
      BY <2>1, <2>4
    <3> HIDE DEF Restores
    <3> QED BY <3>1
  <2> HIDE DEF Restores
  <2>9. ImportUserRules(rules, t, rs) = rules
    <3>1. ASSUME NEW k \in DOMAIN rs
          PROVE  \E i \in Ids : /\ rules[i] # None /\ rules[i].tenant = t
                                /\ rules[i].name = rs[k].name /\ Row(t, rs[k]) = rules[i]
      <4>1. PICK r \in own : Restores(k, r)
        BY <2>1
      <4>2. PICK i \in Ids : rules[i] = r /\ rules[i] # None
        BY <2>2
      <4> QED BY <2>1, <2>5, <4>1, <4>2 DEF Restores
    <3> QED BY <2>1, <2>3, <3>1, ImportedAgain
  <2>10. Rows(ImportUserRules(empty, t, rs)) = own
    <3>1. IsTable(empty) /\ OneRowPerName(empty) /\ Free(empty) = Ids /\ Rows(empty) = {}
      BY DEF IsTable, OneRowPerName, Free, Rows
    <3> HIDE DEF empty
    <3>2. Rows(ImportUserRules(empty, t, rs)) =
            Imported(t) \cup {r \in Rows(empty) : ~Replaces(t, rs, N, r)}
      BY <2>1, <2>6, <3>1, ImportedRows DEF N
    <3>3. Moved(t) = own
      BY <2>5
    <3> HIDE DEF Imported, Moved
    <3> QED BY <2>7, <3>1, <3>2, <3>3
  <2>11. ASSUME NEW u \in Tenants \ {t}, ~Full(rules, N)
         PROVE  {r \in Rows(ImportUserRules(rules, u, rs)) : r.tenant = u} =
                  Moved(u) \cup {r \in {rules[i] : i \in Own(u)} : r.name \notin {q.name : q \in own}}
    <3>1. Cardinality(Free(rules)) >= N
      BY <2>4, <2>11, NotFull
    <3>2. Rows(ImportUserRules(rules, u, rs)) =
            Imported(u) \cup {r \in Rows(rules) : ~Replaces(u, rs, N, r)}
      BY <2>1, <2>3, <2>6, <3>1, ImportedRows DEF N
    <3>3. \A r \in Moved(u) : r.tenant = u
      BY <2>1 DEF IsRow
    <3>4. {r \in Rows(rules) : r.tenant = u} = {rules[i] : i \in Own(u)}
      BY DEF Rows, Own, Stored
    <3>5. \A r : r.tenant = u => (Replaces(u, rs, N, r) <=> r.name \in {q.name : q \in own})
      BY <2>8 DEF Replaces
    <3> HIDE DEF Imported, Moved
    <3>6. Imported(u) = Moved(u)
      BY <2>7
    <3> QED BY <3>2, <3>3, <3>4, <3>5, <3>6
  <2> QED BY <2>1, <2>9, <2>10, <2>11 DEF own, doc, rs, N
<1>2. RulesInit => RowsNormal(rules)
  BY RowsInit
<1>3. TableInv /\ RowsNormal(rules) /\ [RulesNext]_ruleVars => RowsNormal(rules)'
  BY RowsStep DEF RowsNormal
<1> QED BY <1>1, <1>2, <1>3, TableHolds, PTL DEF RulesSpec

-----------------------------------------------------------------------------
\* LLMProviders

Activating == {"config", "credentials", "check", "clear", "commit"}

Activation ==
    [pc : Activating, provider : Providers, activate : BOOLEAN,
     config : Configs \cup {Default}, cleared : SUBSET Providers,
     saved : BOOLEAN, disconnected : BOOLEAN]

RowsTyped ==
    /\ runtime \in [Providers -> RuntimeRow \cup {Nil}]
    /\ saved \subseteq Providers /\ dropped \subseteq Providers

CallsTyped ==
    /\ call = [c \in Callers |-> call[c]]
    /\ \A c \in Callers :
         \/ call[c].pc \in {"done", "draft", "repair", "answered"}
         \/ call[c] \in Activation

OneActive == \A p, q \in Active : p = q

Works(p) == HasCredentials(p) /\ <<runtime[p].config, runtime[p].credentials>> \in Accepted

ActiveWorks ==
    /\ \A p \in Active \ dropped : HasCredentials(p)
    /\ \A p \in Active \ (saved \cup dropped) : Works(p)

\* What the activation a knows of the row of its provider.
Knows(a) ==
    /\ a.pc = "credentials" /\ ~a.saved /\ ~a.disconnected
         => a.config = Existing(a.provider).config
    /\ a.pc \in {"check", "clear", "commit"} /\ ~a.disconnected
         => /\ HasCredentials(a.provider)
            /\ ~a.saved => Works(a.provider)

CallsKnow == \A c \in Callers : call[c].pc \in Activating => Knows(call[c])

ActiveInv == RowsTyped /\ CallsTyped /\ OneActive /\ ActiveWorks /\ CallsKnow

Drafting(c) ==
    /\ call[c].pc \in {"draft", "repair", "answered"}
         => \E k \in DOMAIN call[c].samples : Shows(call[c].samples[k])
    /\ call[c].pc = "answered"
         => call[c].result = validateRuleDraft(call[c].samples, call[c].draft)

DraftInv == call = [c \in Callers |-> call[c]] /\ \A c \in Callers : Drafting(c)

-----------------------------------------------------------------------------
\* An absent row is not a row, and no key is the absent one (the NULL columns of
\* llm_provider_runtime).
LEMMA RowsAreRows ==
    /\ Nil \notin RuntimeRow /\ Nil \notin Keys
    /\ NewRuntimeRow \in RuntimeRow
BY NilAssumption DEF RuntimeRow, NewRuntimeRow

\* The row an upsert starts from (the ON CONFLICT of runtime_repository.go) is a
\* row, and it is the existing one where there is one.
LEMMA ExistingRow ==
    ASSUME RowsTyped, NEW p \in Providers
    PROVE  /\ Existing(p) \in RuntimeRow
           /\ runtime[p] # Nil => Existing(p) = runtime[p]
BY RowsAreRows DEF Existing, RowsTyped

\* A request that goes on to its next statement without touching the rows keeps
\* what is known of them, if it knows enough itself.
LEMMA GotoKeeps ==
    ASSUME ActiveInv, NEW c \in Callers, NEW r, Goto(c, r),
           \/ r.pc \in {"done", "draft", "repair", "answered"}
           \/ r \in Activation /\ Knows(r)
    PROVE  ActiveInv'
<1>1. runtime' = runtime /\ saved' = saved /\ dropped' = dropped
  BY DEF Goto
<1>2. call' = [call EXCEPT ![c] = r]
  BY DEF Goto
<1>3. RowsTyped' /\ OneActive' /\ ActiveWorks'
  BY <1>1 DEF ActiveInv, RowsTyped, OneActive, ActiveWorks, Active, HasCredentials, Works
<1>4. \A d \in Callers : call'[d] = IF d = c THEN r ELSE call[d]
  BY <1>2 DEF ActiveInv, CallsTyped
<1>5. CallsTyped'
  <2>1. call' = [d \in Callers |-> call'[d]]
    BY <1>2 DEF ActiveInv, CallsTyped
  <2> QED  BY <2>1, <1>4 DEF ActiveInv, CallsTyped
<1>6. CallsKnow'
  <2> SUFFICES ASSUME NEW d \in Callers, call'[d].pc \in Activating
               PROVE  Knows(call[d])'
    BY DEF CallsKnow
  <2>1. CASE d = c
    <3>1. Knows(r)
      BY <2>1, <1>4 DEF Activating
    <3> QED  BY <3>1, <2>1, <1>1, <1>4 DEF Knows, Existing, HasCredentials, Works
  <2>2. CASE d # c
    <3>1. Knows(call[d])
      BY <2>2, <1>4 DEF ActiveInv, CallsKnow
    <3> QED  BY <3>1, <2>2, <1>1, <1>4 DEF Knows, Existing, HasCredentials, Works
  <2> QED  BY <2>1, <2>2
<1> QED  BY <1>3, <1>5, <1>6 DEF ActiveInv

\* What Touch leaves of a request.
LEMMA Touched ==
    ASSUME CallsTyped, NEW p, NEW f \in {"saved", "disconnected"}, Touch(p, f)
    PROVE  /\ CallsTyped'
           /\ \A c \in Callers :
                LET a == call[c]
                    b == call'[c]
                IN /\ b.pc = a.pc
                   /\ a.pc \in Activating =>
                        /\ b.provider = a.provider /\ b.config = a.config
                        /\ a.pc # "config" /\ a.provider = p =>
                             IF f = "saved" THEN b.saved /\ b.disconnected = a.disconnected
                             ELSE b.disconnected /\ b.saved = a.saved
                        /\ a.provider # p => b.saved = a.saved /\ b.disconnected = a.disconnected
<1>1. call' = [c \in Callers |-> call'[c]]
  BY DEF Touch
<1>2. ASSUME NEW c \in Callers
      PROVE  call'[c] = IF call[c].pc \in {"credentials", "check", "clear", "commit"}
                           /\ call[c].provider = p
                        THEN [call[c] EXCEPT ![f] = TRUE] ELSE call[c]
  BY DEF Touch
<1>3. ASSUME NEW c \in Callers, call[c].pc \in {"credentials", "check", "clear", "commit"}
      PROVE  call[c] \in Activation
  BY <1>3 DEF CallsTyped
<1>4. ASSUME NEW c \in Callers, call[c].pc \in Activating
      PROVE  call[c] \in Activation
  BY <1>4 DEF CallsTyped, Activating
<1>5. CallsTyped'
  <2>1. ASSUME NEW c \in Callers
        PROVE  \/ call'[c].pc \in {"done", "draft", "repair", "answered"}
               \/ call'[c] \in Activation
    <3>1. CASE call'[c] = call[c]
      BY <3>1 DEF CallsTyped
    <3>2. CASE call'[c] # call[c]
      BY <3>2, <1>2, <1>3 DEF Activation
    <3> QED  BY <3>1, <3>2
  <2> QED  BY <1>1, <2>1 DEF CallsTyped
<1>6. ASSUME NEW c \in Callers
      PROVE  /\ call'[c].pc = call[c].pc
             /\ call[c].pc \in Activating =>
                  /\ call'[c].provider = call[c].provider /\ call'[c].config = call[c].config
                  /\ call[c].pc # "config" /\ call[c].provider = p =>
                       IF f = "saved" THEN call'[c].saved /\ call'[c].disconnected = call[c].disconnected
                       ELSE call'[c].disconnected /\ call'[c].saved = call[c].saved
                  /\ call[c].provider # p =>
                       call'[c].saved = call[c].saved /\ call'[c].disconnected = call[c].disconnected
  <2>1. CASE call[c].pc \in {"credentials", "check", "clear", "commit"} /\ call[c].provider = p
    <3>1. call[c] \in Activation
      BY <1>3, <2>1
    <3>2. call'[c] = [call[c] EXCEPT ![f] = TRUE]
      BY <1>2, <2>1
    <3> QED  BY <3>1, <3>2, <2>1 DEF Activation
  <2>2. CASE ~(call[c].pc \in {"credentials", "check", "clear", "commit"} /\ call[c].provider = p)
    BY <2>2, <1>2 DEF Activating
  <2> QED  BY <2>1, <2>2
<1> QED  BY <1>5, <1>6

\* A saved row keeps the credentials there were and may only lose what the
\* activations have checked, which it marks (handlers_llm.go, the config and
\* credentials requests).
LEMMA SaveKeeps ==
    ASSUME ActiveInv, NEW p \in Providers, NEW row \in RuntimeRow, Save(p, row),
           row.active = Existing(p).active,
           HasCredentials(p) => row.credentials # Nil
    PROVE  ActiveInv'
<1>1. runtime' = [runtime EXCEPT ![p] = row] /\ saved' = saved \cup {p} /\ dropped' = dropped
  BY DEF Save
<1>2. \A q \in Providers : runtime'[q] = IF q = p THEN row ELSE runtime[q]
  BY <1>1 DEF ActiveInv, RowsTyped
<1>3. RowsTyped'
  BY <1>1 DEF ActiveInv, RowsTyped
<1>4. Active' = Active
  <2>1. \A q \in Providers : q # p => (q \in Active' <=> q \in Active)
    BY <1>2 DEF Active
  <2>2. p \in Active' <=> row.active
    BY <1>2, RowsAreRows DEF Active
  <2>3. p \in Active <=> Existing(p).active
    BY ExistingRow DEF Active, Existing, NewRuntimeRow, ActiveInv
  <2> QED  BY <2>1, <2>2, <2>3 DEF Active
<1>5. ASSUME NEW q \in Providers, HasCredentials(q)
      PROVE  HasCredentials(q)'
  BY <1>2, <1>5, RowsAreRows DEF HasCredentials
<1>6. ASSUME NEW q \in Providers, q # p
      PROVE  /\ Works(q)' <=> Works(q)
             /\ Existing(q)' = Existing(q)
  BY <1>2, <1>6 DEF Works, HasCredentials, Existing
<1>7. OneActive'
  BY <1>4 DEF ActiveInv, OneActive
<1>8. ActiveWorks'
  <2>1. \A q \in Active' \ dropped' : HasCredentials(q)'
    BY <1>1, <1>4, <1>5 DEF ActiveInv, ActiveWorks, Active
  <2>2. \A q \in Active' \ (saved' \cup dropped') : Works(q)'
    BY <1>1, <1>4, <1>6 DEF ActiveInv, ActiveWorks, Active
  <2> QED  BY <2>1, <2>2 DEF ActiveWorks
<1>9. Touch(p, "saved")
  BY DEF Save
<1>10. CallsTyped'
  BY <1>9, Touched DEF ActiveInv
<1>11. CallsKnow'
  <2> SUFFICES ASSUME NEW c \in Callers, call'[c].pc \in Activating
               PROVE  Knows(call[c])'
    BY DEF CallsKnow
  <2> DEFINE a == call[c]
             b == call'[c]
  <2>1. /\ b.pc = a.pc /\ b.provider = a.provider /\ b.config = a.config
        /\ a.pc # "config" /\ a.provider = p => b.saved /\ b.disconnected = a.disconnected
        /\ a.provider # p => b.saved = a.saved /\ b.disconnected = a.disconnected
    BY <1>9, Touched DEF ActiveInv
  <2>2. Knows(a) /\ a.provider \in Providers
    BY <2>1 DEF ActiveInv, CallsKnow, CallsTyped, Activation, Activating
  <2>3. PICK q \in Providers : q = a.provider
    BY <2>2
  <2>4. /\ b.pc = "credentials" /\ ~b.saved /\ ~b.disconnected
             => b.config = Existing(q)'.config
        /\ b.pc \in {"check", "clear", "commit"} /\ ~b.disconnected
             => HasCredentials(q)' /\ (~b.saved => Works(q)')
    <3>1. CASE q = p
      BY <2>1, <2>2, <2>3, <1>5, <3>1 DEF Knows
    <3>2. CASE q # p
      BY <2>1, <2>2, <2>3, <1>5, <1>6, <3>2 DEF Knows
    <3> QED  BY <3>1, <3>2
  <2> QED  BY <2>1, <2>3, <2>4 DEF Knows, Existing, HasCredentials, Works
<1> QED  BY <1>3, <1>7, <1>8, <1>10, <1>11 DEF ActiveInv

\* A provider that is disconnected is no longer active, and its activations know
\* of it (DisconnectLLMProvider).
LEMMA DisconnectKeeps ==
    ASSUME ActiveInv, NEW p \in Providers, DisconnectLLMProvider(p)
    PROVE  ActiveInv'
<1>1. /\ runtime' = [runtime EXCEPT ![p] = Nil] /\ saved' = saved /\ dropped' = dropped
      /\ Touch(p, "disconnected")
  BY DEF DisconnectLLMProvider
<1>2. \A q \in Providers : runtime'[q] = IF q = p THEN Nil ELSE runtime[q]
  BY <1>1 DEF ActiveInv, RowsTyped
<1>3. RowsTyped'
  BY <1>1 DEF ActiveInv, RowsTyped
<1>4. Active' \subseteq Active \ {p}
  BY <1>2 DEF Active
<1>5. ASSUME NEW q \in Providers, q # p
      PROVE  /\ Works(q)' <=> Works(q)
             /\ HasCredentials(q)' <=> HasCredentials(q)
             /\ Existing(q)' = Existing(q)
  BY <1>2, <1>5 DEF Works, HasCredentials, Existing
<1>6. OneActive'
  BY <1>4 DEF ActiveInv, OneActive
<1>7. ActiveWorks'
  <2>1. \A q \in Active' \ dropped' : HasCredentials(q)'
    BY <1>1, <1>4, <1>5 DEF ActiveInv, ActiveWorks, Active
  <2>2. \A q \in Active' \ (saved' \cup dropped') : Works(q)'
    BY <1>1, <1>4, <1>5 DEF ActiveInv, ActiveWorks, Active
  <2> QED  BY <2>1, <2>2 DEF ActiveWorks
<1>8. CallsTyped'
  BY <1>1, Touched DEF ActiveInv
<1>9. CallsKnow'
  <2> SUFFICES ASSUME NEW c \in Callers, call'[c].pc \in Activating
               PROVE  Knows(call[c])'
    BY DEF CallsKnow
  <2> DEFINE a == call[c]
             b == call'[c]
  <2>1. /\ b.pc = a.pc /\ b.provider = a.provider /\ b.config = a.config
        /\ a.pc # "config" /\ a.provider = p => b.disconnected /\ b.saved = a.saved
        /\ a.provider # p => b.saved = a.saved /\ b.disconnected = a.disconnected
    BY <1>1, Touched DEF ActiveInv
  <2>2. Knows(a) /\ a.provider \in Providers
    BY <2>1 DEF ActiveInv, CallsKnow, CallsTyped, Activation, Activating
  <2>3. PICK q \in Providers : q = a.provider
    BY <2>2
  <2>4. /\ b.pc = "credentials" /\ ~b.saved /\ ~b.disconnected
             => b.config = Existing(q)'.config
        /\ b.pc \in {"check", "clear", "commit"} /\ ~b.disconnected
             => HasCredentials(q)' /\ (~b.saved => Works(q)')
    <3>1. CASE q = p
      BY <2>1, <2>2, <2>3, <3>1 DEF Knows
    <3>2. CASE q # p
      BY <2>1, <2>2, <2>3, <1>5, <3>2 DEF Knows
    <3> QED  BY <3>1, <3>2
  <2> QED  BY <2>1, <2>3, <2>4 DEF Knows, Existing, HasCredentials, Works
<1> QED  BY <1>3, <1>6, <1>7, <1>8, <1>9 DEF ActiveInv

\* The statements of a health check or an activation up to its transaction.
LEMMA CheckKeeps ==
    ASSUME ActiveInv, NEW c \in Callers,
           ReadConfig(c) \/ ReadCredentials(c) \/ HealthCheck(c) \/ ClearActive(c)
    PROVE  ActiveInv'
<1> DEFINE a == call[c]
<1>1. /\ a \in Activation /\ Knows(a)
      /\ a.pc \in {"config", "credentials", "check", "clear"}
  BY DEF ReadConfig, ReadCredentials, HealthCheck, ClearActive, ActiveInv, CallsTyped, CallsKnow,
         Activating
<1>2. Done.pc = "done"
  BY DEF Done
<1>3. CASE ReadConfig(c)
  <2> DEFINE r == [a EXCEPT !.pc = "credentials",
                            !.config = IF runtime[a.provider] = Nil THEN Default
                                       ELSE runtime[a.provider].config]
  <2>1. Goto(c, r)
    BY <1>3 DEF ReadConfig
  <2>2. r.config = Existing(a.provider).config /\ r.config \in Configs \cup {Default}
    BY <1>1 DEF Existing, NewRuntimeRow, Activation, ActiveInv, RowsTyped, RuntimeRow
  <2>3. r \in Activation /\ r.pc = "credentials" /\ r.provider = a.provider
    BY <1>1, <2>2 DEF Activation, Activating
  <2>4. Knows(r)
    BY <2>2, <2>3 DEF Knows
  <2> QED  BY <2>1, <2>3, <2>4, GotoKeeps
<1>4. CASE ReadCredentials(c)
  <2> DEFINE r == [a EXCEPT !.pc = "check"]
  <2>1. CASE HasCredentials(a.provider) /\ <<a.config, runtime[a.provider].credentials>> \in Accepted
    <3>1. Goto(c, r) /\ a.pc = "credentials"
      BY <1>4, <2>1 DEF ReadCredentials
    <3>2. r \in Activation /\ r.pc = "check" /\ r.provider = a.provider /\ r.config = a.config
          /\ r.saved = a.saved /\ r.disconnected = a.disconnected
      BY <1>1 DEF Activation, Activating
    <3>3. Existing(a.provider) = runtime[a.provider]
      BY <2>1 DEF HasCredentials, Existing
    <3>4. Knows(r)
      BY <1>1, <2>1, <3>1, <3>2, <3>3 DEF Knows, Works
    <3> QED  BY <3>1, <3>2, <3>4, GotoKeeps
  <2>2. CASE ~(HasCredentials(a.provider) /\ <<a.config, runtime[a.provider].credentials>> \in Accepted)
    <3>1. Goto(c, Done)
      BY <1>4, <2>2 DEF ReadCredentials
    <3> QED  BY <3>1, <1>2, GotoKeeps
  <2> QED  BY <2>1, <2>2
<1>5. CASE HealthCheck(c)
  <2> DEFINE r == [a EXCEPT !.pc = "clear"]
  <2>1. a.pc = "check" /\ (Goto(c, r) \/ Goto(c, Done))
    BY <1>5 DEF HealthCheck
  <2>2. r \in Activation /\ r.pc = "clear" /\ r.provider = a.provider
        /\ r.saved = a.saved /\ r.disconnected = a.disconnected
    BY <1>1 DEF Activation, Activating
  <2>3. Knows(r)
    BY <1>1, <2>1, <2>2 DEF Knows
  <2> QED  BY <2>1, <2>2, <2>3, <1>2, GotoKeeps
<1>6. CASE ClearActive(c)
  <2> DEFINE r == [a EXCEPT !.pc = "commit", !.cleared = Active]
  <2>1. a.pc = "clear" /\ Goto(c, r)
    BY <1>6 DEF ClearActive
  <2>2. r \in Activation /\ r.pc = "commit" /\ r.provider = a.provider
        /\ r.saved = a.saved /\ r.disconnected = a.disconnected
    BY <1>1 DEF Activation, Activating, Active
  <2>3. Knows(r)
    BY <1>1, <2>1, <2>2 DEF Knows
  <2> QED  BY <2>1, <2>2, <2>3, GotoKeeps
<1> QED  BY <1>3, <1>4, <1>5, <1>6

\* An activation that commits leaves its provider the only active one
\* (SetActiveLLMProvider and the unique index of llm_provider_runtime).
LEMMA CommitKeeps ==
    ASSUME ActiveInv, NEW c \in Callers, CommitActive(c)
    PROVE  ActiveInv'
<1> DEFINE a == call[c]
           p == a.provider
           row == [Existing(p) EXCEPT !.active = TRUE]
<1>1. /\ a.pc = "commit" /\ a \in Activation /\ Knows(a)
      /\ p \in Providers /\ a.saved \in BOOLEAN /\ a.disconnected \in BOOLEAN
  BY DEF CommitActive, ActiveInv, CallsTyped, CallsKnow, Activating, Activation
<1>2. call' = [call EXCEPT ![c] = Done]
  BY DEF CommitActive
<1>3. \A d \in Callers : call'[d] = IF d = c THEN Done ELSE call[d]
  BY <1>2 DEF ActiveInv, CallsTyped
<1>4. CallsTyped'
  <2>1. call' = [d \in Callers |-> call'[d]]
    BY <1>2 DEF ActiveInv, CallsTyped
  <2> QED  BY <2>1, <1>3 DEF ActiveInv, CallsTyped, Done
<1>5. CASE ~(Active \subseteq a.cleared \cup {p})
  <2>1. UNCHANGED <<runtime, saved, dropped>>
    BY <1>5 DEF CommitActive
  <2>2. RowsTyped' /\ OneActive' /\ ActiveWorks'
    BY <2>1 DEF ActiveInv, RowsTyped, OneActive, ActiveWorks, Active, HasCredentials, Works
  <2>3. CallsKnow'
    BY <2>1, <1>3 DEF ActiveInv, CallsKnow, Knows, Existing, HasCredentials, Works, Done, Activating
  <2> QED  BY <1>4, <2>2, <2>3 DEF ActiveInv
<1>6. CASE Active \subseteq a.cleared \cup {p}
  <2>1. /\ runtime' = [q \in Providers |->
                         IF q = p THEN row
                         ELSE IF q \in Active THEN [runtime[q] EXCEPT !.active = FALSE]
                         ELSE runtime[q]]
        /\ saved' = IF a.saved THEN saved \cup {p} ELSE saved \ {p}
        /\ dropped' = IF a.disconnected THEN dropped \cup {p} ELSE dropped \ {p}
    BY <1>6 DEF CommitActive
  <2>2. row \in RuntimeRow /\ row.active /\ row.config = Existing(p).config
        /\ row.credentials = Existing(p).credentials
    BY <1>1, ExistingRow DEF ActiveInv, RuntimeRow
  <2>3. \A q \in Active : runtime[q] \in RuntimeRow
    BY DEF Active, ActiveInv, RowsTyped
  <2>4. RowsTyped'
    BY <2>1, <2>2, <2>3, <1>1 DEF ActiveInv, RowsTyped, RuntimeRow
  <2>5. Active' = {p}
    BY <2>1, <2>2, <2>3, <1>1, RowsAreRows DEF Active, RuntimeRow
  <2>6. ASSUME NEW q \in Providers
        PROVE  /\ Existing(q)'.config = Existing(q).config
               /\ HasCredentials(q)' <=> HasCredentials(q)
               /\ Works(q)' <=> Works(q)
    <3>1. CASE q = p
      <4>1. runtime'[q] = row /\ runtime'[q] # Nil
        BY <3>1, <2>1, <2>2, RowsAreRows
      <4>2. runtime[q] # Nil => Existing(q) = runtime[q]
        BY DEF Existing
      <4>3. runtime[q] = Nil => Existing(q).credentials = Nil
        BY DEF Existing, NewRuntimeRow
      <4> QED  BY <3>1, <4>1, <4>2, <4>3, <2>2 DEF Existing, HasCredentials, Works
    <3>2. CASE q # p /\ q \in Active
      <4>1. runtime'[q] = [runtime[q] EXCEPT !.active = FALSE] /\ runtime[q] # Nil
        BY <3>2, <2>1 DEF Active
      <4>2. runtime'[q] # Nil /\ runtime'[q].config = runtime[q].config
            /\ runtime'[q].credentials = runtime[q].credentials
        BY <3>2, <4>1, <2>3, RowsAreRows DEF RuntimeRow
      <4> QED  BY <4>1, <4>2 DEF Existing, HasCredentials, Works
    <3>3. CASE q # p /\ q \notin Active
      BY <3>3, <2>1 DEF Existing, HasCredentials, Works
    <3> QED  BY <3>1, <3>2, <3>3
  <2>7. OneActive'
    BY <2>5 DEF OneActive
  <2>8. ActiveWorks'
    <3>1. \A q \in Active' : q = p
      BY <2>5
    <3>2. PICK q \in Providers : q = p
      BY <1>1
    <3>3. /\ q \notin dropped' => HasCredentials(q)'
          /\ q \notin saved' \cup dropped' => Works(q)'
      <4>1. ~a.disconnected => HasCredentials(q)' /\ (~a.saved => Works(q)')
        BY <1>1, <2>6, <3>2 DEF Knows
      <4> QED  BY <2>1, <4>1, <3>2
    <3> QED  BY <3>1, <3>2, <3>3 DEF ActiveWorks, HasCredentials, Works
  <2>9. CallsKnow'
    <3> SUFFICES ASSUME NEW d \in Callers, call'[d].pc \in Activating
                 PROVE  Knows(call[d])'
      BY DEF CallsKnow
    <3>1. d # c /\ call'[d] = call[d]
      BY <1>3 DEF Done, Activating
    <3>2. Knows(call[d]) /\ call[d].provider \in Providers
      BY <3>1 DEF ActiveInv, CallsKnow, CallsTyped, Activation, Activating
    <3>3. PICK q \in Providers : q = call[d].provider
      BY <3>2
    <3> QED  BY <3>1, <3>2, <3>3, <2>6 DEF Knows, Existing, HasCredentials, Works
  <2> QED  BY <1>4, <2>4, <2>7, <2>8, <2>9 DEF ActiveInv
<1> QED  BY <1>5, <1>6

LEMMA DraftGotoKeeps ==
    ASSUME ActiveInv, NEW c \in Callers,
           \/ \E samples \in Inputs : BeginDraft(c, samples)
           \/ RequestDraft(c) \/ RepairDraft(c) \/ DraftFails(c)
    PROVE  ActiveInv'
<1>1. PICK r : Goto(c, r) /\ r.pc \in {"done", "draft", "repair", "answered"}
  <2>1. ASSUME NEW samples \in Inputs, BeginDraft(c, samples)
        PROVE  \E r : Goto(c, r) /\ r.pc \in {"done", "draft", "repair", "answered"}
    <3> DEFINE kept == normalizeRuleDraftInput(samples)
               r == [pc |-> "draft", samples |-> kept]
    <3>1. Goto(c, IF kept = Nil THEN Done ELSE r)
      BY <2>1 DEF BeginDraft
    <3> HIDE DEF kept
    <3>2. Done.pc = "done" /\ r.pc = "draft"
      BY DEF Done
    <3> QED  BY <3>1, <3>2
  <2>2. ASSUME RequestDraft(c)
        PROVE  \E r : Goto(c, r) /\ r.pc \in {"done", "draft", "repair", "answered"}
    <3>1. PICK draft \in Drafts :
            Goto(c, IF Answer(c, draft).result.issues = {} THEN Answer(c, draft)
                    ELSE [Answer(c, draft) EXCEPT !.pc = "repair"])
      BY <2>2 DEF RequestDraft
    <3>2. Answer(c, draft).pc = "answered" /\ [Answer(c, draft) EXCEPT !.pc = "repair"].pc = "repair"
      BY DEF Answer
    <3> QED  BY <3>1, <3>2
  <2>3. ASSUME RepairDraft(c)
        PROVE  \E r : Goto(c, r) /\ r.pc \in {"done", "draft", "repair", "answered"}
    <3>1. PICK draft \in Drafts : Goto(c, Answer(c, draft))
      BY <2>3 DEF RepairDraft
    <3>2. Answer(c, draft).pc = "answered"
      BY DEF Answer
    <3> QED  BY <3>1, <3>2
  <2>4. ASSUME DraftFails(c)
        PROVE  \E r : Goto(c, r) /\ r.pc \in {"done", "draft", "repair", "answered"}
    BY <2>4 DEF DraftFails, Done
  <2> QED  BY <2>1, <2>2, <2>3, <2>4
<1> QED  BY <1>1, GotoKeeps

LEMMA BeginCheckKeeps ==
    ASSUME ActiveInv, NEW c \in Callers, NEW p \in Providers, NEW activate \in BOOLEAN,
           BeginCheck(c, p, activate)
    PROVE  ActiveInv'
<1> DEFINE r == [pc |-> "config", provider |-> p, activate |-> activate, config |-> Default,
                 cleared |-> {}, saved |-> FALSE, disconnected |-> FALSE]
<1>1. Goto(c, r)
  BY DEF BeginCheck
<1>2. r \in Activation /\ Knows(r)
  BY DEF Activation, Activating, Knows
<1> QED  BY <1>1, <1>2, GotoKeeps

LEMMA ActiveInvInit == LLMInit => ActiveInv
<1> SUFFICES ASSUME LLMInit PROVE ActiveInv
  OBVIOUS
<1>1. \A c \in Callers : call[c].pc = "done"
  BY DEF LLMInit, Done
<1>2. Active = {}
  BY DEF LLMInit, Active
<1> QED  BY <1>1, <1>2 DEF LLMInit, ActiveInv, RowsTyped, CallsTyped, OneActive, ActiveWorks,
                           CallsKnow, Activating

LEMMA ActiveInvStep == ActiveInv /\ [LLMNext]_llmVars => ActiveInv'
<1> SUFFICES ASSUME ActiveInv, [LLMNext]_llmVars PROVE ActiveInv'
  OBVIOUS
<1>1. CASE CallStep
  BY <1>1, CheckKeeps, CommitKeeps, DraftGotoKeeps DEF CallStep
<1>2. CASE LLMRequest
  <2>1. ASSUME NEW p \in Providers, NEW config \in Configs, SaveLLMProviderConfig(p, config)
        PROVE  ActiveInv'
    <3> DEFINE row == [Existing(p) EXCEPT !.config = config]
    <3>1. Existing(p) \in RuntimeRow
      BY ExistingRow DEF ActiveInv
    <3>2. row \in RuntimeRow /\ row.active = Existing(p).active
          /\ row.credentials = Existing(p).credentials
      BY <3>1 DEF RuntimeRow
    <3>3. HasCredentials(p) => Existing(p).credentials # Nil
      BY DEF HasCredentials, Existing
    <3> QED  BY <2>1, <3>2, <3>3, SaveKeeps DEF SaveLLMProviderConfig
  <2>2. ASSUME NEW p \in Providers, NEW key \in Keys, SaveLLMProviderCredentials(p, key)
        PROVE  ActiveInv'
    <3> DEFINE row == [Existing(p) EXCEPT !.credentials = key]
    <3>1. Existing(p) \in RuntimeRow
      BY ExistingRow DEF ActiveInv
    <3>2. row \in RuntimeRow /\ row.active = Existing(p).active /\ row.credentials # Nil
      BY <3>1, RowsAreRows DEF RuntimeRow
    <3> QED  BY <2>2, <3>2, SaveKeeps DEF SaveLLMProviderCredentials
  <2> QED  BY <1>2, <2>1, <2>2, DisconnectKeeps, BeginCheckKeeps, DraftGotoKeeps DEF LLMRequest
<1>3. CASE UNCHANGED llmVars
  BY <1>3 DEF llmVars, ActiveInv, RowsTyped, CallsTyped, OneActive, ActiveWorks, CallsKnow, Knows,
              Existing, HasCredentials, Works, Active
<1> QED  BY <1>1, <1>2, <1>3 DEF LLMNext

-----------------------------------------------------------------------------
\* Whatever requests overlap, the rows keep their shape: one provider is active at
\* most, and what a request under way carries is of the kind its statement needs
\* (runtime_repository.go and handlers_llm.go).
THEOREM LLMTypes == LLMSpec => []LLMTypeOK
<1>1. ActiveInv => LLMTypeOK
  BY DEF ActiveInv, RowsTyped, CallsTyped, LLMTypeOK, Activation, Activating
<1> QED  BY <1>1, ActiveInvInit, ActiveInvStep, PTL DEF LLMSpec

\* What GetLLMProviderStatus calls ready (handlers_llm.go:86) is worth: one active
\* provider, with credentials and, unless it was saved or disconnected while it was
\* activated, with a config that makes a client, so that Router.Complete finds it.
THEOREM ActiveProviderAnswers == LLMSpec => []ReadyProviderAnswers
<1>1. ActiveInv => ReadyProviderAnswers
  <2> SUFFICES ASSUME ActiveInv PROVE ReadyProviderAnswers
    OBVIOUS
  <2>1. Cardinality(Active) <= 1
    <3>1. CASE Active = {}
      BY <3>1, FS_EmptySet
    <3>2. CASE Active # {}
      <4>1. PICK p \in Active : TRUE
        BY <3>2
      <4>2. Active = {p}
        BY <4>1 DEF ActiveInv, OneActive
      <4>3. Cardinality({p}) = 1
        BY FS_Singleton
      <4> HIDE DEF Active
      <4> QED  BY <4>2, <4>3
    <3> QED  BY <3>1, <3>2
  <2>2. \A p \in Active \ dropped : HasCredentials(p)
    BY DEF ActiveInv, ActiveWorks
  <2>3. ASSUME NEW p \in Capable \ (saved \cup dropped), Ready(p)
        PROVE  Resolves
    BY <2>3 DEF ActiveInv, ActiveWorks, Ready, Works, Resolves
  <2> QED  BY <2>1, <2>2, <2>3 DEF ReadyProviderAnswers
<1> QED  BY <1>1, ActiveInvInit, ActiveInvStep, PTL DEF LLMSpec

-----------------------------------------------------------------------------
\* A request goes on with a sample that shows both an amount and a merchant, and
\* with the result of the draft it carries.
LEMMA DraftGoto ==
    ASSUME DraftInv, NEW c \in Callers, NEW r, Goto(c, r),
           r.pc \in {"draft", "repair", "answered"}
             => \E k \in DOMAIN r.samples : Shows(r.samples[k]),
           r.pc = "answered" => r.result = validateRuleDraft(r.samples, r.draft)
    PROVE  DraftInv'
<1>1. call' = [call EXCEPT ![c] = r]
  BY DEF Goto
<1>2. \A d \in Callers : call'[d] = IF d = c THEN r ELSE call[d]
  BY <1>1 DEF DraftInv
<1>3. call' = [d \in Callers |-> call'[d]]
  BY <1>1 DEF DraftInv
<1>4. ASSUME NEW d \in Callers
      PROVE  Drafting(d)'
  <2>1. CASE d = c
    BY <2>1, <1>2 DEF Drafting
  <2>2. CASE d # c
    BY <2>2, <1>2 DEF Drafting, DraftInv
  <2> QED  BY <2>1, <2>2
<1> QED  BY <1>3, <1>4 DEF DraftInv

LEMMA DraftStep ==
    ASSUME DraftInv, NEW c \in Callers,
           \/ \E samples \in Inputs : BeginDraft(c, samples)
           \/ RequestDraft(c) \/ RepairDraft(c) \/ DraftFails(c)
    PROVE  DraftInv'
<1> DEFINE sent == call[c].samples
<1>1. Done.pc = "done"
  BY DEF Done
<1>2. ASSUME NEW samples \in Inputs, BeginDraft(c, samples)
      PROVE  DraftInv'
  <2> DEFINE kept == normalizeRuleDraftInput(samples)
             r == [pc |-> "draft", samples |-> kept]
  <2>1. Goto(c, IF kept = Nil THEN Done ELSE r)
    BY <1>2 DEF BeginDraft
  <2>2. kept # Nil => \E k \in DOMAIN kept : Shows(kept[k])
    BY DEF normalizeRuleDraftInput
  <2> HIDE DEF kept
  <2>3. r.pc = "draft" /\ r.samples = kept
    OBVIOUS
  <2>4. CASE kept = Nil
    BY <2>1, <2>4, <1>1, DraftGoto
  <2>5. CASE kept # Nil
    BY <2>1, <2>2, <2>3, <2>5, DraftGoto
  <2> QED  BY <2>4, <2>5
<1>3. ASSUME call[c].pc \in {"draft", "repair"}
      PROVE  \E k \in DOMAIN sent : Shows(sent[k])
  BY <1>3 DEF DraftInv, Drafting
<1>4. ASSUME NEW draft
      PROVE  /\ Answer(c, draft).pc = "answered" /\ Answer(c, draft).samples = sent
             /\ Answer(c, draft).draft = draft
             /\ Answer(c, draft).result = validateRuleDraft(sent, draft)
             /\ [Answer(c, draft) EXCEPT !.pc = "repair"].pc = "repair"
             /\ [Answer(c, draft) EXCEPT !.pc = "repair"].samples = sent
  BY DEF Answer
<1>5. ASSUME RequestDraft(c)
      PROVE  DraftInv'
  <2>1. PICK draft \in Drafts :
          Goto(c, IF Answer(c, draft).result.issues = {} THEN Answer(c, draft)
                  ELSE [Answer(c, draft) EXCEPT !.pc = "repair"])
    BY <1>5 DEF RequestDraft
  <2>2. \E k \in DOMAIN sent : Shows(sent[k])
    BY <1>5, <1>3 DEF RequestDraft
  <2>3. CASE Answer(c, draft).result.issues = {}
    BY <2>1, <2>2, <2>3, <1>4, DraftGoto
  <2>4. CASE Answer(c, draft).result.issues # {}
    BY <2>1, <2>2, <2>4, <1>4, DraftGoto
  <2> QED  BY <2>3, <2>4
<1>6. ASSUME RepairDraft(c)
      PROVE  DraftInv'
  <2>1. PICK draft \in Drafts : Goto(c, Answer(c, draft))
    BY <1>6 DEF RepairDraft
  <2>2. \E k \in DOMAIN sent : Shows(sent[k])
    BY <1>6, <1>3 DEF RepairDraft
  <2> QED  BY <2>1, <2>2, <1>4, DraftGoto
<1>7. ASSUME DraftFails(c)
      PROVE  DraftInv'
  BY <1>7, <1>1, DraftGoto DEF DraftFails
<1> QED  BY <1>2, <1>5, <1>6, <1>7

\* The requests about providers carry no draft.
LEMMA OtherStep ==
    ASSUME ActiveInv, DraftInv,
           \/ \E c \in Callers : \/ ReadConfig(c) \/ ReadCredentials(c) \/ HealthCheck(c)
                                 \/ ClearActive(c) \/ CommitActive(c)
           \/ \E p \in Providers, f \in {"saved", "disconnected"} : Touch(p, f)
           \/ \E c \in Callers, p \in Providers, activate \in BOOLEAN : BeginCheck(c, p, activate)
    PROVE  DraftInv'
<1>1. Done.pc = "done"
  BY DEF Done
<1>2. ASSUME NEW c \in Callers, NEW r, call' = [call EXCEPT ![c] = r],
             r.pc \in {"done", "config", "credentials", "check", "clear", "commit"}
      PROVE  DraftInv'
  <2>1. \A d \in Callers : call'[d] = IF d = c THEN r ELSE call[d]
    BY <1>2 DEF DraftInv
  <2>2. call' = [d \in Callers |-> call'[d]]
    BY <1>2 DEF DraftInv
  <2> QED  BY <1>2, <2>1, <2>2 DEF DraftInv, Drafting
<1>3. ASSUME NEW c \in Callers, ReadConfig(c)
      PROVE  DraftInv'
  <2>1. call[c] \in Activation
    BY <1>3 DEF ReadConfig, ActiveInv, CallsTyped
  <2> QED  BY <2>1, <1>2, <1>3 DEF ReadConfig, Goto, Activation
<1>4. ASSUME NEW c \in Callers, ReadCredentials(c) \/ HealthCheck(c) \/ ClearActive(c)
      PROVE  DraftInv'
  <2>1. call[c] \in Activation
    BY <1>4 DEF ReadCredentials, HealthCheck, ClearActive, ActiveInv, CallsTyped
  <2>2. /\ [call[c] EXCEPT !.pc = "check"].pc = "check"
        /\ [call[c] EXCEPT !.pc = "clear"].pc = "clear"
        /\ [call[c] EXCEPT !.pc = "commit", !.cleared = Active].pc = "commit"
    BY <2>1 DEF Activation
  <2>3. PICK r : call' = [call EXCEPT ![c] = r] /\ r.pc \in {"done", "check", "clear", "commit"}
    <3>1. CASE ReadCredentials(c)
      BY <3>1, <2>2, <1>1 DEF ReadCredentials, Goto
    <3>2. CASE HealthCheck(c)
      BY <3>2, <2>2, <1>1 DEF HealthCheck, Goto
    <3>3. CASE ClearActive(c)
      BY <3>3, <2>2 DEF ClearActive, Goto
    <3> QED  BY <1>4, <3>1, <3>2, <3>3
  <2> QED  BY <2>3, <1>2
<1>5. ASSUME NEW c \in Callers, CommitActive(c)
      PROVE  DraftInv'
  BY <1>5, <1>1, <1>2 DEF CommitActive
<1>6. ASSUME NEW p \in Providers, NEW f \in {"saved", "disconnected"}, Touch(p, f)
      PROVE  DraftInv'
  <2>1. call' = [c \in Callers |-> call'[c]]
    BY <1>6 DEF Touch
  <2>2. ASSUME NEW c \in Callers
        PROVE  Drafting(c)'
    <3>1. call'[c].pc = call[c].pc
      BY <1>6, Touched DEF ActiveInv
    <3>2. call[c].pc \in {"draft", "repair", "answered"} => call'[c] = call[c]
      BY <1>6 DEF Touch
    <3> QED  BY <3>1, <3>2 DEF DraftInv, Drafting
  <2> QED  BY <2>1, <2>2 DEF DraftInv
<1>7. ASSUME NEW c \in Callers, NEW p \in Providers, NEW activate \in BOOLEAN,
             BeginCheck(c, p, activate)
      PROVE  DraftInv'
  BY <1>7, <1>2 DEF BeginCheck, Goto
<1> QED  BY <1>3, <1>4, <1>5, <1>6, <1>7

LEMMA DraftInvStep == ActiveInv /\ DraftInv /\ [LLMNext]_llmVars => DraftInv'
<1> SUFFICES ASSUME ActiveInv, DraftInv, [LLMNext]_llmVars PROVE DraftInv'
  OBVIOUS
<1>1. CASE CallStep
  BY <1>1, DraftStep, OtherStep DEF CallStep
<1>2. CASE LLMRequest
  <2>1. ASSUME NEW p \in Providers, NEW row, Save(p, row) PROVE DraftInv'
    BY <2>1, OtherStep DEF Save
  <2>2. ASSUME NEW p \in Providers, DisconnectLLMProvider(p) PROVE DraftInv'
    BY <2>2, OtherStep DEF DisconnectLLMProvider
  <2> QED  BY <1>2, <2>1, <2>2, DraftStep, OtherStep
           DEF LLMRequest, SaveLLMProviderConfig, SaveLLMProviderCredentials
<1>3. CASE UNCHANGED llmVars
  BY <1>3 DEF llmVars, DraftInv, Drafting
<1> QED  BY <1>1, <1>2, <1>3 DEF LLMNext

\* A draft that CreateRuleDraft returns without issues finds what the user expects
\* in every sample that was kept, and the matches beside it are its own, whether
\* it is the first draft or the repaired one (rule_draft.go:121).
THEOREM DraftsAreChecked == LLMSpec => []DraftsMatchSamples
<1>1. LLMInit => DraftInv
  BY DEF LLMInit, DraftInv, Drafting, Done
<1>2. DraftInv => DraftsMatchSamples
  <2> SUFFICES ASSUME DraftInv, NEW c \in Callers, call[c].pc = "answered",
                      call[c].result.issues = {}
               PROVE  LET draft == call[c].draft
                          samples == call[c].samples
                          Found(k, f) == firstSubmatch(draft[f], samples[k].body)
                      IN /\ ~Incomplete(draft)
                         /\ \E k \in DOMAIN samples : Shows(samples[k])
                         /\ DOMAIN call[c].result.matches = DOMAIN samples
                         /\ \A k \in DOMAIN samples, f \in Fields :
                              /\ samples[k][f] # Empty => Found(k, f) = samples[k][f]
                              /\ call[c].result.matches[k][f] = Found(k, f)
    BY DEF DraftsMatchSamples
  <2> DEFINE draft == call[c].draft
             samples == call[c].samples
             issues == {i \in (DOMAIN samples) \X Fields :
                          i[2] \in validateRuleDraftSample(samples[i[1]], draft)}
             matches == [k \in DOMAIN samples |->
                           [f \in Fields |-> firstSubmatch(draft[f], samples[k].body)]]
  <2>1. call[c].result = validateRuleDraft(samples, draft)
    BY DEF DraftInv, Drafting
  <2>2. \E k \in DOMAIN samples : Shows(samples[k])
    BY DEF DraftInv, Drafting
  <2>3. ~Incomplete(draft)
    <3>1. Incomplete(draft) => call[c].result.issues = {<<0, "rule">>}
      BY <2>1 DEF validateRuleDraft
    <3> QED  BY <3>1
  <2>4. call[c].result = [matches |-> matches, issues |-> issues]
    BY <2>1, <2>3 DEF validateRuleDraft
  <2>5. issues = {} /\ call[c].result.matches = matches
    BY <2>4
  <2>6. ASSUME NEW k \in DOMAIN samples, NEW f \in Fields
        PROVE  /\ samples[k][f] # Empty => firstSubmatch(draft[f], samples[k].body) = samples[k][f]
               /\ call[c].result.matches[k][f] = firstSubmatch(draft[f], samples[k].body)
    <3>1. <<k, f>> \notin issues
      BY <2>5
    <3>2. f \notin validateRuleDraftSample(samples[k], draft)
      BY <3>1
    <3>3. samples[k][f] # Empty => firstSubmatch(draft[f], samples[k].body) = samples[k][f]
      BY <3>2 DEF validateRuleDraftSample
    <3>4. matches[k][f] = firstSubmatch(draft[f], samples[k].body)
      OBVIOUS
    <3> QED  BY <3>3, <3>4, <2>5
  <2>7. DOMAIN call[c].result.matches = DOMAIN samples
    BY <2>5
  <2> QED  BY <2>2, <2>3, <2>6, <2>7
<1>3. ActiveInv /\ DraftInv /\ [LLMNext]_llmVars => (ActiveInv /\ DraftInv)'
  BY ActiveInvStep, DraftInvStep
<1> QED  BY <1>1, <1>2, <1>3, ActiveInvInit, PTL DEF LLMSpec
=============================================================================
