-------------------------- MODULE TransactionsProofs --------------------------
(***************************************************************************)
(* Theorems about transactions: their mutes, categories and buckets, for   *)
(* any merchants and patterns and any number of overlapping ingestions;    *)
(* their labels, for any number of database connections; and what the read *)
(* side computes from them, for any calendar and any number of them.       *)
(***************************************************************************)
EXTENDS Classification, TransactionLabels, Spending, FiniteSetTheorems, WellFoundedInduction, TLAPS

Open(w) == draft[w] # None

\* Two ingestions do not hold the same transaction.
DraftsApart == \A u, w \in Writers : u # w /\ Open(u) /\ Open(w) => draft[u].t # draft[w].t

\* A writer's row has what the user set before the writer locked it.
DraftKeepsEdits(d) ==
  Stored(d.t) =>
    \A c \in Columns : txn[d.t].val[c] # Empty => d.row.val[c] = txn[d.t].val[c]

\* Its mute is that of the stored row, or none, until the patterns are applied ...
MuteCarried(d) ==
  /\ Stored(d.t) => /\ d.row.muted = txn[d.t].muted
                    /\ d.row.byMerchant = txn[d.t].byMerchant
  /\ ~Stored(d.t) => ~d.row.muted /\ ~d.row.byMerchant

\* ... and follows them afterwards, unless they have changed meanwhile.
DraftMute(d) ==
  /\ d.pc # "muted" => MuteCarried(d)
  /\ d.pc = "muted" /\ ~d.late =>
       IF Muting(d.t) = {} THEN MuteCarried(d) ELSE d.row.muted /\ d.row.byMerchant

DraftsHold ==
  /\ DraftsApart
  /\ \A w \in Writers : Open(w) => DraftKeepsEdits(draft[w]) /\ DraftMute(draft[w])

\* No open ingestion has a name that is gone.
DraftsForget ==
  \A e \in gone, w \in Writers : Open(w) => draft[w].row.val[e[1]] # e[2]

ClassInv ==
  ClassificationTypeOK /\ DraftsHold /\ MutesFollowPatterns /\ DeletedNamesStayGone /\ DraftsForget

-----------------------------------------------------------------------------
(* Values of columns *)

LEMMA ValuesAreMapped == Values \subseteq Mapped
BY DEF Values, Mapped

LEMMA PreserveType ==
  ASSUME NEW old \in Values, NEW x \in Mapped
  PROVE  /\ Preserve(old, x) \in Values
         /\ \A c \in Columns : old[c] # Empty => Preserve(old, x)[c] = old[c]
         /\ \A c \in Columns : \A n : n # Empty /\ old[c] # n /\ x[c] # n => Preserve(old, x)[c] # n
<1>1. \A c \in Columns : /\ old[c] \in Names(c) \cup {Empty} /\ x[c] \in Names(c) \cup {Empty, None}
                         /\ Names(c) \subseteq Categories \cup Buckets
  BY DEF Values, Mapped, Names, Columns
<1> QED
  BY <1>1 DEF Preserve, Values

LEMMA ValSet ==
  ASSUME NEW v \in Values, NEW c \in Columns, NEW n \in Names(c) \cup {Empty}
  PROVE  [v EXCEPT ![c] = n] \in Values
BY DEF Values, Names, Columns

LEMMA RowValSet ==
  ASSUME NEW r \in TxnRow, NEW v \in Values
  PROVE  /\ [r EXCEPT !.val = v] \in TxnRow
         /\ [r EXCEPT !.val = v].val = v
         /\ [r EXCEPT !.val = v].muted = r.muted
         /\ [r EXCEPT !.val = v].byMerchant = r.byMerchant
BY DEF TxnRow

LEMMA RowMuteSet ==
  ASSUME NEW r \in TxnRow, NEW m \in BOOLEAN, NEW b \in BOOLEAN
  PROVE  /\ [r EXCEPT !.muted = m, !.byMerchant = b] \in TxnRow
         /\ [r EXCEPT !.muted = m, !.byMerchant = b].val = r.val
         /\ [r EXCEPT !.muted = m, !.byMerchant = b].muted = m
         /\ [r EXCEPT !.muted = m, !.byMerchant = b].byMerchant = b
BY DEF TxnRow

LEMMA NamedEmpty == \A e \in Named : e[1] \in Columns /\ e[2] # Empty /\ e[2] # None
BY NamesAssumption DEF Named, Names, Columns

LEMMA StoredRow ==
  ASSUME ClassificationTypeOK, NEW t \in Txns, Stored(t)
  PROVE  txn[t] \in TxnRow
BY DEF ClassificationTypeOK, Stored

LEMMA OpenDraft ==
  ASSUME ClassificationTypeOK, NEW w \in Writers, Open(w)
  PROVE  /\ draft[w] \in Draft /\ draft[w].t \in Txns /\ draft[w].row \in TxnRow
         /\ draft[w].row.val \in Values
BY DEF ClassificationTypeOK, Open, Draft, TxnRow

-----------------------------------------------------------------------------
(* Requests: they wait for the rows of open ingestions.                    *)

\* The rows of S are written, which no ingestion holds; the others stay.
Writes(S) ==
  /\ Unheld(S)
  /\ txn' \in [Txns -> TxnRow \cup {None}]
  /\ \A t \in Txns : /\ Stored(t) => txn'[t] \in TxnRow
                     /\ t \notin S \/ ~Stored(t) => txn'[t] = txn[t]

LEMMA WritesSame ==
  ASSUME ClassificationTypeOK, UNCHANGED txn
  PROVE  Writes({})
BY StoredRow DEF Writes, Unheld, ClassificationTypeOK

LEMMA WritesStored ==
  ASSUME ClassificationTypeOK, NEW S, Writes(S)
  PROVE  \A t \in Txns : /\ txn'[t] # None <=> Stored(t)
                         /\ \A w \in Writers : Open(w) /\ draft[w].t = t /\ Stored(t) => txn'[t] = txn[t]
BY AbsentAssumption DEF Writes, Unheld, Stored, Open

LEMMA LateDrafts ==
  ASSUME ClassificationTypeOK, NEW p \in MutePatterns, Late(p)
  PROVE  /\ draft' \in [Writers -> Draft \cup {None}]
         /\ \A w \in Writers :
              /\ draft'[w] # None <=> Open(w)
              /\ Open(w) => /\ draft'[w].t = draft[w].t /\ draft'[w].pc = draft[w].pc
                            /\ draft'[w].row = draft[w].row
                            /\ draft[w].late => draft'[w].late
                            /\ draft[w].pc = "muted" /\ <<draft[w].t, p>> \in Contains => draft'[w].late
<1> SUFFICES ASSUME NEW w \in Writers
             PROVE  /\ draft'[w] \in Draft \cup {None}
                    /\ draft'[w] # None <=> Open(w)
                    /\ Open(w) => /\ draft'[w].t = draft[w].t /\ draft'[w].pc = draft[w].pc
                                  /\ draft'[w].row = draft[w].row
                                  /\ draft[w].late => draft'[w].late
                                  /\ draft[w].pc = "muted" /\ <<draft[w].t, p>> \in Contains => draft'[w].late
  BY DEF Late
<1>1. CASE ~Open(w)
  BY <1>1 DEF Late, Open, ClassificationTypeOK
<1>2. CASE Open(w)
  <2> DEFINE d == [draft[w] EXCEPT !.late = TRUE]
  <2>1. draft[w] \in Draft
    BY <1>2, OpenDraft
  <2>2. d \in Draft /\ d.t = draft[w].t /\ d.pc = draft[w].pc /\ d.row = draft[w].row /\ d.late
    BY <2>1 DEF Draft
  <2>3. draft'[w] = IF draft[w].pc = "muted" /\ <<draft[w].t, p>> \in Contains THEN d ELSE draft[w]
    BY <1>2 DEF Late, Open
  <2> HIDE DEF d
  <2> QED
    BY <1>2, <2>1, <2>2, <2>3, IdleAssumption DEF Open
<1> QED
  BY <1>1, <1>2

\* Requests that leave the patterns leave the drafts true ...
LEMMA RequestKeepsDrafts ==
  ASSUME ClassificationTypeOK, DraftsHold, NEW S, Writes(S), UNCHANGED <<draft, patterns>>
  PROVE  DraftsHold'
<1>1. ASSUME NEW w \in Writers, Open(w)
      PROVE  DraftKeepsEdits(draft[w])' /\ DraftMute(draft[w])'
  <2>1. draft[w].t \in Txns /\ Muting(draft[w].t)' = Muting(draft[w].t)
    BY <1>1, OpenDraft DEF Muting
  <2>2. (Stored(draft[w].t)' <=> Stored(draft[w].t)) /\ (Stored(draft[w].t) => txn'[draft[w].t] = txn[draft[w].t])
    BY <1>1, <2>1, WritesStored DEF Stored
  <2> QED
    BY <1>1, <2>1, <2>2 DEF DraftsHold, DraftKeepsEdits, DraftMute, MuteCarried, Stored
<1> QED
  BY <1>1 DEF DraftsHold, DraftsApart, Open

\* ... and the others mark those whose mute is out of date.
LEMMA PatternsKeepDrafts ==
  ASSUME ClassificationTypeOK, DraftsHold, NEW S, Writes(S), NEW p \in MutePatterns, Late(p),
         patterns' \in {patterns \cup {p}, patterns \ {p}}
  PROVE  DraftsHold'
<1>1. ASSUME NEW w \in Writers, draft'[w] # None
      PROVE  DraftKeepsEdits(draft[w])' /\ DraftMute(draft[w])'
  <2>1. /\ Open(w) /\ draft[w].t \in Txns
        /\ draft'[w].t = draft[w].t /\ draft'[w].pc = draft[w].pc
        /\ draft'[w].row = draft[w].row
        /\ draft[w].late => draft'[w].late
        /\ draft[w].pc = "muted" /\ <<draft[w].t, p>> \in Contains => draft'[w].late
    BY <1>1, LateDrafts, OpenDraft
  <2>2. (txn'[draft[w].t] # None <=> Stored(draft[w].t)) /\ (Stored(draft[w].t) => txn'[draft[w].t] = txn[draft[w].t])
    BY <2>1, WritesStored
  <2>3. <<draft[w].t, p>> \notin Contains => Muting(draft[w].t)' = Muting(draft[w].t)
    BY <2>1 DEF Muting
  <2>4. DraftKeepsEdits(draft[w]) /\ DraftMute(draft[w])
    BY <2>1 DEF DraftsHold
  <2>5. DraftKeepsEdits(draft[w])'
    BY <2>1, <2>2, <2>4 DEF DraftKeepsEdits, Stored
  <2>6. MuteCarried(draft[w])' <=> MuteCarried(draft[w])
    BY <2>1, <2>2 DEF MuteCarried, Stored
  <2> QED
    BY <2>1, <2>3, <2>4, <2>5, <2>6 DEF DraftMute, Muting
<1>2. DraftsApart'
  <2> SUFFICES ASSUME NEW u \in Writers, NEW w \in Writers, u # w, draft'[u] # None, draft'[w] # None
               PROVE  draft'[u].t # draft'[w].t
    BY DEF DraftsApart, Open
  <2>1. Open(u) /\ Open(w) /\ draft'[u].t = draft[u].t /\ draft'[w].t = draft[w].t
    BY LateDrafts
  <2> QED
    BY <2>1 DEF DraftsHold, DraftsApart
<1> QED
  BY <1>1, <1>2 DEF DraftsHold, Open

-----------------------------------------------------------------------------
(* Mutes *)

\* Rows whose value stays, and the mappings with them, keep what is gone.
LEMMA ValuesKeepGone ==
  ASSUME ClassInv, NEW S, Writes(S), UNCHANGED <<mapping, gone>>,
         \A t \in Txns : Stored(t) => txn'[t].val = txn[t].val
  PROVE  DeletedNamesStayGone'
<1>1. \A t \in Txns : txn'[t] # None <=> Stored(t)
  BY WritesStored DEF ClassInv
<1> QED
  BY <1>1 DEF ClassInv, DeletedNamesStayGone, Stored

LEMMA LateForgets ==
  ASSUME ClassInv, NEW p \in MutePatterns, Late(p), UNCHANGED gone
  PROVE  DraftsForget'
<1> SUFFICES ASSUME NEW e \in gone, NEW w \in Writers, draft'[w] # None
             PROVE  draft'[w].row.val[e[1]] # e[2]
  BY DEF DraftsForget, Open
<1>1. Open(w) /\ draft'[w].row = draft[w].row
  BY LateDrafts DEF ClassInv
<1> QED
  BY <1>1 DEF ClassInv, DraftsForget

LEMMA SameForgets ==
  ASSUME ClassInv, UNCHANGED draft, gone' \subseteq gone
  PROVE  DraftsForget'
BY DEF ClassInv, DraftsForget, Open

Marks == {"muted", "merchant", "unmuted"}

Marked(r, k) == [r EXCEPT !.muted = (k # "unmuted"), !.byMerchant = (k = "merchant")]

\* The rows of S are given the mark k, if stored.
Muted(S, k) ==
  /\ Unheld(S)
  /\ txn' = [t \in Txns |-> IF t \in S /\ Stored(t) THEN Marked(txn[t], k) ELSE txn[t]]

LEMMA MarkedRow ==
  ASSUME NEW r \in TxnRow, NEW k \in Marks
  PROVE  /\ Marked(r, k) \in TxnRow /\ Marked(r, k).val = r.val
         /\ Marked(r, k).muted <=> k # "unmuted"
         /\ Marked(r, k).byMerchant <=> k = "merchant"
BY DEF Marked, TxnRow

LEMMA MutedWrites ==
  ASSUME ClassInv, NEW S, NEW k \in Marks, Muted(S, k)
  PROVE  /\ Writes(S)
         /\ \A t \in Txns : Stored(t) => /\ txn'[t].val = txn[t].val
                                         /\ t \in S => /\ txn'[t].muted <=> k # "unmuted"
                                                       /\ txn'[t].byMerchant <=> k = "merchant"
<1>1. \A t \in Txns : /\ Stored(t) => txn[t] \in TxnRow
                      /\ txn[t] \in TxnRow \cup {None}
  BY StoredRow DEF ClassInv, ClassificationTypeOK
<1>2. ASSUME NEW t \in Txns, Stored(t), t \in S
      PROVE  /\ txn'[t] \in TxnRow /\ txn'[t].val = txn[t].val
             /\ txn'[t].muted <=> k # "unmuted"
             /\ txn'[t].byMerchant <=> k = "merchant"
  <2>1. txn'[t] = Marked(txn[t], k)
    BY <1>2 DEF Muted
  <2> QED
    BY <1>1, <1>2, <2>1, MarkedRow
<1>3. \A t \in Txns : t \notin S \/ ~Stored(t) => txn'[t] = txn[t]
  BY DEF Muted
<1>4. txn' \in [Txns -> TxnRow \cup {None}]
  <2>1. ASSUME NEW t \in Txns
        PROVE  txn'[t] \in TxnRow \cup {None}
    <3>1. CASE t \in S /\ Stored(t)
      BY <1>2, <3>1
    <3>2. CASE t \notin S \/ ~Stored(t)
      BY <1>1, <1>3, <3>2
    <3> QED
      BY <3>1, <3>2
  <2> QED
    BY <2>1 DEF Muted
<1> QED
  BY <1>1, <1>2, <1>3, <1>4 DEF Muted, Writes

\* One transaction muted or not, by hand.
LEMMA HandMuteStep ==
  ASSUME ClassInv, NEW t \in Txns, MuteTransaction(t) \/ UnmuteTransaction(t)
  PROVE  ClassInv'
<1>1. PICK k \in {"muted", "unmuted"} :
        /\ Muted({t}, k)
        /\ excused' = IF k = "muted" \/ Muting(t) = {} THEN excused \ {t} ELSE excused \cup {t}
  <2>1. CASE MuteTransaction(t)
    BY <2>1 DEF MuteTransaction, Muted, Marked, Update
  <2>2. CASE UnmuteTransaction(t)
    BY <2>2 DEF UnmuteTransaction, Muted, Marked, Update
  <2> QED
    BY <2>1, <2>2
<1>2. UNCHANGED <<patterns, taxonomy, draft, patch>>
  BY DEF MuteTransaction, UnmuteTransaction
<1>3. /\ Writes({t})
      /\ \A u \in Txns : Stored(u) => /\ txn'[u].val = txn[u].val
                                      /\ u = t => (txn'[u].muted <=> k = "muted") /\ ~txn'[u].byMerchant
  BY <1>1, MutedWrites DEF Marks
<1>4. ClassificationTypeOK'
  BY <1>1, <1>2, <1>3 DEF ClassInv, ClassificationTypeOK, Writes, taxonomy
<1>5. DraftsHold'
  BY <1>2, <1>3, RequestKeepsDrafts DEF ClassInv
<1>6. MutesFollowPatterns'
  <2> SUFFICES ASSUME NEW u \in Txns, u \notin excused', txn'[u] # None
               PROVE  (Muting(u) # {} => txn'[u].muted) /\ (txn'[u].byMerchant => Muting(u) # {})
    BY <1>2 DEF MutesFollowPatterns, Stored, Muting
  <2>1. Stored(u)
    BY <1>3, WritesStored DEF ClassInv
  <2>2. CASE u # t
    BY <1>1, <1>3, <2>1, <2>2 DEF Writes, ClassInv, MutesFollowPatterns
  <2>3. CASE u = t
    BY <1>1, <1>3, <2>1, <2>3
  <2> QED
    BY <2>2, <2>3
<1>7. DeletedNamesStayGone'
  BY <1>2, <1>3, ValuesKeepGone DEF taxonomy
<1>8. DraftsForget'
  BY <1>2, SameForgets DEF taxonomy
<1> QED
  BY <1>4, <1>5, <1>6, <1>7, <1>8 DEF ClassInv

\* A pattern comes or goes, and what it matches is written or not.
LEMMA PatternStep ==
  ASSUME ClassInv, NEW p \in MutePatterns,
         MuteByMerchant(p) \/ DeleteMutedMerchant(p) \/ DeleteMutedMerchantAndUnmute(p)
  PROVE  ClassInv'
<1> DEFINE U == {t \in MatchedBy(p) : Stored(t)}
<1>1. \/ /\ patterns' = patterns \cup {p} /\ Muted(MatchedBy(p), "merchant")
         /\ excused' = excused \ U
      \/ /\ patterns' = patterns \ {p} /\ UNCHANGED txn
         /\ excused' = excused \cup {t \in U : txn[t].byMerchant}
      \/ /\ patterns' = patterns \ {p} /\ Muted(MatchedBy(p), "unmuted") /\ p \in patterns
         /\ excused' = (excused \ U) \cup {t \in U : Muting(t) # {p}}
  <2>1. CASE MuteByMerchant(p)
    BY <2>1 DEF MuteByMerchant, Muted, Marked, Update
  <2>2. CASE DeleteMutedMerchant(p)
    BY <2>2 DEF DeleteMutedMerchant
  <2>3. CASE DeleteMutedMerchantAndUnmute(p)
    BY <2>3 DEF DeleteMutedMerchantAndUnmute, Muted, Marked, Update
  <2> QED
    BY <2>1, <2>2, <2>3
<1>2. Late(p) /\ UNCHANGED <<taxonomy, patch>>
  BY DEF MuteByMerchant, DeleteMutedMerchant, DeleteMutedMerchantAndUnmute
<1>3. PICK S : Writes(S) /\ \A t \in Txns : Stored(t) => txn'[t].val = txn[t].val
  <2>1. UNCHANGED txn => Writes({})
    BY WritesSame DEF ClassInv
  <2> QED
    BY <1>1, <2>1, MutedWrites DEF Marks
<1>4. ClassificationTypeOK'
  <2>1. patterns' \subseteq MutePatterns /\ excused' \subseteq Txns
    BY <1>1 DEF ClassInv, ClassificationTypeOK, MatchedBy
  <2>2. draft' \in [Writers -> Draft \cup {None}]
    BY <1>2, LateDrafts DEF ClassInv
  <2>3. txn' \in [Txns -> TxnRow \cup {None}]
    BY <1>3 DEF Writes
  <2> QED
    BY <1>2, <2>1, <2>2, <2>3 DEF ClassInv, ClassificationTypeOK, taxonomy
<1>5. DraftsHold'
  BY <1>1, <1>2, <1>3, PatternsKeepDrafts DEF ClassInv
<1>6. MutesFollowPatterns'
  <2> SUFFICES ASSUME NEW u \in Txns, u \notin excused', txn'[u] # None
               PROVE  /\ Muting(u)' # {} => txn'[u].muted
                      /\ txn'[u].byMerchant => Muting(u)' # {}
    BY DEF MutesFollowPatterns, Stored
  <2>1. Stored(u)
    BY <1>3, WritesStored DEF ClassInv
  <2>2. ASSUME u \notin MatchedBy(p)
        PROVE  Muting(u)' = Muting(u)
    BY <1>1, <2>2 DEF Muting, MatchedBy
  <2>3. CASE /\ patterns' = patterns \cup {p} /\ Muted(MatchedBy(p), "merchant")
             /\ excused' = excused \ U
    <3>1. CASE u \in MatchedBy(p)
      <4>1. txn'[u].muted
        BY <2>1, <2>3, <3>1, MutedWrites DEF Marks
      <4>2. p \in Muting(u)'
        BY <2>3, <3>1 DEF Muting, MatchedBy, ClassInv, ClassificationTypeOK
      <4> QED
        BY <4>1, <4>2
    <3>2. CASE u \notin MatchedBy(p)
      <4>1. txn'[u] = txn[u]
        BY <2>3, <3>2 DEF Muted
      <4> QED
        BY <2>1, <2>2, <2>3, <3>2, <4>1 DEF ClassInv, MutesFollowPatterns
    <3> QED
      BY <3>1, <3>2
  <2>4. CASE /\ patterns' = patterns \ {p} /\ UNCHANGED txn
             /\ excused' = excused \cup {t \in U : txn[t].byMerchant}
    <3>1. Muting(u)' \subseteq Muting(u)
      BY <2>4 DEF Muting
    <3>2. (Muting(u) # {} => txn[u].muted) /\ (txn[u].byMerchant => Muting(u) # {})
      BY <2>1, <2>4 DEF ClassInv, MutesFollowPatterns
    <3>3. txn[u].byMerchant => u \notin MatchedBy(p)
      BY <2>1, <2>4
    <3> QED
      BY <2>2, <2>4, <3>1, <3>2, <3>3
  <2>5. CASE /\ patterns' = patterns \ {p} /\ Muted(MatchedBy(p), "unmuted") /\ p \in patterns
             /\ excused' = (excused \ U) \cup {t \in U : Muting(t) # {p}}
    <3>1. CASE u \in MatchedBy(p)
      <4>1. ~txn'[u].byMerchant
        BY <2>1, <2>5, <3>1, MutedWrites DEF Marks
      <4>2. Muting(u) = {p}
        BY <2>1, <2>5, <3>1
      <4>3. Muting(u)' = {}
        BY <2>5, <4>2 DEF Muting
      <4> QED
        BY <4>1, <4>3
    <3>2. CASE u \notin MatchedBy(p)
      <4>1. txn'[u] = txn[u] /\ u \notin excused
        BY <2>5, <3>2 DEF Muted
      <4> QED
        BY <2>1, <2>2, <3>2, <4>1 DEF ClassInv, MutesFollowPatterns
    <3> QED
      BY <3>1, <3>2
  <2> QED
    BY <1>1, <2>3, <2>4, <2>5
<1>7. DeletedNamesStayGone'
  BY <1>2, <1>3, ValuesKeepGone DEF taxonomy
<1>8. DraftsForget'
  BY <1>2, LateForgets DEF taxonomy
<1> QED
  BY <1>4, <1>5, <1>6, <1>7, <1>8 DEF ClassInv

-----------------------------------------------------------------------------
(* Categories and buckets *)

\* The stored rows of S get the values V, and keep their mutes.
Valued(S, V) ==
  /\ Unheld(S)
  /\ txn' = [t \in Txns |-> IF t \in S /\ Stored(t) THEN [txn[t] EXCEPT !.val = V[t]] ELSE txn[t]]

MutesKept ==
  \A t \in Txns : Stored(t) => /\ txn'[t].muted = txn[t].muted
                               /\ txn'[t].byMerchant = txn[t].byMerchant

LEMMA ValuedWrites ==
  ASSUME ClassInv, NEW S, NEW V, Valued(S, V),
         \A t \in Txns : t \in S /\ Stored(t) => V[t] \in Values
  PROVE  /\ Writes(S) /\ MutesKept
         /\ \A t \in Txns : Stored(t) => txn'[t].val = IF t \in S THEN V[t] ELSE txn[t].val
<1>1. \A t \in Txns : /\ Stored(t) => txn[t] \in TxnRow
                      /\ txn[t] \in TxnRow \cup {None}
  BY StoredRow DEF ClassInv, ClassificationTypeOK
<1>2. ASSUME NEW t \in Txns, Stored(t), t \in S
      PROVE  /\ txn'[t] \in TxnRow /\ txn'[t].val = V[t]
             /\ txn'[t].muted = txn[t].muted /\ txn'[t].byMerchant = txn[t].byMerchant
  <2>1. txn'[t] = [txn[t] EXCEPT !.val = V[t]]
    BY <1>2 DEF Valued
  <2> QED
    BY <1>1, <1>2, <2>1, RowValSet
<1>3. \A t \in Txns : t \notin S \/ ~Stored(t) => txn'[t] = txn[t]
  BY DEF Valued
<1>4. txn' \in [Txns -> TxnRow \cup {None}]
  BY <1>1, <1>2, <1>3 DEF Valued
<1> QED
  BY <1>1, <1>2, <1>3, <1>4 DEF Valued, Writes, MutesKept

LEMMA TaxonomyKeeps ==
  ASSUME ClassInv, NEW S, Writes(S), MutesKept, UNCHANGED <<mutes, draft>>,
         mapping' \in [Fragments -> Mapped \cup {None}], listed' \subseteq Named,
         patch' \in Patch \cup {None}, pruning' \subseteq Fragments, gone' \subseteq Named,
         DraftsForget',
         \A e \in gone', t \in Txns : Stored(t) => txn'[t].val[e[1]] # e[2],
         \A e \in gone', f \in Fragments : mapping'[f] # None => mapping'[f][e[1]] # e[2]
  PROVE  ClassInv'
<1>1. ClassificationTypeOK'
  BY DEF ClassInv, ClassificationTypeOK, Writes, mutes
<1>2. DraftsHold'
  BY RequestKeepsDrafts DEF ClassInv, mutes
<1>3. \A t \in Txns : txn'[t] # None <=> Stored(t)
  BY WritesStored DEF ClassInv
<1>4. MutesFollowPatterns'
  BY <1>3 DEF ClassInv, MutesFollowPatterns, MutesKept, Stored, Muting, mutes
<1>5. DeletedNamesStayGone'
  BY <1>3 DEF DeletedNamesStayGone, Stored
<1> QED
  BY <1>1, <1>2, <1>4, <1>5 DEF ClassInv

LEMMA MutesSame ==
  ASSUME UNCHANGED txn
  PROVE  MutesKept
BY DEF MutesKept

LEMMA GoneType == ClassInv => gone \subseteq Named /\ \A e \in gone : e = <<e[1], e[2]>>
BY DEF ClassInv, ClassificationTypeOK, Named

\* A name is looked up and written back to a transaction later.
LEMMA PatchStep ==
  ASSUME ClassInv,
         \/ \E t \in Txns, c \in Columns, n \in Categories \cup Buckets \cup {Empty} : validateTaxonomy(t, c, n)
         \/ UpdateTransaction
  PROVE  ClassInv'
<1>1. ASSUME NEW t \in Txns, NEW c \in Columns, NEW n \in Categories \cup Buckets \cup {Empty},
             validateTaxonomy(t, c, n)
      PROVE  ClassInv'
  <2>1. n \in Names(c) \cup {Empty}
    BY <1>1 DEF validateTaxonomy, ClassInv, ClassificationTypeOK, Named
  <2>2. patch' \in Patch
    BY <1>1, <2>1 DEF validateTaxonomy, Patch
  <2>3. UNCHANGED <<txn, mutes, taxonomy, draft>>
    BY <1>1 DEF validateTaxonomy
  <2>4. Writes({}) /\ MutesKept /\ DraftsForget'
    BY <2>3, WritesSame, MutesSame, SameForgets DEF ClassInv, taxonomy
  <2> QED
    BY <2>2, <2>3, <2>4, TaxonomyKeeps
       DEF ClassInv, ClassificationTypeOK, taxonomy, DeletedNamesStayGone, Stored
<1>2. CASE UpdateTransaction
  <2> DEFINE c == patch.c
             n == patch.n
             V == [t \in Txns |-> [txn[t].val EXCEPT ![c] = n]]
  <2>1. c \in Columns /\ n \in Names(c) \cup {Empty} /\ patch \in Patch
    BY <1>2 DEF UpdateTransaction, ClassInv, ClassificationTypeOK, Patch
  <2>2. \A t \in Txns : Stored(t) => /\ V[t] \in Values
                                     /\ V[t][c] = n
                                     /\ \A d \in Columns \ {c} : V[t][d] = txn[t].val[d]
    <3>1. \A t \in Txns : Stored(t) => txn[t].val \in Values
      BY StoredRow DEF ClassInv, TxnRow
    <3> QED
      BY <2>1, <3>1, ValSet DEF Values
  <2>3. /\ Valued({patch.t}, V) /\ gone' = gone \ {<<c, n>>} /\ patch' = None
        /\ UNCHANGED <<mutes, mapping, listed, pruning, draft>>
    BY <1>2 DEF UpdateTransaction, Update, Valued
  <2> HIDE DEF V, c, n
  <2>4. /\ Writes({patch.t}) /\ MutesKept
        /\ \A t \in Txns : Stored(t) => txn'[t].val = IF t \in {patch.t} THEN V[t] ELSE txn[t].val
    BY <2>2, <2>3, ValuedWrites
  <2>5. \A e \in gone', t \in Txns : Stored(t) => txn'[t].val[e[1]] # e[2]
    <3> SUFFICES ASSUME NEW e \in gone', NEW t \in Txns, Stored(t)
                 PROVE  txn'[t].val[e[1]] # e[2]
      OBVIOUS
    <3>1. e \in gone /\ e # <<c, n>> /\ e = <<e[1], e[2]>> /\ e[1] \in Columns
      BY <2>3, GoneType, NamedEmpty
    <3>2. txn[t].val[e[1]] # e[2]
      BY <3>1 DEF ClassInv, DeletedNamesStayGone
    <3> QED
      BY <2>2, <2>4, <3>1, <3>2
  <2>6. DraftsForget'
    BY <2>3, SameForgets
  <2> QED
    BY <2>3, <2>4, <2>5, <2>6, TaxonomyKeeps DEF ClassInv, ClassificationTypeOK, DeletedNamesStayGone
<1> QED
  BY <1>1, <1>2

\* Rows and a mapping get a value, whose names are in use from now on.
LEMMA CategorizeStep ==
  ASSUME ClassInv, NEW f \in Fragments, NEW S \in SUBSET Txns, NEW v \in Values, CategorizeMerchant(f, S, v)
  PROVE  ClassInv'
<1> DEFINE V == [t \in Txns |-> v]
<1>1. /\ Valued(S, V) /\ mapping' = [mapping EXCEPT ![f] = v]
      /\ gone' = gone \ {<<c, v[c]>> : c \in Columns}
      /\ UNCHANGED <<mutes, listed, pruning, draft, patch>>
  BY DEF CategorizeMerchant, Update, Valued
<1>2. \A t \in Txns : V[t] = v
  OBVIOUS
<1> HIDE DEF V
<1>3. /\ Writes(S) /\ MutesKept
      /\ \A t \in Txns : Stored(t) => txn'[t].val = IF t \in S THEN V[t] ELSE txn[t].val
  BY <1>1, <1>2, ValuedWrites
<1>4. \A e \in gone' : e \in gone /\ v[e[1]] # e[2]
  BY <1>1, GoneType, NamedEmpty
<1>5. mapping' \in [Fragments -> Mapped \cup {None}]
  BY <1>1, ValuesAreMapped DEF ClassInv, ClassificationTypeOK
<1>6. \A e \in gone', g \in Fragments : mapping'[g] # None => mapping'[g][e[1]] # e[2]
  BY <1>1, <1>4 DEF ClassInv, ClassificationTypeOK, DeletedNamesStayGone
<1>7. \A e \in gone', t \in Txns : Stored(t) => txn'[t].val[e[1]] # e[2]
  BY <1>2, <1>3, <1>4 DEF ClassInv, DeletedNamesStayGone
<1>8. DraftsForget'
  BY <1>1, SameForgets
<1> QED
  BY <1>1, <1>3, <1>5, <1>6, <1>7, <1>8, TaxonomyKeeps DEF ClassInv, ClassificationTypeOK

LEMMA MappedSet ==
  ASSUME NEW v \in Mapped, NEW c \in Columns, NEW n \in Names(c) \cup {Empty, None}
  PROVE  /\ [v EXCEPT ![c] = n] \in Mapped
         /\ \A d \in Columns : [v EXCEPT ![c] = n][d] = IF d = c THEN n ELSE v[d]
BY DEF Mapped, Names, Columns

LEMMA ApplyStep ==
  ASSUME ClassInv, NEW f \in Fragments, NEW S \in SUBSET Txns, NEW c \in Columns, NEW n \in Names(c),
         applyTaxonomyByMerchant(f, S, c, n)
  PROVE  ClassInv'
<1> DEFINE V == [t \in Txns |-> [txn[t].val EXCEPT ![c] = n]]
           v == [d \in Columns |-> IF d = c THEN n
                                   ELSE IF mapping[f] = None THEN None ELSE mapping[f][d]]
<1>1. /\ Valued(S, V) /\ mapping' = [mapping EXCEPT ![f] = v] /\ gone' = gone \ {<<c, n>>}
      /\ UNCHANGED <<mutes, listed, pruning, draft, patch>>
  BY DEF applyTaxonomyByMerchant, Update, Valued
<1>2. \A t \in Txns : Stored(t) => /\ V[t] \in Values
                                   /\ V[t][c] = n
                                   /\ \A d \in Columns \ {c} : V[t][d] = txn[t].val[d]
  <2>1. \A t \in Txns : Stored(t) => txn[t].val \in Values
    BY StoredRow DEF ClassInv, TxnRow
  <2> QED
    BY <2>1, ValSet DEF Values
<1>3. /\ v \in Mapped /\ v[c] = n
      /\ \A d \in Columns \ {c} : v[d] = None \/ (mapping[f] # None /\ v[d] = mapping[f][d])
  <2>1. mapping[f] # None => mapping[f] \in Mapped
    BY DEF ClassInv, ClassificationTypeOK
  <2> QED
    BY <2>1 DEF Mapped, Names
<1> HIDE DEF V, v
<1>4. /\ Writes(S) /\ MutesKept
      /\ \A t \in Txns : Stored(t) => txn'[t].val = IF t \in S THEN V[t] ELSE txn[t].val
  BY <1>1, <1>2, ValuedWrites
<1>5. \A e \in gone' : /\ e \in gone /\ e \in Named /\ e[1] \in Columns /\ e[2] # None
                       /\ e[1] = c => e[2] # n
  BY <1>1, GoneType, NamedEmpty
<1>6. mapping' \in [Fragments -> Mapped \cup {None}]
  BY <1>1, <1>3 DEF ClassInv, ClassificationTypeOK
<1>7. \A e \in gone', g \in Fragments : mapping'[g] # None => mapping'[g][e[1]] # e[2]
  <2> SUFFICES ASSUME NEW e \in gone', NEW g \in Fragments, mapping'[g] # None
               PROVE  mapping'[g][e[1]] # e[2]
    OBVIOUS
  <2>1. mapping[g] # None => mapping[g][e[1]] # e[2]
    BY <1>5 DEF ClassInv, DeletedNamesStayGone
  <2>2. mapping'[g] = IF g = f THEN v ELSE mapping[g]
    BY <1>1 DEF ClassInv, ClassificationTypeOK
  <2> QED
    BY <1>3, <1>5, <2>1, <2>2
<1>8. \A e \in gone', t \in Txns : Stored(t) => txn'[t].val[e[1]] # e[2]
  BY <1>2, <1>4, <1>5 DEF ClassInv, DeletedNamesStayGone
<1>9. DraftsForget'
  BY <1>1, SameForgets
<1> QED
  BY <1>1, <1>4, <1>6, <1>7, <1>8, <1>9, TaxonomyKeeps DEF ClassInv, ClassificationTypeOK

\* Requests that write only mappings and the list of names.
LEMMA MappingStep ==
  ASSUME ClassInv,
         \/ \E f \in Fragments, c \in Columns : \E n \in Names(c) : removeTaxonomyByMerchant(f, c, n)
         \/ \E f \in Fragments : PruneMapping(f)
         \/ \E c \in Columns : \E n \in Names(c) : CreateTaxonomy(c, n)
  PROVE  ClassInv'
<1>1. ASSUME UNCHANGED <<txn, mutes, gone, draft, patch>>, pruning' \subseteq Fragments, listed' \subseteq Named,
             mapping' \in [Fragments -> Mapped \cup {None}],
             \A e \in gone, f \in Fragments : mapping'[f] # None => mapping'[f][e[1]] # e[2]
      PROVE  ClassInv'
  <2>1. Writes({}) /\ MutesKept /\ DraftsForget'
    BY <1>1, WritesSame, MutesSame, SameForgets DEF ClassInv
  <2> QED
    BY <1>1, <2>1, TaxonomyKeeps DEF ClassInv, ClassificationTypeOK, DeletedNamesStayGone, Stored
<1>2. ASSUME NEW f \in Fragments, NEW c \in Columns, NEW n \in Names(c), removeTaxonomyByMerchant(f, c, n)
      PROVE  ClassInv'
  <2> DEFINE v == [mapping[f] EXCEPT ![c] = None]
  <2>1. /\ mapping' = [mapping EXCEPT ![f] = v] /\ pruning' = pruning \cup {f} /\ mapping[f] # None
        /\ UNCHANGED <<txn, mutes, listed, gone, draft, patch>>
    BY <1>2 DEF removeTaxonomyByMerchant
  <2>2. mapping[f] \in Mapped
    BY <2>1 DEF ClassInv, ClassificationTypeOK
  <2>3. v \in Mapped /\ \A d \in Columns : v[d] = IF d = c THEN None ELSE mapping[f][d]
    BY <2>2, MappedSet
  <2> HIDE DEF v
  <2>4. \A e \in gone, g \in Fragments : mapping'[g] # None => mapping'[g][e[1]] # e[2]
    <3> SUFFICES ASSUME NEW e \in gone, NEW g \in Fragments, mapping'[g] # None
                 PROVE  mapping'[g][e[1]] # e[2]
      OBVIOUS
    <3>1. e[1] \in Columns /\ e[2] # None /\ (mapping[g] # None => mapping[g][e[1]] # e[2])
      BY GoneType, NamedEmpty DEF ClassInv, DeletedNamesStayGone
    <3>2. mapping'[g] = IF g = f THEN v ELSE mapping[g]
      BY <2>1 DEF ClassInv, ClassificationTypeOK
    <3> QED
      BY <2>1, <2>3, <3>1, <3>2
  <2> QED
    BY <1>1, <2>1, <2>3, <2>4 DEF ClassInv, ClassificationTypeOK
<1>3. ASSUME NEW f \in Fragments, PruneMapping(f)
      PROVE  ClassInv'
  <2>1. \A g \in Fragments : mapping'[g] \in {mapping[g], None}
    BY <1>3 DEF PruneMapping, ClassInv, ClassificationTypeOK
  <2> QED
    BY <1>1, <1>3, <2>1 DEF PruneMapping, ClassInv, ClassificationTypeOK, DeletedNamesStayGone
<1>4. ASSUME NEW c \in Columns, NEW n \in Names(c), CreateTaxonomy(c, n)
      PROVE  ClassInv'
  <2>1. <<c, n>> \in Named
    BY DEF Named, Names
  <2> QED
    BY <1>1, <1>4, <2>1 DEF CreateTaxonomy, ClassInv, ClassificationTypeOK, DeletedNamesStayGone
<1> QED
  BY <1>2, <1>3, <1>4

LEMMA DeleteStep ==
  ASSUME ClassInv, NEW c \in Columns, NEW n \in Names(c), NEW remove \in BOOLEAN,
         deleteNamedTaxonomy(c, n, remove)
  PROVE  ClassInv'
<1> DEFINE S == {t \in Txns : Stored(t) /\ txn[t].val[c] = n}
           V == [t \in Txns |-> [txn[t].val EXCEPT ![c] = Empty]]
           unused == \A w \in Writers : draft[w] # None => draft[w].row.val[c] # n
<1>1. /\ remove => Valued(S, V)
      /\ ~remove => UNCHANGED txn
      /\ gone' = IF remove /\ unused THEN gone \cup {<<c, n>>} ELSE gone
      /\ listed' \subseteq listed /\ UNCHANGED <<mutes, pruning, draft, patch>>
  BY DEF deleteNamedTaxonomy, Update, Valued
<1>2. <<c, n>> \in Named /\ n # Empty /\ n # None
  <2>1. <<c, n>> \in Named
    BY DEF Named, Names
  <2> QED
    BY <2>1, NamedEmpty
<1>3. \A t \in Txns : Stored(t) => /\ V[t] \in Values
                                   /\ V[t][c] = Empty
                                   /\ \A d \in Columns \ {c} : V[t][d] = txn[t].val[d]
  <2>1. \A t \in Txns : Stored(t) => txn[t].val \in Values
    BY StoredRow DEF ClassInv, TxnRow
  <2> QED
    BY <2>1, ValSet DEF Values
<1>4. \A f \in Fragments :
        /\ mapping'[f] \in Mapped \cup {None}
        /\ mapping'[f] # None => /\ mapping[f] # None /\ mapping'[f][c] # n
                                 /\ \A d \in Columns : mapping'[f][d] \in {mapping[f][d], None}
  <2> SUFFICES ASSUME NEW f \in Fragments
               PROVE  /\ mapping'[f] \in Mapped \cup {None}
                      /\ mapping'[f] # None => /\ mapping[f] # None /\ mapping'[f][c] # n
                                               /\ \A d \in Columns : mapping'[f][d] \in {mapping[f][d], None}
    OBVIOUS
  <2> DEFINE v == [mapping[f] EXCEPT ![c] = None]
  <2>1. mapping'[f] = IF mapping[f] = None \/ mapping[f][c] # n THEN mapping[f]
                      ELSE IF v = Blank THEN None ELSE v
    BY DEF deleteNamedTaxonomy, clearMappings
  <2>2. mapping[f] \in Mapped \cup {None}
    BY DEF ClassInv, ClassificationTypeOK
  <2>3. mapping[f] # None => v \in Mapped /\ \A d \in Columns : v[d] = IF d = c THEN None ELSE mapping[f][d]
    BY <2>2, MappedSet
  <2> HIDE DEF v
  <2> QED
    BY <1>2, <2>1, <2>2, <2>3
<1>5. mapping' \in [Fragments -> Mapped \cup {None}]
  BY <1>4 DEF deleteNamedTaxonomy, clearMappings
<1> HIDE DEF V
<1>6. PICK T : /\ Writes(T) /\ MutesKept
               /\ \A t \in Txns : Stored(t) => txn'[t].val = IF remove /\ t \in S THEN V[t] ELSE txn[t].val
  <2>1. CASE remove
    <3>1. /\ Writes(S) /\ MutesKept
          /\ \A t \in Txns : Stored(t) => txn'[t].val = IF t \in S THEN V[t] ELSE txn[t].val
      <4> HIDE DEF S
      <4> QED
        BY <1>1, <1>3, <2>1, ValuedWrites
    <3> QED
      BY <2>1, <3>1
  <2>2. CASE ~remove
    BY <1>1, <2>2, WritesSame, MutesSame DEF ClassInv
  <2> QED
    BY <2>1, <2>2
<1>7. ASSUME NEW e \in gone'
      PROVE  /\ e \in Named /\ e[1] \in Columns /\ e[2] # Empty /\ e[2] # None
             /\ e \in gone \/ (e[1] = c /\ e[2] = n /\ remove /\ unused)
  BY <1>1, <1>2, GoneType, NamedEmpty
<1>8. \A e \in gone', t \in Txns : Stored(t) => txn'[t].val[e[1]] # e[2]
  <2> SUFFICES ASSUME NEW e \in gone', NEW t \in Txns, Stored(t)
               PROVE  txn'[t].val[e[1]] # e[2]
    OBVIOUS
  <2>1. e \in gone => txn[t].val[e[1]] # e[2]
    BY DEF ClassInv, DeletedNamesStayGone
  <2>2. t \in S <=> txn[t].val[c] = n
    OBVIOUS
  <2> HIDE DEF S
  <2> QED
    BY <1>3, <1>6, <1>7, <2>1, <2>2
<1>9. \A e \in gone', f \in Fragments : mapping'[f] # None => mapping'[f][e[1]] # e[2]
  BY <1>4, <1>7 DEF ClassInv, DeletedNamesStayGone
<1>10. DraftsForget'
  BY <1>1, <1>7 DEF ClassInv, DraftsForget, Open
<1>11. listed' \subseteq Named /\ gone' \subseteq Named
  BY <1>1, <1>7 DEF ClassInv, ClassificationTypeOK
<1> QED
  BY <1>1, <1>5, <1>6, <1>8, <1>9, <1>10, <1>11, TaxonomyKeeps DEF ClassInv, ClassificationTypeOK

-----------------------------------------------------------------------------
(* Ingestion *)

\* A writer begins or goes on with the draft d.
LEMMA DraftStep ==
  ASSUME ClassInv, NEW w \in Writers, NEW d \in Draft, draft' = [draft EXCEPT ![w] = d],
         UNCHANGED <<txn, mutes, mapping, listed, pruning, patch>>, gone' \subseteq gone,
         \A u \in Writers \ {w} : Open(u) => draft[u].t # d.t,
         DraftKeepsEdits(d), DraftMute(d), \A e \in gone' : d.row.val[e[1]] # e[2]
  PROVE  ClassInv'
<1>1. draft'[w] = d /\ \A u \in Writers \ {w} : draft'[u] = draft[u]
  BY DEF ClassInv, ClassificationTypeOK
<1>2. ClassificationTypeOK'
  BY DEF ClassInv, ClassificationTypeOK, mutes
<1>3. DraftsApart'
  BY <1>1 DEF ClassInv, DraftsHold, DraftsApart, Open
<1>4. ASSUME NEW u \in Writers, draft'[u] # None
      PROVE  DraftKeepsEdits(draft[u])' /\ DraftMute(draft[u])'
  <2>1. DraftKeepsEdits(draft'[u]) /\ DraftMute(draft'[u])
    BY <1>1, <1>4 DEF ClassInv, DraftsHold, Open
  <2> QED
    BY <2>1 DEF DraftKeepsEdits, DraftMute, MuteCarried, Stored, Muting, mutes
<1>5. DraftsForget'
  BY <1>1 DEF ClassInv, DraftsForget, Open
<1>6. MutesFollowPatterns' /\ DeletedNamesStayGone'
  BY DEF ClassInv, MutesFollowPatterns, DeletedNamesStayGone, Stored, Muting, mutes
<1> QED
  BY <1>2, <1>3, <1>4, <1>5, <1>6 DEF ClassInv, DraftsHold, Open

LEMMA WriteStep ==
  ASSUME ClassInv, NEW w \in Writers, NEW t \in Txns, NEW x \in Values, Write(w, t, x)
  PROVE  ClassInv'
<1> DEFINE row == IF Stored(t) THEN [txn[t] EXCEPT !.val = Preserve(@, x)]
                  ELSE [val |-> x, muted |-> FALSE, byMerchant |-> FALSE]
           d == [t |-> t, pc |-> "upserted", late |-> FALSE, row |-> row]
<1>1. /\ draft' = [draft EXCEPT ![w] = d] /\ gone' = gone \ {<<c, x[c]>> : c \in Columns}
      /\ \A u \in Writers : Open(u) => draft[u].t # t
      /\ UNCHANGED <<txn, mutes, mapping, listed, pruning, patch>>
  BY DEF Write, Open
<1>2. \A e \in gone' : e \in gone /\ x[e[1]] # e[2] /\ e[1] \in Columns /\ e[2] # Empty
  BY <1>1, GoneType, NamedEmpty
<1>3. CASE Stored(t)
  <2> DEFINE v == Preserve(txn[t].val, x)
  <2>1. txn[t] \in TxnRow /\ txn[t].val \in Values /\ x \in Mapped
    BY <1>3, StoredRow, ValuesAreMapped DEF ClassInv, TxnRow
  <2>2. /\ v \in Values
        /\ \A c \in Columns : txn[t].val[c] # Empty => v[c] = txn[t].val[c]
        /\ \A e \in gone' : v[e[1]] # e[2]
    <3>1. \A e \in gone' : txn[t].val[e[1]] # e[2]
      BY <1>2, <1>3 DEF ClassInv, DeletedNamesStayGone
    <3> QED
      BY <1>2, <2>1, <3>1, PreserveType
  <2>3. row = [txn[t] EXCEPT !.val = v]
    BY <1>3
  <2> HIDE DEF v, row
  <2>4. row \in TxnRow /\ row.val = v /\ row.muted = txn[t].muted /\ row.byMerchant = txn[t].byMerchant
    BY <2>1, <2>2, <2>3, RowValSet
  <2>5. d \in Draft /\ d.t = t /\ d.pc = "upserted" /\ d.row = row
    BY <2>4 DEF Draft
  <2> HIDE DEF d
  <2>6. DraftKeepsEdits(d)
    BY <2>2, <2>4, <2>5 DEF DraftKeepsEdits
  <2>7. DraftMute(d)
    BY <1>3, <2>4, <2>5 DEF DraftMute, MuteCarried
  <2> QED
    BY <1>1, <2>2, <2>4, <2>5, <2>6, <2>7, DraftStep
<1>4. CASE ~Stored(t)
  <2>1. row = [val |-> x, muted |-> FALSE, byMerchant |-> FALSE]
    BY <1>4
  <2>2. row \in TxnRow /\ row.val = x /\ ~row.muted /\ ~row.byMerchant
    BY <2>1 DEF TxnRow
  <2> HIDE DEF row
  <2>3. d \in Draft /\ d.t = t /\ d.pc = "upserted" /\ d.row = row
    BY <2>2 DEF Draft
  <2> HIDE DEF d
  <2>4. DraftKeepsEdits(d) /\ DraftMute(d)
    BY <1>4, <2>2, <2>3 DEF DraftKeepsEdits, DraftMute, MuteCarried
  <2> QED
    BY <1>1, <1>2, <2>2, <2>3, <2>4, DraftStep
<1> QED
  BY <1>3, <1>4

LEMMA ApplyCategoriesStep ==
  ASSUME ClassInv, NEW w \in Writers, applyMerchantCategories(w)
  PROVE  ClassInv'
<1> DEFINE M == {f \in Fragments : /\ mapping[f] # None /\ mapping[f]["category"] # None
                                   /\ <<draft[w].t, f>> \in Contains}
           best == CHOOSE f \in M : \A g \in M : Rank[f] <= Rank[g]
           v == IF M = {} THEN draft[w].row.val ELSE Preserve(draft[w].row.val, mapping[best])
           row == [draft[w].row EXCEPT !.val = v]
           d == [draft[w] EXCEPT !.pc = "categorized", !.row = row]
<1>1. Open(w) /\ draft[w].pc = "upserted" /\ UNCHANGED <<txn, mutes, taxonomy, patch>>
  BY DEF applyMerchantCategories, Open
<1>2. /\ draft[w] \in Draft /\ draft[w].row \in TxnRow /\ draft[w].row.val \in Values
  BY <1>1, OpenDraft DEF ClassInv
<1>3. draft' = [draft EXCEPT ![w] = d]
  <2>1. draft' = [draft EXCEPT ![w].pc = "categorized", ![w].row.val = v]
    BY DEF applyMerchantCategories
  <2> HIDE DEF v
  <2> QED
    BY <2>1
<1>4. M # {} => best \in M
  BY RankAssumption
<1>5. /\ v \in Values
      /\ \A c \in Columns : draft[w].row.val[c] # Empty => v[c] = draft[w].row.val[c]
      /\ \A e \in gone : v[e[1]] # e[2]
  <2>1. \A e \in gone : draft[w].row.val[e[1]] # e[2] /\ e[1] \in Columns /\ e[2] # Empty
    BY <1>1, GoneType, NamedEmpty DEF ClassInv, DraftsForget
  <2>2. CASE M = {}
    BY <1>2, <2>1, <2>2
  <2>3. CASE M # {}
    <3>1. /\ mapping[best] \in Mapped
          /\ \A e \in gone : mapping[best][e[1]] # e[2]
      BY <1>4, <2>3 DEF ClassInv, ClassificationTypeOK, DeletedNamesStayGone
    <3>2. v = Preserve(draft[w].row.val, mapping[best])
      BY <2>3
    <3> HIDE DEF best, v
    <3> QED
      BY <1>2, <2>1, <3>1, <3>2, PreserveType
  <2> QED
    BY <2>2, <2>3
<1> HIDE DEF v
<1>6. row \in TxnRow /\ row.val = v /\ row.muted = draft[w].row.muted /\ row.byMerchant = draft[w].row.byMerchant
  BY <1>2, <1>5, RowValSet
<1> HIDE DEF row
<1>7. d \in Draft /\ d.t = draft[w].t /\ d.pc = "categorized" /\ d.row = row
  BY <1>2, <1>6 DEF Draft
<1> HIDE DEF d
<1>8. DraftKeepsEdits(draft[w]) /\ MuteCarried(draft[w])
  BY <1>1 DEF ClassInv, DraftsHold, DraftMute
<1>9. DraftKeepsEdits(d)
  BY <1>5, <1>6, <1>7, <1>8 DEF DraftKeepsEdits
<1>10. DraftMute(d)
  BY <1>6, <1>7, <1>8 DEF DraftMute, MuteCarried
<1>11. \A u \in Writers \ {w} : Open(u) => draft[u].t # d.t
  BY <1>1, <1>7 DEF ClassInv, DraftsHold, DraftsApart
<1> QED
  BY <1>1, <1>3, <1>5, <1>6, <1>7, <1>9, <1>10, <1>11, DraftStep DEF taxonomy

LEMMA ApplyMutedStep ==
  ASSUME ClassInv, NEW w \in Writers, applyMutedMerchants(w)
  PROVE  ClassInv'
<1> DEFINE row == IF Muting(draft[w].t) = {} THEN draft[w].row ELSE Marked(draft[w].row, "merchant")
           d == [draft[w] EXCEPT !.pc = "muted", !.row = row]
<1>1. Open(w) /\ draft[w].pc = "categorized" /\ UNCHANGED <<txn, mutes, taxonomy, patch>>
  BY DEF applyMutedMerchants, Open
<1>2. draft[w] \in Draft /\ draft[w].row \in TxnRow
  BY <1>1, OpenDraft DEF ClassInv
<1>3. draft' = [draft EXCEPT ![w] = d]
  BY DEF applyMutedMerchants, Marked
<1>4. /\ row \in TxnRow /\ row.val = draft[w].row.val
      /\ Muting(draft[w].t) = {} => row = draft[w].row
      /\ Muting(draft[w].t) # {} => row.muted /\ row.byMerchant
  BY <1>2, MarkedRow DEF Marks
<1> HIDE DEF row
<1>5. d \in Draft /\ d.t = draft[w].t /\ d.pc = "muted" /\ d.row = row
  BY <1>2, <1>4 DEF Draft
<1> HIDE DEF d
<1>6. DraftKeepsEdits(draft[w]) /\ MuteCarried(draft[w])
  BY <1>1 DEF ClassInv, DraftsHold, DraftMute
<1>7. DraftKeepsEdits(d)
  BY <1>4, <1>5, <1>6 DEF DraftKeepsEdits
<1>8. DraftMute(d)
  BY <1>4, <1>5, <1>6 DEF DraftMute, MuteCarried
<1>9. \A u \in Writers \ {w} : Open(u) => draft[u].t # d.t
  BY <1>1, <1>5 DEF ClassInv, DraftsHold, DraftsApart
<1>10. \A e \in gone : d.row.val[e[1]] # e[2]
  BY <1>1, <1>4, <1>5 DEF ClassInv, DraftsForget
<1> QED
  BY <1>1, <1>3, <1>5, <1>7, <1>8, <1>9, <1>10, DraftStep DEF taxonomy

LEMMA CommitStep ==
  ASSUME ClassInv, NEW w \in Writers, CommitDraft(w)
  PROVE  ClassInv'
<1> DEFINE d == draft[w]
<1>1. /\ Open(w) /\ d.pc = "muted" /\ d \in Draft /\ d.t \in Txns /\ d.row \in TxnRow
      /\ txn' = [txn EXCEPT ![d.t] = d.row] /\ draft' = [draft EXCEPT ![w] = None]
      /\ excused' = IF d.late THEN excused \cup {d.t}
                    ELSE IF d.row.byMerchant /\ Muting(d.t) # {} THEN excused \ {d.t} ELSE excused
      /\ UNCHANGED <<patterns, taxonomy, patch>>
  BY OpenDraft DEF CommitDraft, Open, ClassInv
<1>2. /\ DraftKeepsEdits(d) /\ DraftMute(d)
      /\ \A e \in gone : d.row.val[e[1]] # e[2]
      /\ \A u \in Writers \ {w} : Open(u) => draft[u].t # d.t
  BY <1>1 DEF ClassInv, DraftsHold, DraftsApart, DraftsForget
<1> HIDE DEF d
<1>3. /\ txn'[d.t] = d.row /\ d.row # None
      /\ \A t \in Txns \ {d.t} : txn'[t] = txn[t]
  BY <1>1, AbsentAssumption DEF ClassInv, ClassificationTypeOK
<1>4. /\ draft'[w] = None
      /\ \A u \in Writers \ {w} : draft'[u] = draft[u]
  BY <1>1 DEF ClassInv, ClassificationTypeOK
<1>5. ClassificationTypeOK'
  BY <1>1 DEF ClassInv, ClassificationTypeOK, taxonomy
<1>6. DraftsHold'
  <2>1. ASSUME NEW u \in Writers, draft'[u] # None
        PROVE  DraftKeepsEdits(draft[u])' /\ DraftMute(draft[u])'
    <3>1. u # w /\ draft'[u] = draft[u] /\ Open(u) /\ draft[u].t \in Txns \ {d.t}
      BY <1>2, <1>4, <2>1, OpenDraft DEF Open, ClassInv
    <3>2. DraftKeepsEdits(draft[u]) /\ DraftMute(draft[u]) /\ txn'[draft[u].t] = txn[draft[u].t]
      BY <1>3, <3>1 DEF ClassInv, DraftsHold
    <3> QED
      BY <1>1, <3>1, <3>2 DEF DraftKeepsEdits, DraftMute, MuteCarried, Stored, Muting
  <2>2. DraftsApart'
    BY <1>4 DEF ClassInv, DraftsHold, DraftsApart, Open
  <2> QED
    BY <2>1, <2>2 DEF DraftsHold, Open
<1>7. MutesFollowPatterns'
  <2> SUFFICES ASSUME NEW u \in Txns, u \notin excused', txn'[u] # None
               PROVE  (Muting(u) # {} => txn'[u].muted) /\ (txn'[u].byMerchant => Muting(u) # {})
    BY <1>1 DEF MutesFollowPatterns, Stored, Muting
  <2>1. CASE u # d.t
    BY <1>1, <1>3, <2>1 DEF ClassInv, MutesFollowPatterns, Stored
  <2>2. CASE u = d.t /\ Muting(u) # {}
    BY <1>1, <1>2, <1>3, <2>2 DEF DraftMute
  <2>3. CASE u = d.t /\ Muting(u) = {}
    <3>1. MuteCarried(d) /\ u \notin excused
      BY <1>1, <1>2, <2>3 DEF DraftMute
    <3>2. Stored(u) => ~txn[u].byMerchant
      BY <2>3, <3>1 DEF ClassInv, MutesFollowPatterns
    <3> QED
      BY <1>3, <2>3, <3>1, <3>2 DEF MuteCarried
  <2> QED
    BY <2>1, <2>2, <2>3
<1>8. DeletedNamesStayGone'
  BY <1>1, <1>2, <1>3 DEF ClassInv, DeletedNamesStayGone, Stored, taxonomy
<1>9. DraftsForget'
  BY <1>1, <1>4 DEF ClassInv, DraftsForget, Open, taxonomy
<1> QED
  BY <1>5, <1>6, <1>7, <1>8, <1>9 DEF ClassInv

LEMMA RollbackStep ==
  ASSUME ClassInv, NEW w \in Writers, RollbackDraft(w)
  PROVE  ClassInv'
<1>1. /\ draft'[w] = None
      /\ \A u \in Writers \ {w} : draft'[u] = draft[u]
      /\ UNCHANGED <<txn, mutes, taxonomy, patch>>
  BY DEF RollbackDraft, ClassInv, ClassificationTypeOK
<1>2. ClassificationTypeOK'
  BY DEF RollbackDraft, ClassInv, ClassificationTypeOK, mutes, taxonomy
<1>3. DraftsHold'
  <2>1. ASSUME NEW u \in Writers, draft'[u] # None
        PROVE  DraftKeepsEdits(draft[u])' /\ DraftMute(draft[u])'
    <3>1. draft'[u] = draft[u] /\ DraftKeepsEdits(draft[u]) /\ DraftMute(draft[u])
      BY <1>1, <2>1 DEF ClassInv, DraftsHold, Open
    <3> QED
      BY <1>1, <3>1 DEF DraftKeepsEdits, DraftMute, MuteCarried, Stored, Muting, mutes
  <2>2. DraftsApart'
    BY <1>1 DEF ClassInv, DraftsHold, DraftsApart, Open
  <2> QED
    BY <2>1, <2>2 DEF DraftsHold, Open
<1>4. DraftsForget'
  BY <1>1 DEF ClassInv, DraftsForget, Open, taxonomy
<1>5. MutesFollowPatterns' /\ DeletedNamesStayGone'
  BY <1>1 DEF ClassInv, MutesFollowPatterns, DeletedNamesStayGone, Stored, Muting, mutes, taxonomy
<1> QED
  BY <1>2, <1>3, <1>4, <1>5 DEF ClassInv

-----------------------------------------------------------------------------
(* The invariant is inductive. *)

LEMMA ClassStart == ClassificationInit => ClassInv
<1> SUFFICES ASSUME ClassificationInit PROVE ClassInv
  OBVIOUS
<1>1. ClassificationTypeOK
  <2>1. Defaults \subseteq Named
    BY DefaultsAssumption DEF Named, Names, Columns
  <2> QED
    BY <2>1 DEF ClassificationInit, ClassificationTypeOK
<1>2. DraftsHold /\ DraftsForget /\ MutesFollowPatterns /\ DeletedNamesStayGone
  BY DEF ClassificationInit, DraftsHold, DraftsApart, DraftsForget, MutesFollowPatterns,
         DeletedNamesStayGone, Open, Stored
<1> QED
  BY <1>1, <1>2 DEF ClassInv

LEMMA ClassStep ==
  ASSUME ClassInv, [ClassificationNext]_txnVars
  PROVE  ClassInv'
<1>1. ASSUME NEW w \in Writers, Ingesting(w)
      PROVE  ClassInv'
  BY <1>1, WriteStep, ApplyCategoriesStep, ApplyMutedStep, CommitStep, RollbackStep DEF Ingesting
<1>2. CASE PatchTransaction
  BY <1>2, PatchStep, HandMuteStep DEF PatchTransaction
<1>3. CASE MutedMerchants
  BY <1>3, PatternStep DEF MutedMerchants
<1>4. CASE CategorizeMerchants
  BY <1>4, CategorizeStep DEF CategorizeMerchants
<1>5. ASSUME NEW c \in Columns, NEW n \in Names(c),
             \/ CreateTaxonomy(c, n)
             \/ \E remove \in BOOLEAN : deleteNamedTaxonomy(c, n, remove)
      PROVE  ClassInv'
  BY <1>5, MappingStep, DeleteStep
<1>6. ASSUME NEW c \in Columns, ByMerchant(c)
      PROVE  ClassInv'
  BY <1>6, ApplyStep, MappingStep DEF ByMerchant
<1>7. CASE CategoryRequests \/ BucketRequests
  BY <1>5, <1>6, <1>7 DEF CategoryRequests, BucketRequests, Names, Columns
<1>8. ASSUME NEW f \in Fragments, PruneMapping(f)
      PROVE  ClassInv'
  BY <1>8, MappingStep
<1>9. CASE UNCHANGED txnVars
  <2>1. Writes({}) /\ MutesKept /\ DraftsForget'
    BY <1>9, WritesSame, MutesSame, SameForgets DEF ClassInv, txnVars
  <2> QED
    BY <1>9, <2>1, TaxonomyKeeps
       DEF ClassInv, ClassificationTypeOK, DeletedNamesStayGone, Stored, txnVars, mutes
<1> QED
  BY <1>1, <1>2, <1>3, <1>4, <1>7, <1>8, <1>9 DEF ClassificationNext

LEMMA ClassInvariant == ClassificationSpec => []ClassInv
<1> QED
  BY ClassStart, ClassStep, PTL DEF ClassificationSpec

-----------------------------------------------------------------------------
(* Rows, mappings, drafts and patches keep their types. *)
THEOREM ClassificationTypes == ClassificationSpec => []ClassificationTypeOK
<1>1. ClassInv => ClassificationTypeOK
  BY DEF ClassInv
<1> QED
  BY <1>1, ClassInvariant, PTL

(* The mutes follow the patterns for any number of transactions, patterns  *)
(* and writers: a mute that is out of date was the user's decision, or the *)
(* patterns changed between a writer's reading of them and its commit.     *)
THEOREM MutesFollow == ClassificationSpec => []MutesFollowPatterns
<1>1. ClassInv => MutesFollowPatterns
  BY DEF ClassInv
<1> QED
  BY <1>1, ClassInvariant, PTL

(* No mapping and no open ingestion brings a deleted name back.            *)
THEOREM DeletedNames == ClassificationSpec => []DeletedNamesStayGone
<1>1. ClassInv => DeletedNamesStayGone
  BY DEF ClassInv
<1> QED
  BY <1>1, ClassInvariant, PTL

(* The commit of an ingestion changes no category or bucket that is set.   *)
IngestionKeepsEdits ==
  \A w \in Writers :
    draft[w] # None /\ draft'[w] = None /\ txn' # txn /\ Stored(draft[w].t)
      => \A c \in Columns : txn[draft[w].t].val[c] # Empty
                             => txn'[draft[w].t].val[c] = txn[draft[w].t].val[c]

LEMMA EditsStep ==
  ASSUME ClassInv, [ClassificationNext]_txnVars
  PROVE  IngestionKeepsEdits
<1> SUFFICES ASSUME NEW w \in Writers, Open(w), draft'[w] = None, txn' # txn, Stored(draft[w].t),
                    NEW c \in Columns, txn[draft[w].t].val[c] # Empty
             PROVE  txn'[draft[w].t].val[c] = txn[draft[w].t].val[c]
  BY DEF IngestionKeepsEdits, Open
<1>1. ASSUME NEW u \in Writers, Ingesting(u)
      PROVE  txn'[draft[w].t].val[c] = txn[draft[w].t].val[c]
  <2>1. CommitDraft(u)
    BY <1>1 DEF Ingesting, Write, applyMerchantCategories, applyMutedMerchants, RollbackDraft
  <2>2. u = w
    BY <2>1 DEF CommitDraft, Open
  <2>3. txn'[draft[w].t] = draft[w].row
    BY <2>1, <2>2, OpenDraft DEF CommitDraft, ClassInv, ClassificationTypeOK
  <2> QED
    BY <2>3 DEF ClassInv, DraftsHold, DraftKeepsEdits
<1>2. ASSUME UNCHANGED draft
      PROVE  FALSE
  BY <1>2 DEF Open
<1>3. ASSUME NEW p \in MutePatterns, Late(p)
      PROVE  FALSE
  BY <1>3, LateDrafts DEF ClassInv
<1>4. CASE PatchTransaction
  BY <1>2, <1>4 DEF PatchTransaction, validateTaxonomy, UpdateTransaction, MuteTransaction, UnmuteTransaction
<1>5. CASE MutedMerchants
  BY <1>3, <1>5 DEF MutedMerchants, MuteByMerchant, DeleteMutedMerchant, DeleteMutedMerchantAndUnmute
<1>6. CASE CategorizeMerchants
  BY <1>2, <1>6 DEF CategorizeMerchants, CategorizeMerchant
<1>7. CASE CategoryRequests \/ BucketRequests
  <2>1. \A k \in Columns : ByMerchant(k) => UNCHANGED draft
    BY DEF ByMerchant, applyTaxonomyByMerchant, removeTaxonomyByMerchant
  <2> QED
    BY <1>2, <1>7, <2>1 DEF CategoryRequests, BucketRequests, CreateTaxonomy, deleteNamedTaxonomy, Columns
<1>8. ASSUME NEW f \in Fragments, PruneMapping(f)
      PROVE  FALSE
  BY <1>2, <1>8 DEF PruneMapping
<1>9. CASE UNCHANGED txnVars
  BY <1>2, <1>9 DEF txnVars
<1> QED
  BY <1>1, <1>4, <1>5, <1>6, <1>7, <1>8, <1>9 DEF ClassificationNext

(* "Preserve user edits", for any number of overlapping ingestions: a      *)
(* writer's row keeps what was set when it took its lock, and requests     *)
(* wait for that lock.                                                     *)
THEOREM EditsArePreserved == ClassificationSpec => EditsPreserved
<1>1. ClassInv /\ [ClassificationNext]_txnVars => [IngestionKeepsEdits]_txnVars
  BY EditsStep
<1> QED
  BY <1>1, ClassInvariant, PTL DEF ClassificationSpec, EditsPreserved, IngestionKeepsEdits


-----------------------------------------------------------------------------
(***************************************************************************)
(* Labels.  The invariant says, of every open request, which rows it may   *)
(* have written at each of its statements (Session, Held), and, as long as *)
(* no requests that interfere have run together, how far it has come with  *)
(* what it must write (Detail).  A request that adds relies on rows other  *)
(* requests may commit meanwhile, which CommitOther shows they leave; one  *)
(* that removes runs alone.  What it has written becomes, at its commit,   *)
(* what the tables hold: CommitLabels and CommitMappings.                  *)
(***************************************************************************)

TxnRows     == {Txn(m) : m \in Messages}
MatchRows   == Matches(Messages, Patterns)
MappingRows == Mappings(Labels, Patterns)

(* The statements of a request, and the rows that a statement writes.       *)
Statements(op) ==
    CASE op = "add"     -> {"sources", "tags", "commit"}
      [] op = "remove"  -> {"sources", "tags", "commit"}
      [] op = "apply"   -> {"mapping", "sources", "tags", "commit"}
      [] op = "unapply" -> {"mapping", "affected", "sources", "count", "untag", "commit"}
      [] op = "delete"  -> {"mapping", "commit"}
      [] op = "erase"   -> {"sources", "tags", "mapping", "commit"}
      [] op = "ingest"  -> {"upsert", "sources", "tags", "commit"}

Written(statement) ==
    CASE statement = "upsert"            -> TxnRows
      [] statement = "mapping"           -> MappingRows
      [] statement = "sources"           -> SourceRows
      [] statement \in {"tags", "untag"} -> TagRows
      [] OTHER                           -> {}

MayInsert(op) ==
    CASE op = "add"    -> SourceRows \cup TagRows
      [] op = "apply"  -> MappingRows \cup SourceRows \cup TagRows
      [] op = "ingest" -> TxnRows \cup MatchRows \cup SourceRows \cup TagRows
      [] OTHER         -> {}

MayDelete(op) ==
    CASE op = "remove"             -> SourceRows \cup TagRows
      [] op \in {"unapply", "erase"} -> MappingRows \cup SourceRows \cup TagRows
      [] op = "delete"             -> MappingRows
      [] op = "ingest"             -> MatchRows
      [] OTHER                     -> {}

Active(c) == pc[c] # "idle"

(* What a request may have written so far, and waits to write.              *)
Session(c) ==
    /\ ~Active(c) => call[c] = NoRequest
    /\ Active(c) => call[c] \in Request /\ pc[c] \in Statements(call[c].op)
    /\ wait[c] \subseteq Written(pc[c])
    /\ ins[c] \subseteq MayInsert(call[c].op)
    /\ del[c] \subseteq MayDelete(call[c].op)

(* An ingestion holds the row of a transaction while it changes its matches, *)
(* and of all its transactions once they are stored.                         *)
Held(c) ==
    /\ \A m \in Messages, p \in Patterns : Match(m, p) \in ins[c] \cup del[c] => Txn(m) \in ins[c]
    /\ \A m \in Messages : Txn(m) \in ins[c] \cup (wait[c] \cap TxnRows) => m \in call[c].messages
    /\ call[c].op = "ingest" /\ (pc[c] # "upsert" \/ wait[c] # {}) =>
          \A m \in call[c].messages : Txn(m) \in ins[c] \cup wait[c]

SessionsInv == TypeOK /\ \A c \in Clients : Session(c) /\ Held(c)

-----------------------------------------------------------------------------
(* Requests that add: the sources they insert, and the labels they give.     *)

Why == Patterns \cup {Manual}

Additions == {"add", "apply", "ingest"}

Within(c, m, l) ==
    CASE call[c].op = "add"    -> m \in call[c].messages /\ l \in call[c].labels
      [] call[c].op = "apply"  -> m \in Matching(c) /\ l \in call[c].labels
      [] call[c].op = "ingest" -> m \in call[c].messages

Due(c, m, l, p) ==
    CASE call[c].op = "add"    -> Within(c, m, l) /\ p = Manual
      [] call[c].op = "apply"  -> Within(c, m, l) /\ p \in call[c].patterns
      [] call[c].op = "ingest" -> Within(c, m, l) /\ {Match(m, p), Mapping(l, p)} \subseteq View(c)

HasSource(c, m, l) == \E p \in Why : Source(m, l, p) \in View(c)

(* What is inserted belongs to the request.                                 *)
AsAsked(c) ==
    /\ \A m \in Messages, l \in Labels, p \in Why :
          Source(m, l, p) \in ins[c] \cup wait[c] => Within(c, m, l)
    /\ \A l \in Labels, p \in Patterns :
          Mapping(l, p) \in ins[c] \cup wait[c] => l \in call[c].labels /\ p \in call[c].patterns

(* What is due is inserted, once the sources are.                           *)
DueSources(c) ==
    \A m \in Messages, l \in Labels, p \in Why : Due(c, m, l, p) =>
        /\ pc[c] = "sources" /\ wait[c] # {} => Source(m, l, p) \in View(c) \cup wait[c]
        /\ pc[c] \in {"tags", "commit"} => Source(m, l, p) \in View(c)

(* A new source is followed by its label, a new label by a source.          *)
DueTags(c) ==
    \A m \in Messages, l \in Labels, p \in Why : Source(m, l, p) \in ins[c] =>
        /\ pc[c] = "tags" /\ wait[c] # {} => Tag(m, l) \in View(c) \cup wait[c]
        /\ pc[c] = "commit" => Tag(m, l) \in View(c)

TagsSourced(c) ==
    \A m \in Messages, l \in Labels :
        Tag(m, l) \in ins[c] \cup wait[c] => HasSource(c, m, l) /\ pc[c] \in {"tags", "commit"}

Adds(c) == AsAsked(c) /\ DueSources(c) /\ DueTags(c) /\ TagsSourced(c)

(* Removals, which run alone: what they have deleted.                        *)
InScope(c, m, l) == l \in call[c].labels /\ (call[c].op = "remove" => m \in call[c].messages)

SourcesRemoved(c) ==
    \A m \in Messages, l \in Labels, p \in Why :
        Source(m, l, p) \in del[c] <=>
            pc[c] # "sources" /\ Source(m, l, p) \in db /\ InScope(c, m, l)

TagsRemoved(c) ==
    \A m \in Messages, l \in Labels :
        Tag(m, l) \in del[c] <=>
            pc[c] \in {"mapping", "commit"} /\ Tag(m, l) \in db /\ InScope(c, m, l)

MappingsRemoved(c) ==
    call[c].op = "erase" /\ pc[c] = "commit" =>
        \A l \in call[c].labels, p \in Patterns : Mapping(l, p) \notin View(c)

Removes(c) == SourcesRemoved(c) /\ TagsRemoved(c) /\ MappingsRemoved(c)

(* RemoveLabelByMerchant: a transaction whose source is gone still waits to   *)
(* be examined, has another source, or has lost the label.                    *)
MappingGone(c, l) ==
    pc[c] # "mapping" => \A p \in call[c].patterns : Mapping(l, p) \notin View(c)

SourcesGone(c, l) ==
    \A m \in Messages, k \in Labels, p \in Why :
        Source(m, k, p) \in del[c] <=>
           /\ pc[c] \in {"count", "untag", "commit"}
           /\ Source(m, k, p) \in db /\ k = l /\ p \in call[c].patterns

TagsGone(c, l) ==
    \A m \in Messages, k \in Labels :
        /\ Tag(m, k) \in del[c] \cup wait[c] => k = l /\ ~HasSource(c, m, l)
        /\ Tag(m, k) \in del[c] => pc[c] \in {"count", "untag", "commit"}

Examined(c, l) ==
    \A m \in Messages, p \in call[c].patterns : Source(m, l, p) \in db =>
        /\ pc[c] = "sources" => m \in affected[c]
        /\ pc[c] \in {"count", "untag", "commit"} =>
              \/ m \in affected[c]
              \/ HasSource(c, m, l)
              \/ Tag(m, l) \in wait[c]
              \/ Tag(m, l) \notin View(c)

Unapplied(c, l) ==
    /\ call[c].labels = {l}
    /\ MappingGone(c, l) /\ SourcesGone(c, l) /\ TagsGone(c, l) /\ Examined(c, l)
    /\ pc[c] = "untag" => wait[c] # {}
    /\ pc[c] = "commit" => affected[c] = {}

Unapplies(c) == \E l \in Labels : Unapplied(c, l)

Detail(c) ==
    /\ call[c].op \in Additions => Adds(c)
    /\ call[c].op \in {"remove", "erase"} => Removes(c) /\ wait[c] = {}
    /\ call[c].op = "unapply" => Unapplies(c) /\ (pc[c] # "untag" => wait[c] = {})

Apart == \A c, d \in Clients : c # d /\ Active(c) /\ Active(d) => ~Interfere(call[c].op, call[d].op)

LabelsInv ==
    /\ SessionsInv
    /\ LabelsHaveSources /\ MappingsReachAll
    /\ ~overlapped => Apart /\ \A c \in Clients : Detail(c)

-----------------------------------------------------------------------------
(* Rows.  Rows of different kinds differ, and a row determines its parts.   *)

LEMMA RowShapes ==
    \A m, n, l, k, p, q :
        /\ Txn(m) = Txn(n) => m = n
        /\ Match(m, p) = Match(n, q) => m = n /\ p = q
        /\ Source(m, l, p) = Source(n, k, q) => m = n /\ l = k /\ p = q
        /\ Tag(m, l) = Tag(n, k) => m = n /\ l = k
        /\ Mapping(l, p) = Mapping(k, q) => l = k /\ p = q
        /\ Txn(m) \notin {Match(n, q), Source(n, k, q), Tag(n, k), Mapping(k, q)}
        /\ Match(m, p) \notin {Source(n, k, q), Tag(n, k), Mapping(k, q)}
        /\ Source(m, l, p) \notin {Tag(n, k), Mapping(k, q)}
        /\ Tag(m, l) # Mapping(k, q)
        /\ Txn(m)[2] = m
        /\ Match(m, p)[2] = m
        /\ Source(m, l, p)[2] = m /\ Source(m, l, p)[3] = l /\ Source(m, l, p)[4] = p
        /\ Tag(m, l)[2] = m /\ Tag(m, l)[3] = l
BY DEF Txn, Match, Source, Tag, Mapping

LEMMA Kinds ==
    /\ \A m : /\ Txn(m) \in TxnRows <=> m \in Messages
              /\ Txn(m) \notin MatchRows \cup SourceRows \cup TagRows \cup MappingRows
    /\ \A m, p : /\ Match(m, p) \in MatchRows <=> m \in Messages /\ p \in Patterns
                 /\ Match(m, p) \notin TxnRows \cup SourceRows \cup TagRows \cup MappingRows
    /\ \A m, l, p : /\ Source(m, l, p) \in SourceRows <=> m \in Messages /\ l \in Labels /\ p \in Why
                    /\ Source(m, l, p) \notin TxnRows \cup MatchRows \cup TagRows \cup MappingRows
    /\ \A m, l : /\ Tag(m, l) \in TagRows <=> m \in Messages /\ l \in Labels
                 /\ Tag(m, l) \notin TxnRows \cup MatchRows \cup SourceRows \cup MappingRows
    /\ \A l, p : /\ Mapping(l, p) \in MappingRows <=> l \in Labels /\ p \in Patterns
                 /\ Mapping(l, p) \notin TxnRows \cup MatchRows \cup SourceRows \cup TagRows
<1>1. \A m : /\ Txn(m) \in TxnRows <=> m \in Messages
             /\ Txn(m) \notin MatchRows \cup SourceRows \cup TagRows \cup MappingRows
  BY RowShapes DEF TxnRows, MatchRows, SourceRows, TagRows, MappingRows, Why, Sources, Tags, Mappings, Matches
<1>2. \A m, p : /\ Match(m, p) \in MatchRows <=> m \in Messages /\ p \in Patterns
                /\ Match(m, p) \notin TxnRows \cup SourceRows \cup TagRows \cup MappingRows
  <2>1. \A m, p : Match(m, p) \in MatchRows <=> m \in Messages /\ p \in Patterns
    BY RowShapes DEF MatchRows, Why, Matches
  <2>2. \A m, p : Match(m, p) \notin TxnRows
    BY RowShapes DEF TxnRows
  <2>3. \A m, p : Match(m, p) \notin SourceRows
    BY RowShapes DEF SourceRows, Sources
  <2>4. \A m, p : Match(m, p) \notin TagRows
    BY RowShapes DEF TagRows, Tags
  <2>5. \A m, p : Match(m, p) \notin MappingRows
    BY RowShapes DEF MappingRows, Mappings
  <2> QED
    BY <2>1, <2>2, <2>3, <2>4, <2>5
<1>3. \A m, l, p : /\ Source(m, l, p) \in SourceRows <=> m \in Messages /\ l \in Labels /\ p \in Why
                   /\ Source(m, l, p) \notin TxnRows \cup MatchRows \cup TagRows \cup MappingRows
  BY RowShapes DEF TxnRows, MatchRows, SourceRows, TagRows, MappingRows, Why, Sources, Tags, Mappings, Matches
<1>4. \A m, l : /\ Tag(m, l) \in TagRows <=> m \in Messages /\ l \in Labels
                /\ Tag(m, l) \notin TxnRows \cup MatchRows \cup SourceRows \cup MappingRows
  <2>1. \A m, l : Tag(m, l) \in TagRows <=> m \in Messages /\ l \in Labels
    BY RowShapes DEF TagRows, Why, Tags
  <2>2. \A m, l : Tag(m, l) \notin TxnRows
    BY RowShapes DEF TxnRows
  <2>3. \A m, l : Tag(m, l) \notin MatchRows
    BY RowShapes DEF MatchRows, Matches
  <2>4. \A m, l : Tag(m, l) \notin SourceRows
    BY RowShapes DEF SourceRows, Sources
  <2>5. \A m, l : Tag(m, l) \notin MappingRows
    BY RowShapes DEF MappingRows, Mappings
  <2> QED
    BY <2>1, <2>2, <2>3, <2>4, <2>5
<1>5. \A l, p : /\ Mapping(l, p) \in MappingRows <=> l \in Labels /\ p \in Patterns
                /\ Mapping(l, p) \notin TxnRows \cup MatchRows \cup SourceRows \cup TagRows
  BY RowShapes DEF TxnRows, MatchRows, SourceRows, TagRows, MappingRows, Why, Sources, Tags, Mappings, Matches
<1> QED
  BY <1>1, <1>2, <1>3, <1>4, <1>5

LEMMA ComprehensionKinds ==
    /\ \A M \in SUBSET Messages, L \in SUBSET Labels : Tags(M, L) \subseteq TagRows
    /\ \A M \in SUBSET Messages, L \in SUBSET Labels, P \in SUBSET Why : Sources(M, L, P) \subseteq SourceRows
    /\ \A M \in SUBSET Messages, P \in SUBSET Patterns : Matches(M, P) \subseteq MatchRows
    /\ \A L \in SUBSET Labels, P \in SUBSET Patterns : Mappings(L, P) \subseteq MappingRows
BY DEF SourceRows, TagRows, MappingRows, MatchRows, Sources, Tags, Mappings, Matches, Why

LEMMA Members ==
    /\ \A M, L, P, m, l, p : Source(m, l, p) \in Sources(M, L, P) <=> m \in M /\ l \in L /\ p \in P
    /\ \A M, L, m, l : Tag(m, l) \in Tags(M, L) <=> m \in M /\ l \in L
    /\ \A L, P, l, p : Mapping(l, p) \in Mappings(L, P) <=> l \in L /\ p \in P
    /\ \A M, P, m, p : Match(m, p) \in Matches(M, P) <=> m \in M /\ p \in P
<1>1. \A M, L, P, m, l, p : Source(m, l, p) \in Sources(M, L, P) <=> m \in M /\ l \in L /\ p \in P
  BY RowShapes DEF Sources
<1>2. \A M, L, m, l : Tag(m, l) \in Tags(M, L) <=> m \in M /\ l \in L
  BY RowShapes DEF Tags
<1>3. \A L, P, l, p : Mapping(l, p) \in Mappings(L, P) <=> l \in L /\ p \in P
  BY RowShapes DEF Mappings
<1>4. \A M, P, m, p : Match(m, p) \in Matches(M, P) <=> m \in M /\ p \in P
  BY RowShapes DEF Matches
<1> QED
  BY <1>1, <1>2, <1>3, <1>4

LEMMA Parts ==
    /\ \A r \in TxnRows : \E m \in Messages : r = Txn(m)
    /\ \A r \in MatchRows : \E m \in Messages, p \in Patterns : r = Match(m, p)
    /\ \A r \in SourceRows : \E m \in Messages, l \in Labels, p \in Why : r = Source(m, l, p)
    /\ \A r \in TagRows : \E m \in Messages, l \in Labels : r = Tag(m, l)
    /\ \A r \in MappingRows : \E l \in Labels, p \in Patterns : r = Mapping(l, p)
    /\ Row = TxnRows \cup MatchRows \cup SourceRows \cup TagRows \cup MappingRows
BY DEF TxnRows, MatchRows, SourceRows, TagRows, MappingRows, Sources, Tags, Mappings, Why, Row, Matches

-----------------------------------------------------------------------------
(* Statements.                                                              *)

Todo(c, R) == IF wait[c] = {} THEN R ELSE wait[c]
Done(c, R) == Todo(c, R) \ wait'[c]

Kept(d) ==
    /\ ins'[d] = ins[d] /\ del'[d] = del[d] /\ call'[d] = call[d]
    /\ pc'[d] = pc[d] /\ wait'[d] = wait[d] /\ affected'[d] = affected[d]

Others(c) == \A d \in Clients \ {c} : Kept(d)

(* The next statement, or the same one that waits for some of its rows.     *)
Proceeds(c, R, next) ==
    /\ wait'[c] = {r \in Todo(c, R) : Locked(c, r)}
    /\ \A r \in Done(c, R) : ~Locked(c, r)
    /\ \/ wait'[c] = {} /\ pc'[c] = next
       \/ wait'[c] # {} /\ pc'[c] = pc[c]

LEMMA ExecuteEffect ==
    ASSUME SessionsInv, NEW c \in Clients, NEW R \in SUBSET Row, NEW next, Execute(c, R, next)
    PROVE  /\ Proceeds(c, R, next)
           /\ Free(c, R) = Done(c, R)
           /\ wait' \in [Clients -> SUBSET Row]
           /\ \A d \in Clients \ {c} : pc'[d] = pc[d] /\ wait'[d] = wait[d]
           /\ pc' = [pc EXCEPT ![c] = pc'[c]]
<1> DEFINE todo == Todo(c, R)
           held == {r \in todo : Locked(c, r)}
<1>1. /\ wait' = [wait EXCEPT ![c] = held]
      /\ pc' = [pc EXCEPT ![c] = IF held = {} THEN next ELSE @]
  BY DEF Execute, Todo
<1>2. /\ wait \in [Clients -> SUBSET Row] /\ DOMAIN pc = Clients
      /\ todo \subseteq Row
  BY DEF SessionsInv, TypeOK, Todo
<1>3. wait'[c] = held /\ pc'[c] = (IF held = {} THEN next ELSE pc[c])
  BY <1>1, <1>2
<1>4. wait' \in [Clients -> SUBSET Row] /\ \A d \in Clients \ {c} : pc'[d] = pc[d] /\ wait'[d] = wait[d]
  BY <1>1, <1>2
<1>5. Free(c, R) = {r \in todo : ~Locked(c, r)}
  BY DEF Free, Todo
<1>6. pc' = [pc EXCEPT ![c] = pc'[c]]
  BY <1>1, <1>3
<1> QED
  BY <1>3, <1>4, <1>5, <1>6 DEF Proceeds, Done

LEMMA InsertEffect ==
    ASSUME SessionsInv, NEW c \in Clients, NEW R \in SUBSET Row, NEW next, Insert(c, R, next)
    PROVE  /\ UNCHANGED <<db, call, affected, overlapped, spared, kept>> /\ Others(c)
           /\ Proceeds(c, R, next) /\ pc' = [pc EXCEPT ![c] = pc'[c]]
           /\ ins' \in [Clients -> SUBSET Row] /\ wait' \in [Clients -> SUBSET Row] /\ del' = del
           /\ ins[c] \subseteq ins'[c] /\ ins'[c] \subseteq ins[c] \cup Done(c, R)
           /\ View(c)' = View(c) \cup Done(c, R)
<1>1. /\ Execute(c, R, next) /\ UNCHANGED <<db, del, call, affected, overlapped, spared, kept>>
      /\ ins' = [ins EXCEPT ![c] = @ \cup (Free(c, R) \ View(c))]
  BY DEF Insert
<1>2. /\ Proceeds(c, R, next) /\ Free(c, R) = Done(c, R) /\ wait' \in [Clients -> SUBSET Row]
      /\ \A d \in Clients \ {c} : pc'[d] = pc[d] /\ wait'[d] = wait[d]
      /\ pc' = [pc EXCEPT ![c] = pc'[c]]
  BY <1>1, ExecuteEffect
<1>3. ins \in [Clients -> SUBSET Row] /\ Done(c, R) \subseteq Row
  BY DEF SessionsInv, TypeOK, Todo, Done
<1>4. /\ ins'[c] = ins[c] \cup (Done(c, R) \ View(c)) /\ ins' \in [Clients -> SUBSET Row]
      /\ \A d \in Clients \ {c} : ins'[d] = ins[d]
  BY <1>1, <1>2, <1>3
<1>5. View(c)' = View(c) \cup Done(c, R)
  BY <1>1, <1>4 DEF View
<1> QED
  BY <1>1, <1>2, <1>4, <1>5 DEF Others, Kept

LEMMA DeleteEffect ==
    ASSUME SessionsInv, NEW c \in Clients, NEW R \in SUBSET Row, NEW next, Delete(c, R, next)
    PROVE  /\ UNCHANGED <<db, call, affected, overlapped, spared, kept>> /\ Others(c)
           /\ Proceeds(c, R, next) /\ pc' = [pc EXCEPT ![c] = pc'[c]]
           /\ del' \in [Clients -> SUBSET Row] /\ wait' \in [Clients -> SUBSET Row] /\ ins' = ins
           /\ del'[c] = del[c] \cup (Done(c, R) \cap View(c))
<1>1. /\ Execute(c, R, next) /\ UNCHANGED <<db, ins, call, affected, overlapped, spared, kept>>
      /\ del' = [del EXCEPT ![c] = @ \cup (Free(c, R) \cap View(c))]
  BY DEF Delete
<1>2. /\ Proceeds(c, R, next) /\ Free(c, R) = Done(c, R) /\ wait' \in [Clients -> SUBSET Row]
      /\ \A d \in Clients \ {c} : pc'[d] = pc[d] /\ wait'[d] = wait[d]
      /\ pc' = [pc EXCEPT ![c] = pc'[c]]
  BY <1>1, ExecuteEffect
<1>3. del \in [Clients -> SUBSET Row] /\ Done(c, R) \subseteq Row
  BY DEF SessionsInv, TypeOK, Todo, Done
<1>4. /\ del'[c] = del[c] \cup (Done(c, R) \cap View(c)) /\ del' \in [Clients -> SUBSET Row]
      /\ \A d \in Clients \ {c} : del'[d] = del[d]
  BY <1>1, <1>2, <1>3
<1> QED
  BY <1>1, <1>2, <1>4 DEF Others, Kept

-----------------------------------------------------------------------------
(* Sessions: every request keeps to its statements and to its rows.         *)

Shapes ==
    /\ db \subseteq Row
    /\ ins \in [Clients -> SUBSET Row] /\ del \in [Clients -> SUBSET Row]
    /\ wait \in [Clients -> SUBSET Row] /\ affected \in [Clients -> SUBSET Messages]
    /\ call \in [Clients -> Request \cup {NoRequest}]
    /\ pc \in [Clients -> {"idle", "sources", "tags", "mapping", "affected", "count", "untag",
                           "upsert", "commit"}]
    /\ overlapped \in BOOLEAN /\ spared \subseteq SourceRows
    /\ kept \in [Clients -> SUBSET SourceRows]

LEMMA TypeShapes == TypeOK <=> Shapes /\ Exclusive
BY DEF TypeOK, Shapes

(* A step of one client keeps every session if it keeps its own, and writes  *)
(* no row that another one has written.                                      *)
LEMMA SessionsKept ==
    ASSUME SessionsInv, NEW c \in Clients, Others(c), Shapes', Session(c)', Held(c)',
           \A r \in (ins'[c] \cup del'[c]) \ (ins[c] \cup del[c]) : ~Locked(c, r),
           pc'[c] = "idle" => ins'[c] \cup del'[c] = {}
    PROVE  SessionsInv'
<1>1. \A d \in Clients \ {c} : Session(d)' /\ Held(d)'
  BY DEF SessionsInv, Others, Kept, Session, Held, Active
<1>2. Exclusive'
  <2>1. \A d \in Clients \ {c} : pc'[d] = "idle" => ins'[d] \cup del'[d] = {}
    BY DEF SessionsInv, TypeOK, Exclusive, Others, Kept
  <2>2. \A d \in Clients \ {c} : \A r \in ins'[c] \cup del'[c] : r \notin ins'[d] \cup del'[d]
    BY DEF SessionsInv, TypeOK, Exclusive, Others, Kept, Locked
  <2>3. \A d, e \in Clients \ {c} : d # e =>
           \A r \in ins'[d] \cup del'[d] : r \notin ins'[e] \cup del'[e]
    BY DEF SessionsInv, TypeOK, Exclusive, Others, Kept
  <2> QED
    BY <2>1, <2>2, <2>3 DEF Exclusive
<1>3. TypeOK'
  BY <1>2 DEF TypeOK, Shapes
<1> QED
  BY <1>1, <1>3 DEF SessionsInv

(* The requests, and the first statement of each.                           *)
Ops == {"add", "remove", "apply", "unapply", "delete", "erase", "ingest"}

First(op) ==
    CASE op \in {"add", "remove", "erase"}       -> "sources"
      [] op \in {"apply", "unapply", "delete"}   -> "mapping"
      [] op = "ingest"                           -> "upsert"

LEMMA StatementNames ==
    ASSUME NEW op, op \in Ops
    PROVE  /\ First(op) \in Statements(op)
           /\ Statements(op) \subseteq {"sources", "tags", "mapping", "affected", "count", "untag",
                                        "upsert", "commit"}
           /\ "upsert" \in Statements(op) => op = "ingest"
BY DEF Statements, First, Ops

(* The rows a request finds with RowsOf are of the kind it looks for.       *)
LEMMA RowsOfKind ==
    \A c, R, M, L : RowsOf(c, R, M, L) \subseteq R /\ RowsOf(c, R, M, L) \subseteq View(c)
BY DEF RowsOf

(* The steps that write rows of the current statement.                      *)
Inserts(c) ==
    /\ pc[c] \notin {"idle", "upsert"}
    /\ \E R, next : /\ R \subseteq Written(pc[c])
                    /\ Written(pc[c]) \subseteq MayInsert(call[c].op)
                    /\ next \in Statements(call[c].op)
                    /\ Insert(c, R, next)

Deletes(c) ==
    /\ pc[c] \notin {"idle", "upsert"}
    /\ \E R, next : /\ R \subseteq Written(pc[c])
                    /\ Written(pc[c]) \subseteq MayDelete(call[c].op)
                    /\ next \in Statements(call[c].op)
                    /\ Delete(c, R, next)

Begins(c) ==
    \E op \in Ops, M \in SUBSET Messages, L \in SUBSET Labels, P \in SUBSET Patterns :
        Begin(c, op, M, L, P, First(op)) /\ (op = "unapply" => \E l \in Labels : L = {l})

(* The steps of RemoveLabelByMerchant that write no row.                     *)
Examines(c) ==
    /\ call[c].op = "unapply" /\ pc[c] \in {"affected", "count"}
    /\ UNCHANGED <<db, ins, del, call, overlapped, spared, kept>>
    /\ Shapes' /\ Others(c)
    /\ pc'[c] \in {"sources", "count", "untag", "commit"}
    /\ wait'[c] = {} \/ (pc'[c] = "untag" /\ wait'[c] \subseteq TagRows)

ClientStep(c) ==
    \/ AddLabels(c) \/ RemoveLabel(c) \/ ApplyLabelByMerchant(c) \/ DeleteLabel(c)
    \/ RemoveLabelByMerchant(c) \/ RemoveOrphanedLabels(c) \/ Ingest(c)
    \/ Commit(c) \/ Rollback(c)

(* What the type invariant says of an active request.                       *)
LEMMA Requests ==
    ASSUME SessionsInv, NEW c \in Clients, Active(c)
    PROVE  /\ call[c].op \in Ops
           /\ call[c].messages \subseteq Messages /\ call[c].labels \subseteq Labels
           /\ call[c].patterns \subseteq Patterns /\ call[c] \in Request
           /\ pc[c] \in Statements(call[c].op)
BY DEF SessionsInv, Session, Request, Ops

LEMMA Idle ==
    ASSUME SessionsInv, NEW c \in Clients, ~Active(c)
    PROVE  /\ call[c] = NoRequest /\ call[c].op = "none"
           /\ ins[c] = {} /\ del[c] = {} /\ wait[c] = {} /\ View(c) = db
BY DEF SessionsInv, Session, Active, NoRequest, Written, View, TypeOK, Exclusive

LEMMA StepKinds ==
    ASSUME SessionsInv, NEW c \in Clients, ClientStep(c)
    PROVE  \/ Begins(c) \/ Inserts(c) \/ Deletes(c) \/ Examines(c)
           \/ call[c].op = "ingest" /\ pc[c] = "upsert" /\ Upsert(c)
           \/ Commit(c) \/ Rollback(c)
<1> DEFINE Goal == \/ Begins(c) \/ Inserts(c) \/ Deletes(c) \/ Examines(c)
                   \/ call[c].op = "ingest" /\ pc[c] = "upsert" /\ Upsert(c)
                   \/ Commit(c) \/ Rollback(c)
<1> SUFFICES Goal
  OBVIOUS
<1> HIDE DEF Goal
<1>1. CASE ~Active(c)
  <2>1. \A m \in Messages, N \in SUBSET Labels, M \in SUBSET Messages, l \in Labels,
           p \in Patterns, P \in SUBSET Patterns :
             {m} \in SUBSET Messages /\ {l} \in SUBSET Labels /\ {p} \in SUBSET Patterns
             /\ {} \in SUBSET Messages /\ {} \in SUBSET Labels /\ {} \in SUBSET Patterns
    OBVIOUS
  <2>2. /\ First("add") = "sources" /\ First("remove") = "sources" /\ First("erase") = "sources"
        /\ First("apply") = "mapping" /\ First("unapply") = "mapping" /\ First("delete") = "mapping"
        /\ First("ingest") = "upsert"
    BY DEF First
  <2>3. \A op, s : s # "idle" => ~At(c, op, s)
    BY <1>1 DEF Goal, At, Active
  <2>a. \A op \in Ops, M \in SUBSET Messages, L \in SUBSET Labels, P \in SUBSET Patterns,
           first \in {"sources", "mapping", "upsert"} :
             /\ Begin(c, op, M, L, P, first) /\ first = First(op)
             /\ op = "unapply" => \E l \in Labels : L = {l}
             => Goal
    BY DEF Goal, Begins
  <2>b. {"add", "remove", "apply", "unapply", "delete", "erase", "ingest"} \subseteq Ops
    BY DEF Ops
  <2>4. CASE AddLabels(c)
    BY <2>4, <2>1, <2>2, <2>3, <2>a, <2>b DEF AddLabels, Listed
  <2>5. CASE RemoveLabel(c)
    BY <2>5, <2>1, <2>2, <2>3, <2>a, <2>b DEF RemoveLabel, Listed
  <2>6. CASE ApplyLabelByMerchant(c)
    BY <2>6, <2>1, <2>2, <2>3, <2>a, <2>b DEF ApplyLabelByMerchant
  <2>7. CASE DeleteLabel(c)
    BY <2>7, <2>1, <2>2, <2>3, <2>a, <2>b DEF DeleteLabel
  <2>8. CASE RemoveLabelByMerchant(c)
    BY <2>8, <2>1, <2>2, <2>3, <2>a, <2>b DEF RemoveLabelByMerchant
  <2>9. ~RemoveOrphanedLabels(c)
    BY <2>3 DEF RemoveOrphanedLabels
  <2>10. CASE Ingest(c)
    BY <2>10, <2>1, <2>2, <2>3, <2>a, <2>b DEF Ingest
  <2> QED
    BY <2>4, <2>5, <2>6, <2>7, <2>8, <2>9, <2>10 DEF Goal, ClientStep
<1>2. CASE Active(c)
  <2> DEFINE op == call[c].op
             M == call[c].messages  L == call[c].labels  P == call[c].patterns
  <2>1. /\ M \subseteq Messages /\ L \subseteq Labels /\ P \subseteq Patterns
        /\ \A o, A, B, C, f : ~Begin(c, o, A, B, C, f)
    BY <1>2, Requests DEF Begin, Active
  <2>2. /\ Sources(M, L, {Manual}) \subseteq SourceRows /\ Tags(M, L) \subseteq TagRows
        /\ Sources(Matching(c), L, P) \subseteq SourceRows /\ Tags(Matching(c), L) \subseteq TagRows
        /\ Mappings(L, P) \subseteq MappingRows /\ Mappings(L, Patterns) \subseteq MappingRows
        /\ \A m \in Messages : Tags({m}, L) \subseteq TagRows
    BY <2>1, ComprehensionKinds DEF Matching, Why
  <2>3. CASE AddLabels(c)
    <3>1. CASE At(c, "add", "sources") /\ Insert(c, Sources(M, L, {Manual}), "tags")
      BY <3>1, <2>2 DEF Goal, At, Inserts, Written, MayInsert, Statements
    <3>2. CASE At(c, "add", "tags") /\ Insert(c, Tags(M, L), "commit")
      BY <3>2, <2>2 DEF Goal, At, Inserts, Written, MayInsert, Statements
    <3> QED
      BY <2>3, <2>1, <3>1, <3>2 DEF AddLabels
  <2>4. CASE RemoveLabel(c)
    <3>1. CASE At(c, "remove", "sources") /\ Delete(c, RowsOf(c, SourceRows, M, L), "tags")
      BY <3>1, RowsOfKind DEF Goal, At, Deletes, Written, MayDelete, Statements
    <3>2. CASE At(c, "remove", "tags") /\ Delete(c, RowsOf(c, TagRows, M, L), "commit")
      BY <3>2, RowsOfKind DEF Goal, At, Deletes, Written, MayDelete, Statements
    <3> QED
      BY <2>4, <2>1, <3>1, <3>2 DEF RemoveLabel
  <2>5. CASE ApplyLabelByMerchant(c)
    <3>1. CASE At(c, "apply", "mapping") /\ Insert(c, Mappings(L, P), "sources")
      BY <3>1, <2>2 DEF Goal, At, Inserts, Written, MayInsert, Statements
    <3>2. CASE At(c, "apply", "sources")
               /\ Insert(c, Sources(Backfilled(c), L, P), "tags")
      <4>1. Backfilled(c) = Matching(c) /\ Sources(Backfilled(c), L, P) \subseteq SourceRows
        BY <2>2 DEF Backfilled
      <4> QED
        BY <3>2, <4>1 DEF Goal, At, Inserts, Written, MayInsert, Statements
    <3>3. CASE At(c, "apply", "tags") /\ Insert(c, Tags(Matching(c), L), "commit")
      <4>1. Tags(Matching(c), L) \subseteq TagRows
        BY <2>2
      <4> QED
        BY <3>3, <4>1 DEF Goal, At, Inserts, Written, MayInsert, Statements
    <3> QED
      BY <2>5, <2>1, <3>1, <3>2, <3>3 DEF ApplyLabelByMerchant
  <2>6. CASE DeleteLabel(c)
    <3> DEFINE mappings == Mappings(L, Patterns) \cap View(c)
    <3>1. CASE At(c, "erase", "sources") /\ Delete(c, RowsOf(c, SourceRows, Messages, L), "tags")
      BY <3>1, RowsOfKind DEF Goal, At, Deletes, Written, MayDelete, Statements
    <3>2. CASE At(c, "erase", "tags") /\ Delete(c, RowsOf(c, TagRows, Messages, L), "mapping")
      BY <3>2, RowsOfKind DEF Goal, At, Deletes, Written, MayDelete, Statements
    <3>3. CASE At(c, "erase", "mapping") /\ Delete(c, mappings, "commit")
      BY <3>3, <2>2 DEF Goal, At, Deletes, Written, MayDelete, Statements
    <3>4. CASE At(c, "delete", "mapping") /\ Delete(c, mappings, "commit")
      BY <3>4, <2>2 DEF Goal, At, Deletes, Written, MayDelete, Statements
    <3> QED
      BY <2>6, <2>1, <3>1, <3>2, <3>3, <3>4 DEF DeleteLabel
  <2>7. CASE RemoveLabelByMerchant(c)
    <3>1. CASE /\ At(c, "unapply", "mapping")
               /\ Delete(c, Mappings(L, P) \cap View(c), "affected")
      BY <3>1, <2>2 DEF Goal, At, Deletes, Written, MayDelete, Statements
    <3>2. CASE /\ At(c, "unapply", "affected")
               /\ affected' = [affected EXCEPT ![c] = {r[2] : r \in PatternSources(c)}]
               /\ pc' = [pc EXCEPT ![c] = "sources"]
               /\ UNCHANGED <<db, ins, del, call, wait, overlapped, spared, kept>>
      <4>1. {r[2] : r \in PatternSources(c)} \subseteq Messages
        BY Parts, RowShapes DEF PatternSources, RowsOf
      <4>2. Shapes' /\ Others(c) /\ pc'[c] = "sources"
        BY <3>2, <4>1 DEF Shapes, Others, Kept, SessionsInv, TypeOK
      <4>3. wait'[c] = {}
        BY <3>2 DEF SessionsInv, Session, Written, At
      <4> QED
        BY <3>2, <4>2, <4>3 DEF Goal, Examines, At
    <3>3. CASE At(c, "unapply", "sources") /\ Delete(c, PatternSources(c), "count")
      <4>1. PatternSources(c) \subseteq SourceRows
        BY RowsOfKind DEF PatternSources
      <4> QED
        BY <3>3, <4>1 DEF Goal, At, Deletes, Written, MayDelete, Statements
    <3> QED
      BY <2>7, <2>1, <3>1, <3>2, <3>3 DEF RemoveLabelByMerchant
  <2>8. CASE RemoveOrphanedLabels(c)
    <3>1. CASE /\ At(c, "unapply", "count") /\ affected[c] = {}
               /\ pc' = [pc EXCEPT ![c] = "commit"]
               /\ UNCHANGED <<db, ins, del, call, wait, affected, overlapped, spared, kept>>
      <4>1. Shapes' /\ Others(c) /\ pc'[c] = "commit"
        BY <3>1 DEF Shapes, Others, Kept, SessionsInv, TypeOK
      <4>2. wait'[c] = {}
        BY <3>1 DEF SessionsInv, Session, Written, At
      <4> QED
        BY <3>1, <4>1, <4>2 DEF Goal, Examines, At
    <3>2. ASSUME At(c, "unapply", "count"), NEW m \in affected[c],
                 affected' = [affected EXCEPT ![c] = @ \ {m}],
                 \/ HasSources(c, m) /\ UNCHANGED <<pc, wait>>
                 \/ /\ ~HasSources(c, m)
                    /\ pc' = [pc EXCEPT ![c] = "untag"]
                    /\ wait' = [wait EXCEPT ![c] = Tags({m}, L)],
                 UNCHANGED <<db, ins, del, call, overlapped, spared, kept>>
          PROVE  Goal
      <4>1. m \in Messages /\ Tags({m}, L) \subseteq TagRows /\ TagRows \subseteq Row
        BY <2>2, Parts DEF SessionsInv, TypeOK
      <4>2. wait[c] = {}
        BY <3>2 DEF SessionsInv, Session, Written, At
      <4>3. CASE UNCHANGED <<pc, wait>>
        <5>1. Shapes' /\ Others(c)
          BY <3>2, <4>3 DEF Shapes, Others, Kept, SessionsInv, TypeOK
        <5> QED
          BY <3>2, <4>2, <4>3, <5>1 DEF Goal, Examines, At
      <4>4. CASE /\ pc' = [pc EXCEPT ![c] = "untag"]
                 /\ wait' = [wait EXCEPT ![c] = Tags({m}, L)]
        <5>1. Shapes' /\ Others(c) /\ pc'[c] = "untag" /\ wait'[c] \subseteq TagRows
          BY <3>2, <4>1, <4>4 DEF Shapes, Others, Kept, SessionsInv, TypeOK
        <5> QED
          BY <3>2, <5>1 DEF Goal, Examines, At
      <4> QED
        BY <3>2, <4>3, <4>4
    <3>3. CASE At(c, "unapply", "untag") /\ Delete(c, {}, "count")
      BY <3>3 DEF Goal, At, Deletes, Written, MayDelete, Statements
    <3> QED
      BY <2>8, <3>1, <3>2, <3>3 DEF RemoveOrphanedLabels
  <2>9. CASE Ingest(c)
    <3>1. CASE At(c, "ingest", "upsert") /\ Upsert(c)
      BY <3>1 DEF Goal, At
    <3>2. CASE At(c, "ingest", "sources")
               /\ Insert(c, {r \in SourceRows : /\ r[2] \in M
                                                /\ Mapping(r[3], r[4]) \in View(c)
                                                /\ Match(r[2], r[4]) \in View(c)}, "tags")
      BY <3>2 DEF Goal, At, Inserts, Written, MayInsert, Statements
    <3>3. CASE At(c, "ingest", "tags")
               /\ Insert(c, {Tag(r[2], r[3]) : r \in RowsOf(c, SourceRows, M, Labels)}, "commit")
      <4>1. {Tag(r[2], r[3]) : r \in RowsOf(c, SourceRows, M, Labels)} \subseteq TagRows
        BY Parts, RowShapes, Kinds DEF RowsOf
      <4> QED
        BY <3>3, <4>1 DEF Goal, At, Inserts, Written, MayInsert, Statements
    <3> QED
      BY <2>9, <2>1, <3>1, <3>2, <3>3 DEF Ingest
  <2> QED
    BY <2>3, <2>4, <2>5, <2>6, <2>7, <2>8, <2>9 DEF Goal, ClientStep
<1> QED
  BY <1>1, <1>2

(* Every step keeps the sessions.                                           *)
LEMMA BeginEffect ==
    ASSUME SessionsInv, NEW c \in Clients, NEW op, NEW M, NEW L, NEW P, NEW first,
           op \in Ops,
           M \subseteq Messages, L \subseteq Labels, P \subseteq Patterns,
           first = First(op), Begin(c, op, M, L, P, first)
    PROVE  /\ ~Active(c) /\ UNCHANGED <<db, ins, del, wait, affected, spared>> /\ Others(c)
           /\ Shapes' /\ pc'[c] = first
           /\ call'[c] = [op |-> op, messages |-> M, labels |-> L, patterns |-> P]
           /\ call'[c] \in Request
<1> DEFINE request == [op |-> op, messages |-> M, labels |-> L, patterns |-> P]
<1>1. request \in Request
  BY DEF Request, Ops
<1>2. first \in {"idle", "sources", "tags", "mapping", "affected", "count", "untag", "upsert", "commit"}
  BY StatementNames
<1> HIDE DEF request
<1>3. call' = [call EXCEPT ![c] = request] /\ pc' = [pc EXCEPT ![c] = first]
  BY DEF Begin, request
<1>4. kept' \in [Clients -> SUBSET SourceRows]
  <2>1. Sources(Messages, L, {Manual}) \subseteq SourceRows
    BY ComprehensionKinds DEF Why
  <2> QED
    BY <2>1 DEF Begin, SessionsInv, TypeOK
<1>5. Shapes' /\ Others(c) /\ pc'[c] = first /\ call'[c] = request
  <2>1. UNCHANGED <<db, ins, del, wait, affected, spared>> /\ overlapped' \in BOOLEAN
    BY DEF Begin, SessionsInv, TypeOK
  <2> QED
    BY <1>1, <1>2, <1>3, <1>4, <2>1 DEF Shapes, Others, Kept, SessionsInv, TypeOK
<1> QED
  BY <1>1, <1>5 DEF Begin, Active, request

LEMMA ReleaseEffect ==
    ASSUME SessionsInv, NEW c \in Clients, Release(c)
    PROVE  /\ Others(c) /\ UNCHANGED overlapped
           /\ ins'[c] = {} /\ del'[c] = {} /\ wait'[c] = {} /\ affected'[c] = {}
           /\ call'[c] = NoRequest /\ pc'[c] = "idle"
           /\ ins' \in [Clients -> SUBSET Row] /\ del' \in [Clients -> SUBSET Row]
           /\ wait' \in [Clients -> SUBSET Row] /\ affected' \in [Clients -> SUBSET Messages]
           /\ call' \in [Clients -> Request \cup {NoRequest}]
           /\ pc' \in [Clients -> {"idle", "sources", "tags", "mapping", "affected", "count", "untag",
                                   "upsert", "commit"}]
           /\ kept' \in [Clients -> SUBSET SourceRows]
           /\ \A d \in Clients : kept'[d] \subseteq kept[d] /\ kept'[d] \subseteq db'
<1>1. /\ ins \in [Clients -> SUBSET Row] /\ del \in [Clients -> SUBSET Row]
      /\ wait \in [Clients -> SUBSET Row] /\ affected \in [Clients -> SUBSET Messages]
      /\ call \in [Clients -> Request \cup {NoRequest}]
      /\ pc \in [Clients -> {"idle", "sources", "tags", "mapping", "affected", "count", "untag",
                             "upsert", "commit"}]
  BY DEF SessionsInv, TypeOK
<1>2. /\ ins' = [ins EXCEPT ![c] = {}] /\ del' = [del EXCEPT ![c] = {}]
      /\ wait' = [wait EXCEPT ![c] = {}] /\ affected' = [affected EXCEPT ![c] = {}]
      /\ call' = [call EXCEPT ![c] = NoRequest] /\ pc' = [pc EXCEPT ![c] = "idle"]
      /\ UNCHANGED overlapped
  BY DEF Release, Released
<1>3. kept \in [Clients -> SUBSET SourceRows]
  BY DEF SessionsInv, TypeOK
<1>4. kept' = [d \in Clients |-> [kept EXCEPT ![c] = {}][d] \cap db']
  BY DEF Release, Released
<1>5. \A d \in Clients : kept'[d] \subseteq kept[d] /\ kept'[d] \subseteq db'
  BY <1>3, <1>4
<1>6. kept' \in [Clients -> SUBSET SourceRows]
  BY <1>3, <1>4
<1> QED
  BY <1>1, <1>2, <1>5, <1>6 DEF Others, Kept

LEMMA WrittenShapes ==
    ASSUME SessionsInv, NEW c \in Clients, Active(c), UNCHANGED <<db, call, affected, overlapped, spared, kept>>,
           Others(c), ins' \in [Clients -> SUBSET Row], del' \in [Clients -> SUBSET Row],
           wait' \in [Clients -> SUBSET Row], pc' = [pc EXCEPT ![c] = pc'[c]],
           pc'[c] \in Statements(call[c].op)
    PROVE  Shapes' /\ pc'[c] # "idle"
<1>1. pc'[c] \in {"sources", "tags", "mapping", "affected", "count", "untag", "upsert", "commit"}
  BY Requests, StatementNames
<1> QED
  BY <1>1 DEF Shapes, SessionsInv, TypeOK

LEMMA WrittenKinds ==
    /\ \A s : s # "upsert" => Written(s) \cap TxnRows = {}
    /\ \A s : Written(s) \cap MatchRows = {} /\ Written(s) \subseteq Row
    /\ \A s, m : s # "upsert" => Txn(m) \notin Written(s)
    /\ \A s, m, p : Match(m, p) \notin Written(s)
    /\ \A op : MayInsert(op) \subseteq Row
    /\ \A op : op # "ingest" => MayInsert(op) \cap (TxnRows \cup MatchRows) = {}
                                /\ MayDelete(op) \cap (TxnRows \cup MatchRows) = {}
<1>1. /\ TxnRows \cap (SourceRows \cup TagRows \cup MappingRows) = {}
      /\ MatchRows \cap (TxnRows \cup SourceRows \cup TagRows \cup MappingRows) = {}
  BY Kinds, Parts
<1>2. \A s : Written(s) \in {TxnRows, MappingRows, SourceRows, TagRows, {}}
             /\ (s # "upsert" => Written(s) \in {MappingRows, SourceRows, TagRows, {}})
  BY DEF Written
<1>3. \A s, m : s # "upsert" => Txn(m) \notin Written(s)
  BY <1>2, Kinds
<1>4. \A s, m, p : Match(m, p) \notin Written(s)
  BY <1>2, Kinds
<1> QED
  BY <1>1, <1>3, <1>4, Parts DEF Written, MayInsert, MayDelete

LEMMA UpsertEffect ==
    ASSUME SessionsInv, NEW c \in Clients, call[c].op = "ingest", pc[c] = "upsert", Upsert(c),
           NEW txns, txns = {Txn(m) : m \in call[c].messages}
    PROVE  /\ UNCHANGED <<db, call, affected, overlapped, spared, kept>> /\ Others(c)
           /\ txns \subseteq TxnRows /\ Todo(c, txns) \subseteq TxnRows
           /\ Proceeds(c, txns, "sources") /\ pc' = [pc EXCEPT ![c] = pc'[c]]
           /\ ins' \in [Clients -> SUBSET Row] /\ del' \in [Clients -> SUBSET Row]
           /\ wait' \in [Clients -> SUBSET Row]
           /\ ins[c] \cup Done(c, txns) \subseteq ins'[c] /\ del[c] \subseteq del'[c]
           /\ ins'[c] \subseteq ins[c] \cup TxnRows \cup MatchRows
           /\ del'[c] \subseteq del[c] \cup MatchRows
           /\ \A m : Txn(m) \in ins'[c] => Txn(m) \in ins[c] \cup Done(c, txns)
           /\ \A m, p : Match(m, p) \in (ins'[c] \cup del'[c]) \ (ins[c] \cup del[c]) =>
                            Txn(m) \in Done(c, txns)
<1> DEFINE written == Free(c, txns)
           stored == {r[2] : r \in written}
           matches == Matches(stored, call[c].patterns)
           others == Matches(stored, Patterns \ call[c].patterns)
           given == others \cap View(c)
           taken == written \cup matches
<1>1. call[c].messages \subseteq Messages /\ call[c].patterns \subseteq Patterns /\ Active(c)
  BY Requests DEF Active
<1>2. txns \subseteq TxnRows /\ Todo(c, txns) \subseteq TxnRows
  BY <1>1 DEF TxnRows, Todo, SessionsInv, Session, Written
<1>3. txns \in SUBSET Row
  BY <1>2, Parts
<1>4. Execute(c, txns, "sources")
  BY DEF Upsert
<1>5. /\ Proceeds(c, txns, "sources") /\ written = Done(c, txns) /\ wait' \in [Clients -> SUBSET Row]
      /\ \A d \in Clients \ {c} : pc'[d] = pc[d] /\ wait'[d] = wait[d]
      /\ pc' = [pc EXCEPT ![c] = pc'[c]]
  BY <1>3, <1>4, ExecuteEffect
<1>6. written \subseteq TxnRows
  BY <1>2, <1>5 DEF Done
<1>7. \A r \in written : r[2] \in Messages /\ r = Txn(r[2])
  BY <1>6, Parts, RowShapes
<1>8. /\ matches \subseteq MatchRows /\ others \subseteq MatchRows
      /\ \A m, p : Match(m, p) \in matches \cup others => Txn(m) \in written
  <2>1. stored \subseteq Messages /\ \A m \in stored : Txn(m) \in written
    BY <1>7
  <2>2. matches \subseteq MatchRows /\ others \subseteq MatchRows
    BY <2>1, <1>1, ComprehensionKinds
  <2>3. \A m, p : Match(m, p) \in matches \cup others => m \in stored
    BY Members
  <2> QED
    BY <2>1, <2>2, <2>3
<1>9. /\ ins' = [ins EXCEPT ![c] = @ \cup taken] /\ del' = [del EXCEPT ![c] = @ \cup given]
      /\ UNCHANGED <<db, call, affected, overlapped, spared, kept>>
  <2>1. /\ ins' = [ins EXCEPT ![c] = @ \cup written \cup matches]
        /\ UNCHANGED <<db, call, affected, overlapped, spared, kept>>
        /\ del' = [del EXCEPT ![c] = @ \cup (others \cap View(c))]
    BY DEF Upsert
  <2>2. \A s : s \cup written \cup matches = s \cup taken
    OBVIOUS
  <2> QED
    BY <2>1, <2>2
<1>10. taken \subseteq TxnRows \cup MatchRows /\ given \subseteq MatchRows
  BY <1>6, <1>8
<1>11. /\ \A m : Txn(m) \in taken => Txn(m) \in written
       /\ \A m, p : Match(m, p) \in taken \cup given => Txn(m) \in written
  BY <1>6, <1>8, Kinds
<1>12. written \subseteq taken
  OBVIOUS
<1> HIDE DEF taken, given, written
<1>13. /\ ins \in [Clients -> SUBSET Row] /\ del \in [Clients -> SUBSET Row]
       /\ taken \subseteq Row /\ given \subseteq Row
  BY <1>10, Parts DEF SessionsInv, TypeOK
<1>14. /\ ins' \in [Clients -> SUBSET Row] /\ del' \in [Clients -> SUBSET Row]
       /\ ins'[c] = ins[c] \cup taken /\ del'[c] = del[c] \cup given
       /\ \A d \in Clients \ {c} : ins'[d] = ins[d] /\ del'[d] = del[d]
  BY <1>9, <1>13
<1> QED
  BY <1>2, <1>5, <1>9, <1>10, <1>11, <1>12, <1>14 DEF Others, Kept

LEMMA StepSessions ==
    ASSUME SessionsInv, NEW c \in Clients, ClientStep(c)
    PROVE  SessionsInv'
<1> DEFINE op == call[c].op
<1>0. /\ Session(c) /\ Held(c) /\ db \subseteq Row /\ spared \subseteq SourceRows
      /\ overlapped \in BOOLEAN /\ DOMAIN pc = Clients
      /\ ins \in [Clients -> SUBSET Row] /\ del \in [Clients -> SUBSET Row]
  BY DEF SessionsInv, TypeOK
<1>1. CASE Begins(c)
  <2>1. PICK o \in Ops,
             M \in SUBSET Messages, L \in SUBSET Labels, P \in SUBSET Patterns :
                Begin(c, o, M, L, P, First(o))
    BY <1>1 DEF Begins
  <2>2. /\ ~Active(c) /\ UNCHANGED <<db, ins, del, wait, affected, spared>> /\ Others(c)
        /\ Shapes' /\ pc'[c] = First(o) /\ call'[c] \in Request
        /\ call'[c] = [op |-> o, messages |-> M, labels |-> L, patterns |-> P]
    BY <2>1, BeginEffect
  <2>a. call'[c].op = o /\ call'[c].messages = M
    BY <2>2
  <2>3. ins[c] = {} /\ del[c] = {} /\ wait[c] = {}
    BY <2>2, Idle
  <2>4. First(o) # "idle" /\ First(o) \in Statements(o)
    BY <2>1, StatementNames
  <2>5. Session(c)'
    BY <2>1, <2>2, <2>a, <2>3, <2>4 DEF Session, Active
  <2>6. Held(c)'
    BY <2>1, <2>2, <2>a, <2>3 DEF Held, First
  <2> QED
    BY <2>2, <2>3, <2>4, <2>5, <2>6, SessionsKept
<1>2. CASE Inserts(c)
  <2>1. PICK R, next : /\ R \subseteq Written(pc[c]) /\ Written(pc[c]) \subseteq MayInsert(op)
                       /\ next \in Statements(op) /\ pc[c] \notin {"idle", "upsert"}
                       /\ Insert(c, R, next)
    BY <1>2 DEF Inserts
  <2>2. R \in SUBSET Row /\ Todo(c, R) \subseteq Written(pc[c])
    BY <2>1, <1>0, WrittenKinds DEF Todo, Session
  <2>3. /\ UNCHANGED <<db, call, affected, overlapped, spared, kept>> /\ Others(c)
        /\ Proceeds(c, R, next) /\ pc' = [pc EXCEPT ![c] = pc'[c]]
        /\ ins' \in [Clients -> SUBSET Row] /\ wait' \in [Clients -> SUBSET Row] /\ del' = del
        /\ ins[c] \subseteq ins'[c] /\ ins'[c] \subseteq ins[c] \cup Done(c, R)
    BY <2>1, <2>2, InsertEffect
  <2>4. Active(c)
    BY <2>1 DEF Active
  <2>5. pc'[c] \in Statements(op) /\ wait'[c] \subseteq Written(pc'[c])
    BY <2>1, <2>2, <2>3, <2>4, Requests DEF Proceeds
  <2>6. Shapes' /\ pc'[c] # "idle"
    BY <2>3, <2>4, <2>5, <1>0, WrittenShapes
  <2>7. Session(c)'
    BY <2>1, <2>2, <2>3, <2>4, <2>5, <2>6, <1>0 DEF Session, Active, Done
  <2>8. Held(c)'
    <3>1. /\ \A m : Txn(m) \in ins'[c] <=> Txn(m) \in ins[c]
          /\ \A m, p : Match(m, p) \in ins'[c] \cup del'[c] <=> Match(m, p) \in ins[c] \cup del[c]
          /\ \A m : Txn(m) \notin wait[c]
          /\ wait'[c] \cap TxnRows = {}
      <4>1. \A m, p : Txn(m) \notin Written(pc[c]) /\ Match(m, p) \notin Written(pc[c])
            /\ Written(pc[c]) \cap TxnRows = {}
        BY <2>1, WrittenKinds
      <4> QED
        BY <4>1, <2>2, <2>3, <1>0 DEF Done, Proceeds, Session
    <3> QED
      BY <3>1, <2>1, <2>3, <1>0 DEF Held
  <2>9. \A r \in (ins'[c] \cup del'[c]) \ (ins[c] \cup del[c]) : ~Locked(c, r)
    BY <2>3 DEF Proceeds
  <2> QED
    BY <2>3, <2>6, <2>7, <2>8, <2>9, SessionsKept
<1>3. CASE Deletes(c)
  <2>1. PICK R, next : /\ R \subseteq Written(pc[c]) /\ Written(pc[c]) \subseteq MayDelete(op)
                       /\ next \in Statements(op) /\ pc[c] \notin {"idle", "upsert"}
                       /\ Delete(c, R, next)
    BY <1>3 DEF Deletes
  <2>2. R \in SUBSET Row /\ Todo(c, R) \subseteq Written(pc[c])
    BY <2>1, <1>0, WrittenKinds DEF Todo, Session
  <2>3. /\ UNCHANGED <<db, call, affected, overlapped, spared, kept>> /\ Others(c)
        /\ Proceeds(c, R, next) /\ pc' = [pc EXCEPT ![c] = pc'[c]]
        /\ del' \in [Clients -> SUBSET Row] /\ wait' \in [Clients -> SUBSET Row] /\ ins' = ins
        /\ del'[c] = del[c] \cup (Done(c, R) \cap View(c))
    BY <2>1, <2>2, DeleteEffect
  <2>4. Active(c)
    BY <2>1 DEF Active
  <2>5. pc'[c] \in Statements(op) /\ wait'[c] \subseteq Written(pc'[c])
    BY <2>1, <2>2, <2>3, <2>4, Requests DEF Proceeds
  <2>6. Shapes' /\ pc'[c] # "idle"
    BY <2>3, <2>4, <2>5, <1>0, WrittenShapes
  <2>7. Session(c)'
    BY <2>1, <2>2, <2>3, <2>4, <2>5, <2>6, <1>0 DEF Session, Active, Done
  <2>8. Held(c)'
    <3>1. /\ \A m, p : Match(m, p) \in del'[c] <=> Match(m, p) \in del[c]
          /\ \A m : Txn(m) \notin wait[c]
          /\ wait'[c] \cap TxnRows = {}
      <4>1. \A m, p : Txn(m) \notin Written(pc[c]) /\ Match(m, p) \notin Written(pc[c])
            /\ Written(pc[c]) \cap TxnRows = {}
        BY <2>1, WrittenKinds
      <4> QED
        BY <4>1, <2>2, <2>3, <1>0 DEF Done, Proceeds, Session
    <3> QED
      BY <3>1, <2>1, <2>3, <1>0 DEF Held
  <2>9. \A r \in (ins'[c] \cup del'[c]) \ (ins[c] \cup del[c]) : ~Locked(c, r)
    BY <2>3 DEF Proceeds
  <2> QED
    BY <2>3, <2>6, <2>7, <2>8, <2>9, SessionsKept
<1>4. CASE Examines(c)
  <2>1. Active(c)
    BY <1>4 DEF Examines, Active
  <2>2. Session(c)'
    <3>1. {"sources", "count", "untag", "commit"} \subseteq Statements("unapply")
      BY DEF Statements
    <3>2. wait'[c] \subseteq Written(pc'[c])
      BY <1>4 DEF Examines, Written
    <3> QED
      BY <1>4, <2>1, <3>1, <3>2, <1>0 DEF Examines, Session, Active
  <2>3. Held(c)'
    <3>1. wait'[c] \cap TxnRows = {}
      BY <1>4, Kinds, Parts DEF Examines
    <3> QED
      BY <1>4, <3>1, <1>0 DEF Examines, Held
  <2> QED
    BY <1>4, <2>2, <2>3, SessionsKept DEF Examines
<1>5. CASE op = "ingest" /\ pc[c] = "upsert" /\ Upsert(c)
  <2> DEFINE txns == {Txn(m) : m \in call[c].messages}
  <2> HIDE DEF txns
  <2>1. /\ UNCHANGED <<db, call, affected, overlapped, spared, kept>> /\ Others(c)
        /\ txns \subseteq TxnRows /\ Todo(c, txns) \subseteq TxnRows
        /\ Proceeds(c, txns, "sources") /\ pc' = [pc EXCEPT ![c] = pc'[c]]
        /\ ins' \in [Clients -> SUBSET Row] /\ del' \in [Clients -> SUBSET Row]
        /\ wait' \in [Clients -> SUBSET Row]
        /\ ins[c] \cup Done(c, txns) \subseteq ins'[c] /\ del[c] \subseteq del'[c]
        /\ ins'[c] \subseteq ins[c] \cup TxnRows \cup MatchRows
        /\ del'[c] \subseteq del[c] \cup MatchRows
        /\ \A m : Txn(m) \in ins'[c] => Txn(m) \in ins[c] \cup Done(c, txns)
        /\ \A m, p : Match(m, p) \in (ins'[c] \cup del'[c]) \ (ins[c] \cup del[c]) =>
                         Txn(m) \in Done(c, txns)
    BY <1>5, UpsertEffect DEF txns
  <2>2. Active(c)
    BY <1>5 DEF Active
  <2>3. pc'[c] \in {"upsert", "sources"} /\ (wait'[c] # {} => pc'[c] = "upsert")
    BY <1>5, <2>1 DEF Proceeds
  <2>4. {"upsert", "sources"} \subseteq Statements(op)
    BY <1>5 DEF Statements
  <2>5. Shapes' /\ pc'[c] # "idle"
    BY <2>1, <2>2, <2>3, <2>4, WrittenShapes
  <2>6. Session(c)'
    <3>1. wait'[c] \subseteq Written(pc'[c])
      BY <2>1, <2>3 DEF Proceeds, Written
    <3>2. ins'[c] \subseteq MayInsert(op) /\ del'[c] \subseteq MayDelete(op)
      BY <1>5, <2>1, <1>0 DEF Session, MayInsert, MayDelete
    <3> QED
      BY <2>1, <2>2, <2>3, <2>4, <2>5, <3>1, <3>2, <1>0 DEF Session, Active
  <2>7. Held(c)'
    <3>1. \A m : Txn(m) \in txns <=> m \in call[c].messages
      BY RowShapes DEF txns
    <3>2. \A m : Txn(m) \in Todo(c, txns) => m \in call[c].messages
      BY <3>1, <2>1, <1>0, Kinds DEF Todo, Held
    <3>3. \A m \in call[c].messages : Txn(m) \in ins[c] \cup Todo(c, txns)
      BY <3>1, <1>0, <1>5 DEF Todo, Held
    <3>4. \A m, p : Match(m, p) \in ins'[c] \cup del'[c] => Txn(m) \in ins'[c]
      BY <2>1, <1>0, Kinds, Parts DEF Held
    <3> QED
      BY <2>1, <3>2, <3>3, <3>4, <1>0 DEF Held, Proceeds, Done
  <2>8. \A r \in (ins'[c] \cup del'[c]) \ (ins[c] \cup del[c]) : ~Locked(c, r)
    <3>1. ASSUME NEW m \in Messages, NEW p \in Patterns,
                 Match(m, p) \in (ins'[c] \cup del'[c]) \ (ins[c] \cup del[c])
          PROVE  ~Locked(c, Match(m, p))
      <4>1. Txn(m) \in Done(c, txns) /\ ~Locked(c, Txn(m))
        BY <3>1, <2>1 DEF Proceeds
      <4>2. \A d \in Clients \ {c} : Match(m, p) \notin ins[d] \cup del[d]
        BY <4>1 DEF SessionsInv, Held, Locked
      <4> QED
        BY <4>2 DEF Locked
    <3>2. ASSUME NEW r \in (ins'[c] \cup del'[c]) \ (ins[c] \cup del[c]), r \notin MatchRows
          PROVE  ~Locked(c, r)
      <4>1. PICK m \in Messages : r = Txn(m)
        BY <3>2, <2>1, Parts
      <4>2. r \in Done(c, txns)
        BY <4>1, <3>2, <2>1, Kinds
      <4> QED
        BY <4>2, <2>1 DEF Proceeds
    <3> QED
      BY <3>1, <3>2, Parts
  <2> QED
    BY <2>1, <2>5, <2>6, <2>7, <2>8, SessionsKept
<1>6. ASSUME Release(c), db' \subseteq Row, spared' \subseteq SourceRows PROVE SessionsInv'
  <2>1. /\ Others(c) /\ UNCHANGED overlapped
        /\ ins'[c] = {} /\ del'[c] = {} /\ wait'[c] = {} /\ affected'[c] = {}
        /\ call'[c] = NoRequest /\ pc'[c] = "idle"
    BY <1>6, ReleaseEffect
  <2>2. Shapes'
    BY <1>6, <1>0, ReleaseEffect DEF Shapes
  <2>3. Session(c)' /\ Held(c)'
    BY <2>1 DEF Session, Held, Active, NoRequest
  <2> QED
    BY <2>1, <2>2, <2>3, SessionsKept
<1>7. CASE Commit(c)
  <2>1. db' = View(c) /\ Release(c)
        /\ spared' = (spared \cup {r \in del[c] \cap SourceRows : call[c].op = "remove"}) \ db'
    BY <1>7 DEF Commit
  <2>2. db' \subseteq Row /\ spared' \subseteq SourceRows
    BY <2>1, <1>0 DEF View
  <2> QED
    BY <2>1, <2>2, <1>6
<1>8. CASE Rollback(c)
  BY <1>8, <1>6, <1>0 DEF Rollback
<1> QED
  BY <1>1, <1>2, <1>3, <1>4, <1>5, <1>7, <1>8, StepKinds

-----------------------------------------------------------------------------
(* What other clients do leaves the work of a request as it is.             *)

LEMMA OverlapsStay ==
    ASSUME SessionsInv, NEW c \in Clients, ClientStep(c)
    PROVE  /\ overlapped => overlapped'
           /\ ~Begins(c) => overlapped' = overlapped
<1>1. CASE Begins(c)
  BY <1>1 DEF Begins, Begin
<1>2. CASE Inserts(c) \/ Deletes(c) \/ Examines(c)
  BY <1>2 DEF Inserts, Deletes, Insert, Delete, Examines
<1>3. CASE Upsert(c)
  BY <1>3 DEF Upsert
<1>4. CASE Commit(c) \/ Rollback(c)
  BY <1>4 DEF Commit, Rollback, Release
<1> QED
  BY <1>1, <1>2, <1>3, <1>4, StepKinds

LEMMA ApartKept ==
    ASSUME SessionsInv, NEW c \in Clients, ClientStep(c), Apart, ~overlapped'
    PROVE  Apart'
<1>1. ASSUME NEW o, NEW M, NEW L, NEW P, NEW first, Begin(c, o, M, L, P, first), Others(c),
             call'[c].op = o
      PROVE  Apart'
  <2>1. \A d \in Clients \ {c} : Active(d)' => Active(d) /\ call'[d] = call[d]
    BY <1>1 DEF Others, Kept, Active
  <2>2. \A d \in Clients : Active(d) => ~Interfere(o, call[d].op) /\ ~Interfere(call[d].op, o)
    BY <1>1 DEF Begin, Active, Interfere
  <2> QED
    BY <1>1, <2>1, <2>2 DEF Apart
<1>2. CASE Begins(c)
  <2>1. PICK o \in Ops,
             M \in SUBSET Messages, L \in SUBSET Labels, P \in SUBSET Patterns :
                Begin(c, o, M, L, P, First(o))
    BY <1>2 DEF Begins
  <2>2. Others(c) /\ call'[c] = [op |-> o, messages |-> M, labels |-> L, patterns |-> P]
    BY <2>1, BeginEffect
  <2> QED
    BY <2>1, <2>2, <1>1
<1>3. CASE Active(c) /\ call' = call /\ Others(c)
  BY <1>3 DEF Apart, Active, Others, Kept
<1>4. CASE Release(c)
  BY <1>4, ReleaseEffect DEF Apart, Active, Others, Kept
<1>5. CASE Inserts(c)
  <2>1. PICK R, next : /\ R \subseteq Written(pc[c]) /\ pc[c] # "idle" /\ Insert(c, R, next)
    BY <1>5 DEF Inserts
  <2>2. R \in SUBSET Row
    BY <2>1, WrittenKinds
  <2> QED
    BY <2>1, <2>2, <1>3, InsertEffect DEF Active
<1>6. CASE Deletes(c)
  <2>1. PICK R, next : /\ R \subseteq Written(pc[c]) /\ pc[c] # "idle" /\ Delete(c, R, next)
    BY <1>6 DEF Deletes
  <2>2. R \in SUBSET Row
    BY <2>1, WrittenKinds
  <2> QED
    BY <2>1, <2>2, <1>3, DeleteEffect DEF Active
<1>7. CASE Examines(c)
  BY <1>7, <1>3 DEF Examines, Active
<1>8. CASE call[c].op = "ingest" /\ pc[c] = "upsert" /\ Upsert(c)
  BY <1>8, <1>3, UpsertEffect DEF Active
<1> QED
  BY <1>2, <1>4, <1>5, <1>6, <1>7, <1>8, StepKinds DEF Commit, Rollback

(* A step that commits nothing.                                             *)
LEMMA Frame ==
    ASSUME NEW d, Kept(d), db' = db, Detail(d)
    PROVE  Detail(d)'
<1>1. /\ ins'[d] = ins[d] /\ del'[d] = del[d] /\ call'[d] = call[d]
      /\ pc'[d] = pc[d] /\ wait'[d] = wait[d] /\ affected'[d] = affected[d]
  BY DEF Kept
<1>2. View(d)' = View(d)
  BY <1>1 DEF View
<1>3. Matching(d)' = Matching(d)
  BY <1>1, <1>2 DEF Matching
<1>4. \A m, l, p : /\ Within(d, m, l)' <=> Within(d, m, l)
                   /\ Due(d, m, l, p)' <=> Due(d, m, l, p)
                   /\ HasSource(d, m, l)' <=> HasSource(d, m, l)
                   /\ InScope(d, m, l)' <=> InScope(d, m, l)
  BY <1>1, <1>2, <1>3 DEF Within, Due, HasSource, InScope
<1>5. Adds(d) => Adds(d)'
  <2>1. AsAsked(d) => AsAsked(d)'
    BY <1>1, <1>4 DEF AsAsked
  <2>2. DueSources(d) => DueSources(d)'
    BY <1>1, <1>2, <1>4 DEF DueSources
  <2>3. DueTags(d) => DueTags(d)'
    BY <1>1, <1>2 DEF DueTags
  <2>4. TagsSourced(d) => TagsSourced(d)'
    BY <1>1, <1>4 DEF TagsSourced
  <2> QED
    BY <2>1, <2>2, <2>3, <2>4 DEF Adds
<1>6. Removes(d) => Removes(d)'
  <2>1. SourcesRemoved(d) => SourcesRemoved(d)'
    BY <1>1, <1>4 DEF SourcesRemoved
  <2>2. TagsRemoved(d) => TagsRemoved(d)'
    BY <1>1, <1>4 DEF TagsRemoved
  <2>3. MappingsRemoved(d) => MappingsRemoved(d)'
    BY <1>1, <1>2 DEF MappingsRemoved
  <2> QED
    BY <2>1, <2>2, <2>3 DEF Removes
<1>7. Unapplies(d) => Unapplies(d)'
  <2>1. \A l \in Labels : Unapplied(d, l) => Unapplied(d, l)'
    <3> TAKE l \in Labels
    <3>1. MappingGone(d, l) => MappingGone(d, l)'
      BY <1>1, <1>2 DEF MappingGone
    <3>2. SourcesGone(d, l) => SourcesGone(d, l)'
      BY <1>1 DEF SourcesGone
    <3>3. TagsGone(d, l) => TagsGone(d, l)'
      BY <1>1, <1>4 DEF TagsGone
    <3>4. Examined(d, l) => Examined(d, l)'
      BY <1>1, <1>2, <1>4 DEF Examined
    <3> QED
      BY <1>1, <3>1, <3>2, <3>3, <3>4 DEF Unapplied
  <2> QED
    BY <2>1 DEF Unapplies
<1> QED
  BY <1>1, <1>5, <1>6, <1>7 DEF Detail

(* What a request that adds may delete, and what other requests commit.     *)
LEMMA Together ==
    ASSUME SessionsInv, Apart, NEW c \in Clients, NEW d \in Clients \ {c}, Active(c), Active(d)
    PROVE  /\ call[c].op \in {"add", "apply", "delete", "ingest"}
           /\ call[d].op \in {"add", "apply", "delete", "ingest"}
           /\ call[d].op = "apply" => call[c].op # "ingest"
           /\ call[d].op = "ingest" => call[c].op # "apply"
<1>1. ~Interfere(call[c].op, call[d].op)
  BY DEF Apart
<1> QED
  BY <1>1, Requests DEF Interfere, Removals, Ops

(* A commit of another request leaves an addition what it relies on.        *)
LEMMA CommitOther ==
    ASSUME SessionsInv, Apart, NEW c \in Clients, NEW d \in Clients \ {c}, Active(c), Detail(d),
           Others(c), db' = View(c)
    PROVE  Detail(d)'
<1>1. CASE call[d].op \in Additions
  <2>1. /\ ins'[d] = ins[d] /\ del'[d] = del[d] /\ call'[d] = call[d]
        /\ pc'[d] = pc[d] /\ wait'[d] = wait[d]
    BY DEF Others, Kept
  <2>2. /\ Active(d) /\ call[d].op \in {"add", "apply", "ingest"} /\ Session(d) /\ Session(c)
        /\ Held(d) /\ Held(c)
    BY <1>1, Idle DEF Additions, SessionsInv
  <2>3. /\ call[c].op \in {"add", "apply", "delete", "ingest"}
        /\ call[d].op = "apply" => call[c].op # "ingest"
        /\ call[d].op = "ingest" => call[c].op # "apply"
    BY <2>2, Together
  <2>4. /\ \A m, l, p : Source(m, l, p) \notin del[c] /\ Source(m, l, p) \notin del[d]
        /\ \A m, l : Tag(m, l) \notin del[c] /\ Tag(m, l) \notin del[d]
    BY <2>2, <2>3, Kinds DEF Session, MayDelete
  <2>5. /\ \A m, l, p : Source(m, l, p) \in View(d) => Source(m, l, p) \in View(d)'
        /\ \A m, l : Tag(m, l) \in View(d) => Tag(m, l) \in View(d)'
    BY <2>1, <2>4 DEF View
  <2>6. call[d].op = "apply" => Matching(d)' = Matching(d)
    <3>1. call[d].op = "apply" => \A m, p : Match(m, p) \notin ins[c] \cup del[c]
      BY <2>2, <2>3, Kinds DEF Session, MayInsert, MayDelete
    <3>2. call[d].op = "apply" => \A m, p : Match(m, p) \in View(d)' <=> Match(m, p) \in View(d)
      BY <2>1, <3>1 DEF View
    <3> QED
      BY <2>1, <3>2 DEF Matching
  <2>7. \A m, l : Within(d, m, l)' <=> Within(d, m, l)
    BY <2>1, <2>2, <2>6 DEF Within
  <2>8. ASSUME NEW m \in Messages, NEW l \in Labels, NEW p \in Why, pc[d] # "upsert", Due(d, m, l, p)'
        PROVE  Due(d, m, l, p)
    <3>1. CASE call[d].op # "ingest"
      BY <2>1, <2>2, <2>7, <2>8, <3>1 DEF Due
    <3>2. CASE call[d].op = "ingest"
      <4>1. m \in call[d].messages /\ {Match(m, p), Mapping(l, p)} \subseteq View(d)'
        BY <2>1, <2>7, <2>8, <3>2 DEF Due, Within
      <4>2. Mapping(l, p) \in View(d)
        BY <2>1, <2>2, <2>3, <3>2, <4>1, Kinds DEF View, Session, MayInsert
      <4>3. Txn(m) \in ins[d]
        BY <2>2, <2>8, <3>2, <4>1, WrittenKinds DEF Held, Session
      <4>4. Txn(m) \notin ins[c]
        BY <4>3 DEF SessionsInv, TypeOK, Exclusive
      <4>5. Match(m, p) \in ins[c] \cup del[c] => p \in Patterns
        BY <2>2, Kinds DEF SessionsInv, TypeOK, Session, MayInsert, MayDelete
      <4>6. Match(m, p) \notin ins[c] \cup del[c]
        BY <2>2, <4>4, <4>5 DEF Held
      <4>7. Match(m, p) \in View(d)
        BY <2>1, <4>1, <4>6 DEF View
      <4> QED
        BY <3>2, <4>1, <4>2, <4>7 DEF Due, Within
    <3> QED
      BY <3>1, <3>2
  <2>9. Adds(d)
    BY <1>1 DEF Detail
  <2>10. AsAsked(d)'
    BY <2>1, <2>7, <2>9 DEF Adds, AsAsked
  <2>11. DueSources(d)'
    BY <2>1, <2>5, <2>8, <2>9 DEF Adds, DueSources
  <2>12. DueTags(d)'
    BY <2>1, <2>5, <2>9 DEF Adds, DueTags
  <2>13. TagsSourced(d)'
    BY <2>1, <2>5, <2>9 DEF Adds, TagsSourced, HasSource
  <2> QED
    BY <1>1, <2>1, <2>10, <2>11, <2>12, <2>13 DEF Detail, Adds, Additions
<1>2. CASE call[d].op \notin Additions
  <2>1. Active(d) => call[d].op = "delete"
    BY <1>2, Together DEF Additions
  <2>2. call'[d].op \in {"none", "delete"}
    BY <2>1, Idle DEF Others, Kept
  <2> QED
    BY <2>2 DEF Detail, Additions
<1> QED
  BY <1>1, <1>2

-----------------------------------------------------------------------------
(* The statements of the requests that add.                                 *)

(* The statement that inserts the sources that are due.                     *)
LEMMA SourcesStep ==
    ASSUME SessionsInv, NEW c \in Clients, call[c].op \in Additions, Adds(c), pc[c] = "sources",
           NEW R \in SUBSET SourceRows, Insert(c, R, "tags"),
           \A m \in Messages, l \in Labels, p \in Why : Source(m, l, p) \in R <=> Due(c, m, l, p)
    PROVE  Adds(c)'
<1>1. R \in SUBSET Row /\ wait[c] \subseteq SourceRows /\ Todo(c, R) \subseteq SourceRows
  BY Parts DEF SessionsInv, Session, Written, Todo
<1>2. /\ UNCHANGED <<db, call, affected, overlapped, spared, kept>> /\ Others(c)
      /\ Proceeds(c, R, "tags") /\ del' = del
      /\ ins[c] \subseteq ins'[c] /\ ins'[c] \subseteq ins[c] \cup Done(c, R)
      /\ View(c)' = View(c) \cup Done(c, R)
  BY <1>1, InsertEffect
<1>3. /\ Done(c, R) \cup wait'[c] = Todo(c, R)
      /\ \/ wait'[c] = {} /\ pc'[c] = "tags"
         \/ wait'[c] # {} /\ pc'[c] = "sources"
  BY <1>2 DEF Proceeds, Done
<1>4. /\ \A m, p : Match(m, p) \in View(c)' <=> Match(m, p) \in View(c)
      /\ \A l, p : Mapping(l, p) \in View(c)' <=> Mapping(l, p) \in View(c)
      /\ \A l, p : Mapping(l, p) \in ins'[c] \cup wait'[c] => Mapping(l, p) \in ins[c] \cup wait[c]
      /\ \A m, l : Tag(m, l) \in ins'[c] \cup wait'[c] => Tag(m, l) \in ins[c]
  BY <1>1, <1>2, <1>3, Kinds
<1>5. Matching(c)' = Matching(c)
  BY <1>2, <1>4 DEF Matching
<1>6. \A m, l, p : /\ Within(c, m, l)' <=> Within(c, m, l)
                   /\ Due(c, m, l, p)' <=> Due(c, m, l, p)
                   /\ Due(c, m, l, p) => Within(c, m, l)
  <2>1. call'[c] = call[c]
    BY <1>2
  <2>2. \A m, l : Within(c, m, l)' <=> Within(c, m, l)
    BY <2>1, <1>5 DEF Within, Additions
  <2>3. \A m, l, p : Due(c, m, l, p)' <=> Due(c, m, l, p)
    BY <2>1, <2>2, <1>4 DEF Due, Additions
  <2>4. \A m, l, p : Due(c, m, l, p) => Within(c, m, l)
    BY DEF Due, Additions
  <2> QED
    BY <2>2, <2>3, <2>4
<1>7. \A m \in Messages, l \in Labels, p \in Why :
         Due(c, m, l, p) => Source(m, l, p) \in View(c) \cup Todo(c, R)
  BY DEF Adds, DueSources, Todo
<1>8. AsAsked(c)'
  <2>1. \A m \in Messages, l \in Labels, p \in Why :
           Source(m, l, p) \in ins'[c] \cup wait'[c] => Within(c, m, l)
    BY <1>2, <1>3, <1>6 DEF Adds, AsAsked, Todo
  <2>2. \A l \in Labels, p \in Patterns :
           Mapping(l, p) \in ins'[c] \cup wait'[c] => l \in call[c].labels /\ p \in call[c].patterns
    BY <1>4 DEF Adds, AsAsked
  <2> QED
    BY <2>1, <2>2, <1>2, <1>6 DEF AsAsked
<1>9. DueSources(c)'
  BY <1>2, <1>3, <1>6, <1>7 DEF DueSources
<1>10. DueTags(c)'
  BY <1>3 DEF DueTags
<1>11. TagsSourced(c)'
  BY <1>4 DEF Adds, TagsSourced
<1> QED
  BY <1>8, <1>9, <1>10, <1>11 DEF Adds

(* The statement that gives the labels of the sources.                      *)
LEMMA TagsStep ==
    ASSUME SessionsInv, NEW c \in Clients, call[c].op \in Additions, Adds(c), pc[c] = "tags",
           NEW R \in SUBSET TagRows, Insert(c, R, "commit"),
           \A m \in Messages, l \in Labels : Tag(m, l) \in R => HasSource(c, m, l),
           \A m \in Messages, l \in Labels, p \in Why : Source(m, l, p) \in ins[c] => Tag(m, l) \in R
    PROVE  Adds(c)'
<1>1. R \in SUBSET Row /\ wait[c] \subseteq TagRows /\ Todo(c, R) \subseteq TagRows
  BY Parts DEF SessionsInv, Session, Written, Todo
<1>2. /\ UNCHANGED <<db, call, affected, overlapped, spared, kept>> /\ Others(c)
      /\ Proceeds(c, R, "commit") /\ del' = del
      /\ ins[c] \subseteq ins'[c] /\ ins'[c] \subseteq ins[c] \cup Done(c, R)
      /\ View(c)' = View(c) \cup Done(c, R)
  BY <1>1, InsertEffect
<1>3. /\ Done(c, R) \cup wait'[c] = Todo(c, R)
      /\ \/ wait'[c] = {} /\ pc'[c] = "commit"
         \/ wait'[c] # {} /\ pc'[c] = "tags"
  BY <1>2 DEF Proceeds, Done
<1>4. /\ \A m, p : Match(m, p) \in View(c)' <=> Match(m, p) \in View(c)
      /\ \A l, p : Mapping(l, p) \in View(c)' <=> Mapping(l, p) \in View(c)
      /\ \A m, l, p : Source(m, l, p) \in View(c)' <=> Source(m, l, p) \in View(c)
      /\ \A l, p : Mapping(l, p) \in ins'[c] \cup wait'[c] => Mapping(l, p) \in ins[c]
      /\ \A m, l, p : Source(m, l, p) \in ins'[c] \cup wait'[c] => Source(m, l, p) \in ins[c]
  BY <1>1, <1>2, <1>3, Kinds
<1>5. Matching(c)' = Matching(c)
  BY <1>2, <1>4 DEF Matching
<1>6. \A m, l, p : /\ Within(c, m, l)' <=> Within(c, m, l)
                   /\ Due(c, m, l, p)' <=> Due(c, m, l, p)
                   /\ HasSource(c, m, l)' <=> HasSource(c, m, l)
  BY <1>2, <1>4, <1>5 DEF Within, Due, HasSource, Additions
<1>7. \A m \in Messages, l \in Labels, p \in Why :
         Source(m, l, p) \in ins[c] => Tag(m, l) \in View(c) \cup Todo(c, R)
  BY DEF Adds, DueTags, Todo
<1>8. \A m \in Messages, l \in Labels : Tag(m, l) \in Todo(c, R) => HasSource(c, m, l)
  BY DEF Adds, TagsSourced, Todo
<1>9. AsAsked(c)'
  BY <1>2, <1>4, <1>6 DEF Adds, AsAsked
<1>10. DueSources(c)'
  BY <1>3, <1>4, <1>6 DEF Adds, DueSources
<1>11. DueTags(c)'
  BY <1>2, <1>3, <1>4, <1>7 DEF DueTags
<1>12. TagsSourced(c)'
  BY <1>2, <1>3, <1>6, <1>8 DEF Adds, TagsSourced
<1> QED
  BY <1>9, <1>10, <1>11, <1>12 DEF Adds

(* The statements before those: a mapping is created, a batch is stored.    *)
LEMMA FirstStep ==
    ASSUME SessionsInv, NEW c \in Clients, call[c].op \in Additions, Adds(c), call' = call,
           pc[c] \in {"upsert", "mapping"},
           \/ pc'[c] = pc[c]
           \/ pc'[c] = "sources" /\ wait'[c] = {},
           \A m, l, p : Source(m, l, p) \in ins'[c] \cup wait'[c] => Source(m, l, p) \in ins[c],
           \A m, l : Tag(m, l) \in ins'[c] \cup wait'[c] => Tag(m, l) \in ins[c],
           \A l, p : Mapping(l, p) \in ins'[c] \cup wait'[c] =>
              Mapping(l, p) \in ins[c] \/ (l \in call[c].labels /\ p \in call[c].patterns),
           call[c].op = "apply" => Matching(c)' = Matching(c)
    PROVE  Adds(c)'
<1>1. \A m, l : Within(c, m, l) => Within(c, m, l)'
  BY DEF Within, Additions
<1>2. AsAsked(c)'
  BY <1>1 DEF Adds, AsAsked
<1>3. DueSources(c)' /\ DueTags(c)'
  BY DEF DueSources, DueTags
<1>4. TagsSourced(c)'
  BY DEF Adds, TagsSourced
<1> QED
  BY <1>2, <1>3, <1>4 DEF Adds

(* Each request that adds.                                                  *)
LEMMA AddLabelsStep ==
    ASSUME SessionsInv, NEW c \in Clients, Active(c), Detail(c), AddLabels(c)
    PROVE  Detail(c)'
<1> DEFINE M == call[c].messages  L == call[c].labels
<1>0. ~\E o, A, B, C, f : Begin(c, o, A, B, C, f)
  BY DEF Begin, Active
<1>1. CASE At(c, "add", "sources") /\ Insert(c, Sources(M, L, {Manual}), "tags")
  <2>1. call[c].op = "add" /\ pc[c] = "sources" /\ call[c].op \in Additions /\ Adds(c) /\ Active(c)
    BY <1>1 DEF At, Detail, Additions, Active
  <2>2. Sources(M, L, {Manual}) \in SUBSET SourceRows
    BY <2>1, Requests, ComprehensionKinds DEF Why
  <2>3. \A m \in Messages, l \in Labels, p \in Why :
           Source(m, l, p) \in Sources(M, L, {Manual}) <=> Due(c, m, l, p)
    BY <2>1, Members DEF Due, Within
  <2>4. Adds(c)'
    BY <1>1, <2>1, <2>2, <2>3, SourcesStep
  <2>5. call' = call
    BY <1>1 DEF Insert
  <2> QED
    BY <2>1, <2>4, <2>5 DEF Detail
<1>2. CASE At(c, "add", "tags") /\ Insert(c, Tags(M, L), "commit")
  <2>1. call[c].op = "add" /\ pc[c] = "tags" /\ call[c].op \in Additions /\ Adds(c)
    BY <1>2 DEF At, Detail, Additions
  <2>2. Tags(M, L) \in SUBSET TagRows
    BY <2>1, Requests, ComprehensionKinds
  <2>3. \A m \in Messages, l \in Labels : Tag(m, l) \in Tags(M, L) => HasSource(c, m, l)
    <3>1. \A m \in Messages, l \in Labels : Tag(m, l) \in Tags(M, L) => Due(c, m, l, Manual)
      BY <2>1, Members DEF Due, Within
    <3> QED
      BY <2>1, <3>1 DEF Adds, DueSources, HasSource, Why
  <2>4. \A m \in Messages, l \in Labels, p \in Why :
           Source(m, l, p) \in ins[c] => Tag(m, l) \in Tags(M, L)
    BY <2>1, Members DEF Adds, AsAsked, Within
  <2>5. Adds(c)'
    BY <1>2, <2>1, <2>2, <2>3, <2>4, TagsStep
  <2>6. call' = call
    BY <1>2 DEF Insert
  <2> QED
    BY <2>1, <2>5, <2>6 DEF Detail
<1> QED
  BY <1>0, <1>1, <1>2 DEF AddLabels

LEMMA ApplyLabelStep ==
    ASSUME SessionsInv, NEW c \in Clients, Active(c), Detail(c), ApplyLabelByMerchant(c)
    PROVE  Detail(c)'
<1> DEFINE L == call[c].labels  P == call[c].patterns
<1>0. ~\E o, A, B, C, f : Begin(c, o, A, B, C, f)
  BY DEF Begin, Active
<1>1. CASE At(c, "apply", "mapping") /\ Insert(c, Mappings(L, P), "sources")
  <2>1. call[c].op = "apply" /\ pc[c] = "mapping" /\ call[c].op \in Additions /\ Adds(c)
    BY <1>1 DEF At, Detail, Additions
  <2>2. /\ Mappings(L, P) \subseteq MappingRows /\ Mappings(L, P) \in SUBSET Row
        /\ wait[c] \subseteq MappingRows /\ Todo(c, Mappings(L, P)) \subseteq MappingRows
    BY <2>1, Requests, ComprehensionKinds, Parts DEF SessionsInv, Session, Written, Todo
  <2>3. /\ UNCHANGED <<db, call>> /\ Proceeds(c, Mappings(L, P), "sources")
        /\ ins'[c] \subseteq ins[c] \cup Done(c, Mappings(L, P))
        /\ View(c)' = View(c) \cup Done(c, Mappings(L, P))
    BY <1>1, <2>2, InsertEffect
  <2>4. \A m, p : Match(m, p) \in View(c)' <=> Match(m, p) \in View(c)
    BY <2>2, <2>3, Kinds DEF Done
  <2>5. Matching(c)' = Matching(c)
    BY <2>3, <2>4 DEF Matching
  <2>6. /\ \A m, l, p : Source(m, l, p) \in ins'[c] \cup wait'[c] => Source(m, l, p) \in ins[c]
        /\ \A m, l : Tag(m, l) \in ins'[c] \cup wait'[c] => Tag(m, l) \in ins[c]
    BY <2>2, <2>3, Kinds DEF Done, Proceeds
  <2>7. \A l, p : Mapping(l, p) \in Todo(c, Mappings(L, P)) => l \in L /\ p \in P
    <3>1. \A l \in Labels, p \in Patterns : Mapping(l, p) \in wait[c] => l \in L /\ p \in P
      BY <2>1 DEF Adds, AsAsked, Why
    <3>2. \A l, p : Mapping(l, p) \in wait[c] => l \in Labels /\ p \in Patterns
      BY <2>2, Kinds
    <3> QED
      BY <3>1, <3>2, Members DEF Todo
  <2>8. \A l, p : Mapping(l, p) \in ins'[c] \cup wait'[c] =>
                     Mapping(l, p) \in ins[c] \/ (l \in L /\ p \in P)
    BY <2>3, <2>7 DEF Done, Proceeds
  <2>9. \/ pc'[c] = pc[c]
        \/ pc'[c] = "sources" /\ wait'[c] = {}
    BY <2>3 DEF Proceeds
  <2>10. Adds(c)'
    BY <2>1, <2>3, <2>5, <2>6, <2>8, <2>9, FirstStep
  <2> QED
    BY <2>1, <2>3, <2>10 DEF Detail
<1>2. CASE At(c, "apply", "sources") /\ Insert(c, Sources(Backfilled(c), L, P), "tags")
  <2>1. call[c].op = "apply" /\ pc[c] = "sources" /\ call[c].op \in Additions /\ Adds(c)
    BY <1>2 DEF At, Detail, Additions
  <2>2. Backfilled(c) = Matching(c) /\ Matching(c) \subseteq Messages
    BY DEF Backfilled, Matching
  <2>3. Sources(Backfilled(c), L, P) \in SUBSET SourceRows
    BY <2>1, <2>2, Requests, ComprehensionKinds DEF Why
  <2>4. \A m \in Messages, l \in Labels, p \in Why :
           Source(m, l, p) \in Sources(Backfilled(c), L, P) <=> Due(c, m, l, p)
    BY <2>1, <2>2, Members DEF Due, Within
  <2>5. Adds(c)'
    BY <1>2, <2>1, <2>3, <2>4, SourcesStep
  <2>6. call' = call
    BY <1>2 DEF Insert
  <2> QED
    BY <2>1, <2>5, <2>6 DEF Detail
<1>3. CASE At(c, "apply", "tags") /\ Insert(c, Tags(Matching(c), L), "commit")
  <2>1. call[c].op = "apply" /\ pc[c] = "tags" /\ call[c].op \in Additions /\ Adds(c)
    BY <1>3 DEF At, Detail, Additions
  <2>2. Tags(Matching(c), L) \in SUBSET TagRows /\ P \subseteq Patterns
    BY <2>1, Requests, ComprehensionKinds DEF Matching
  <2>3. \A m \in Messages, l \in Labels : Tag(m, l) \in Tags(Matching(c), L) => HasSource(c, m, l)
    <3>1. \A m \in Messages, l \in Labels : Tag(m, l) \in Tags(Matching(c), L) =>
             \E p \in P : Due(c, m, l, p)
      BY <2>1, Members DEF Due, Within, Matching
    <3> QED
      BY <2>1, <2>2, <3>1 DEF Adds, DueSources, HasSource, Why
  <2>4. \A m \in Messages, l \in Labels, p \in Why :
           Source(m, l, p) \in ins[c] => Tag(m, l) \in Tags(Matching(c), L)
    BY <2>1, Members DEF Adds, AsAsked, Within
  <2>5. Adds(c)'
    BY <1>3, <2>1, <2>2, <2>3, <2>4, TagsStep
  <2>6. call' = call
    BY <1>3 DEF Insert
  <2> QED
    BY <2>1, <2>5, <2>6 DEF Detail
<1> QED
  BY <1>0, <1>1, <1>2, <1>3 DEF ApplyLabelByMerchant

(* What a request finds with RowsOf.                                        *)
LEMMA RowsFound ==
    /\ \A c, M, L, m, l, p : Source(m, l, p) \in RowsOf(c, SourceRows, M, L) <=>
          m \in M /\ l \in L /\ Source(m, l, p) \in SourceRows /\ Source(m, l, p) \in View(c)
    /\ \A c, M, L, m, l : Tag(m, l) \in RowsOf(c, TagRows, M, L) <=>
          m \in M /\ l \in L /\ Tag(m, l) \in TagRows /\ Tag(m, l) \in View(c)
<1>1. \A c, M, L, m, l, p : Source(m, l, p) \in RowsOf(c, SourceRows, M, L) <=>
         m \in M /\ l \in L /\ Source(m, l, p) \in SourceRows /\ Source(m, l, p) \in View(c)
  BY RowShapes DEF RowsOf
<1>2. \A c, M, L, m, l : Tag(m, l) \in RowsOf(c, TagRows, M, L) <=>
         m \in M /\ l \in L /\ Tag(m, l) \in TagRows /\ Tag(m, l) \in View(c)
  BY RowShapes DEF RowsOf
<1> QED
  BY <1>1, <1>2

LEMMA IngestStep ==
    ASSUME SessionsInv, NEW c \in Clients, Active(c), Detail(c), Ingest(c)
    PROVE  Detail(c)'
<1> DEFINE M == call[c].messages
           D == {r \in SourceRows : /\ r[2] \in M
                                    /\ Mapping(r[3], r[4]) \in View(c)
                                    /\ Match(r[2], r[4]) \in View(c)}
           T == {Tag(r[2], r[3]) : r \in RowsOf(c, SourceRows, M, Labels)}
<1>0. ~\E o, A, B, C, f : Begin(c, o, A, B, C, f)
  BY DEF Begin, Active
<1>1. CASE At(c, "ingest", "upsert") /\ Upsert(c)
  <2> DEFINE txns == {Txn(m) : m \in call[c].messages}
  <2> HIDE DEF txns
  <2>1. call[c].op = "ingest" /\ pc[c] = "upsert" /\ call[c].op \in Additions /\ Adds(c)
    BY <1>1 DEF At, Detail, Additions
  <2>2. /\ call' = call /\ Todo(c, txns) \subseteq TxnRows
        /\ Proceeds(c, txns, "sources")
        /\ ins'[c] \subseteq ins[c] \cup TxnRows \cup MatchRows
    BY <1>1, <2>1, UpsertEffect DEF txns
  <2>3. \/ pc'[c] = pc[c]
        \/ pc'[c] = "sources" /\ wait'[c] = {}
    BY <2>2 DEF Proceeds
  <2>4. wait'[c] \subseteq TxnRows
    BY <2>2 DEF Proceeds
  <2>5. /\ \A m, l, p : Source(m, l, p) \in ins'[c] \cup wait'[c] => Source(m, l, p) \in ins[c]
        /\ \A m, l : Tag(m, l) \in ins'[c] \cup wait'[c] => Tag(m, l) \in ins[c]
        /\ \A l, p : Mapping(l, p) \in ins'[c] \cup wait'[c] => Mapping(l, p) \in ins[c]
    BY <2>2, <2>4, Kinds
  <2>6. Adds(c)'
    BY <2>1, <2>2, <2>3, <2>5, FirstStep
  <2> QED
    BY <2>1, <2>2, <2>6 DEF Detail
<1>2. CASE At(c, "ingest", "sources") /\ Insert(c, D, "tags")
  <2>1. call[c].op = "ingest" /\ pc[c] = "sources" /\ call[c].op \in Additions /\ Adds(c)
    BY <1>2 DEF At, Detail, Additions
  <2>2. \A m \in Messages, l \in Labels, p \in Why : Source(m, l, p) \in D <=> Due(c, m, l, p)
    BY <2>1, Kinds, RowShapes DEF Due, Within
  <2>3. D \in SUBSET SourceRows
    OBVIOUS
  <2> HIDE DEF D
  <2>4. Adds(c)'
    BY <1>2, <2>1, <2>2, <2>3, SourcesStep
  <2>5. call' = call
    BY <1>2 DEF Insert
  <2> QED
    BY <2>1, <2>4, <2>5 DEF Detail
<1>3. CASE At(c, "ingest", "tags") /\ Insert(c, T, "commit")
  <2>1. /\ call[c].op = "ingest" /\ pc[c] = "tags" /\ call[c].op \in Additions /\ Adds(c)
        /\ M \subseteq Messages
    BY <1>3, Requests DEF At, Detail, Additions
  <2>2. \A m, l : Tag(m, l) \in T <=>
           \E p : Source(m, l, p) \in RowsOf(c, SourceRows, M, Labels)
    <3>1. \A r \in RowsOf(c, SourceRows, M, Labels) : \E m, l, p : r = Source(m, l, p)
      BY Parts DEF RowsOf
    <3> QED
      BY <3>1, RowShapes
  <2>a. \A m, l, p : Source(m, l, p) \in RowsOf(c, SourceRows, M, Labels) <=>
           m \in M /\ l \in Labels /\ p \in Why /\ Source(m, l, p) \in View(c)
    BY <2>1, RowsFound, Kinds
  <2>3. T \in SUBSET TagRows
    BY Parts, RowShapes, Kinds DEF RowsOf
  <2> HIDE DEF T
  <2>4. \A m \in Messages, l \in Labels : Tag(m, l) \in T => HasSource(c, m, l)
    BY <2>2, <2>a DEF HasSource
  <2>5. \A m \in Messages, l \in Labels, p \in Why : Source(m, l, p) \in ins[c] => Tag(m, l) \in T
    <3>1. \A m \in Messages, l \in Labels, p \in Why :
             Source(m, l, p) \in ins[c] => m \in M /\ Source(m, l, p) \in View(c)
      BY <2>1 DEF Adds, AsAsked, Within, View
    <3> QED
      BY <2>2, <2>a, <3>1
  <2>6. Adds(c)'
    BY <1>3, <2>1, <2>3, <2>4, <2>5, TagsStep
  <2>7. call' = call
    BY <1>3 DEF Insert
  <2> QED
    BY <2>1, <2>6, <2>7 DEF Detail
<1> QED
  BY <1>0, <1>1, <1>2, <1>3 DEF Ingest

-----------------------------------------------------------------------------
(* The statements of the requests that remove, which run alone.             *)

LEMMA Alone ==
    ASSUME SessionsInv, Apart, NEW c \in Clients, Active(c), call[c].op \in Removals
    PROVE  \A r : ~Locked(c, r)
<1>1. \A d \in Clients \ {c} : ~Active(d)
  BY DEF Apart, Interfere
<1>2. \A d \in Clients \ {c} : ins[d] = {} /\ del[d] = {}
  BY <1>1, Idle
<1> QED
  BY <1>2 DEF Locked

(* Such a statement waits for nobody.                                       *)
LEMMA DeleteAlone ==
    ASSUME SessionsInv, Apart, NEW c \in Clients, Active(c), call[c].op \in Removals,
           NEW R \in SUBSET Row, NEW next, Delete(c, R, next)
    PROVE  /\ UNCHANGED <<db, call, affected>> /\ ins' = ins
           /\ wait'[c] = {} /\ pc'[c] = next
           /\ ins[c] = {} /\ View(c) = db \ del[c] /\ View(c)' = db' \ del'[c]
           /\ del'[c] = del[c] \cup (Todo(c, R) \cap View(c))
<1>1. /\ UNCHANGED <<db, call, affected>> /\ ins' = ins
      /\ Proceeds(c, R, next) /\ del'[c] = del[c] \cup (Done(c, R) \cap View(c))
  BY DeleteEffect
<1>2. wait'[c] = {} /\ pc'[c] = next
  BY <1>1, Alone DEF Proceeds
<1>3. Done(c, R) = Todo(c, R)
  BY <1>2 DEF Done
<1>4. ins[c] = {}
  BY DEF SessionsInv, Session, MayInsert, Removals
<1> QED
  BY <1>1, <1>2, <1>3, <1>4 DEF View

LEMMA RemoveLabelStep ==
    ASSUME SessionsInv, Apart, NEW c \in Clients, Active(c), Detail(c), RemoveLabel(c)
    PROVE  Detail(c)'
<1> DEFINE M == call[c].messages  L == call[c].labels
<1>0. ~\E o, A, B, C, f : Begin(c, o, A, B, C, f)
  BY DEF Begin, Active
<1>a. SourceRows \subseteq Row /\ TagRows \subseteq Row
  BY Parts
<1>1. CASE At(c, "remove", "sources") /\ Delete(c, RowsOf(c, SourceRows, M, L), "tags")
  <2> DEFINE R == RowsOf(c, SourceRows, M, L)
  <2>1. /\ call[c].op = "remove" /\ pc[c] = "sources" /\ call[c].op \in Removals /\ Removes(c)
        /\ wait[c] = {} /\ R \in SUBSET Row /\ R \subseteq SourceRows
    BY <1>1, <1>a, RowsOfKind DEF At, Detail, Removals
  <2>2. /\ UNCHANGED <<db, call>> /\ wait'[c] = {} /\ pc'[c] = "tags"
        /\ View(c) = db \ del[c] /\ del'[c] = del[c] \cup (R \cap View(c))
    BY <1>1, <2>1, DeleteAlone DEF Todo
  <2>3. SourcesRemoved(c)'
    BY <2>1, <2>2, RowsFound, Kinds DEF Removes, SourcesRemoved, InScope
  <2>4. TagsRemoved(c)'
    BY <2>1, <2>2, Kinds DEF Removes, TagsRemoved
  <2>5. MappingsRemoved(c)'
    BY <2>1, <2>2 DEF MappingsRemoved
  <2> QED
    BY <2>1, <2>2, <2>3, <2>4, <2>5 DEF Detail, Removes, Additions
<1>2. CASE At(c, "remove", "tags") /\ Delete(c, RowsOf(c, TagRows, M, L), "commit")
  <2> DEFINE R == RowsOf(c, TagRows, M, L)
  <2>1. /\ call[c].op = "remove" /\ pc[c] = "tags" /\ call[c].op \in Removals /\ Removes(c)
        /\ wait[c] = {} /\ R \in SUBSET Row /\ R \subseteq TagRows
    BY <1>2, <1>a, RowsOfKind DEF At, Detail, Removals
  <2>2. /\ UNCHANGED <<db, call>> /\ wait'[c] = {} /\ pc'[c] = "commit"
        /\ View(c) = db \ del[c] /\ del'[c] = del[c] \cup (R \cap View(c))
    BY <1>2, <2>1, DeleteAlone DEF Todo
  <2>3. SourcesRemoved(c)'
    BY <2>1, <2>2, Kinds DEF Removes, SourcesRemoved, InScope
  <2>4. TagsRemoved(c)'
    BY <2>1, <2>2, RowsFound, Kinds DEF Removes, TagsRemoved, InScope
  <2>5. MappingsRemoved(c)'
    BY <2>1, <2>2 DEF MappingsRemoved
  <2> QED
    BY <2>1, <2>2, <2>3, <2>4, <2>5 DEF Detail, Removes, Additions
<1> QED
  BY <1>0, <1>1, <1>2 DEF RemoveLabel

LEMMA DeleteLabelStep ==
    ASSUME SessionsInv, Apart, NEW c \in Clients, Active(c), Detail(c),
           DeleteLabel(c)
    PROVE  Detail(c)'
<1> DEFINE L == call[c].labels
           mappings == Mappings(L, Patterns) \cap View(c)
<1>0. ~\E o, A, B, C, f : Begin(c, o, A, B, C, f)
  BY DEF Begin, Active
<1>a. SourceRows \subseteq Row /\ TagRows \subseteq Row /\ mappings \subseteq MappingRows /\ MappingRows \subseteq Row
      /\ L \subseteq Labels
  BY Parts, Requests, ComprehensionKinds
<1>1. CASE At(c, "erase", "sources") /\ Delete(c, RowsOf(c, SourceRows, Messages, L), "tags")
  <2> DEFINE R == RowsOf(c, SourceRows, Messages, L)
  <2>1. /\ call[c].op = "erase" /\ pc[c] = "sources" /\ call[c].op \in Removals /\ Removes(c)
        /\ wait[c] = {} /\ R \in SUBSET Row /\ R \subseteq SourceRows
    BY <1>1, <1>a, RowsOfKind DEF At, Detail, Removals
  <2>2. /\ UNCHANGED <<db, call>> /\ wait'[c] = {} /\ pc'[c] = "tags"
        /\ View(c) = db \ del[c] /\ del'[c] = del[c] \cup (R \cap View(c))
    BY <1>1, <2>1, DeleteAlone DEF Todo
  <2>3. SourcesRemoved(c)'
    BY <2>1, <2>2, RowsFound, Kinds DEF Removes, SourcesRemoved, InScope
  <2>4. TagsRemoved(c)'
    BY <2>1, <2>2, Kinds DEF Removes, TagsRemoved
  <2>5. MappingsRemoved(c)'
    BY <2>1, <2>2 DEF MappingsRemoved
  <2> QED
    BY <2>1, <2>2, <2>3, <2>4, <2>5 DEF Detail, Removes, Additions
<1>2. CASE At(c, "erase", "tags") /\ Delete(c, RowsOf(c, TagRows, Messages, L), "mapping")
  <2> DEFINE R == RowsOf(c, TagRows, Messages, L)
  <2>1. /\ call[c].op = "erase" /\ pc[c] = "tags" /\ call[c].op \in Removals /\ Removes(c)
        /\ wait[c] = {} /\ R \in SUBSET Row /\ R \subseteq TagRows
    BY <1>2, <1>a, RowsOfKind DEF At, Detail, Removals
  <2>2. /\ UNCHANGED <<db, call>> /\ wait'[c] = {} /\ pc'[c] = "mapping"
        /\ View(c) = db \ del[c] /\ del'[c] = del[c] \cup (R \cap View(c))
    BY <1>2, <2>1, DeleteAlone DEF Todo
  <2>3. SourcesRemoved(c)'
    BY <2>1, <2>2, Kinds DEF Removes, SourcesRemoved, InScope
  <2>4. TagsRemoved(c)'
    BY <2>1, <2>2, RowsFound, Kinds DEF Removes, TagsRemoved, InScope
  <2>5. MappingsRemoved(c)'
    BY <2>1, <2>2 DEF MappingsRemoved
  <2> QED
    BY <2>1, <2>2, <2>3, <2>4, <2>5 DEF Detail, Removes, Additions
<1>3. CASE At(c, "erase", "mapping") /\ Delete(c, mappings, "commit")
  <2>1. /\ call[c].op = "erase" /\ pc[c] = "mapping" /\ call[c].op \in Removals /\ Removes(c)
        /\ wait[c] = {} /\ mappings \in SUBSET Row
    BY <1>3, <1>a DEF At, Detail, Removals
  <2>2. /\ UNCHANGED <<db, call>> /\ wait'[c] = {} /\ pc'[c] = "commit" /\ View(c)' = db' \ del'[c]
        /\ View(c) = db \ del[c] /\ del'[c] = del[c] \cup (mappings \cap View(c))
    BY <1>3, <2>1, DeleteAlone DEF Todo
  <2>a. /\ \A m, l, p : Source(m, l, p) \notin mappings
        /\ \A m, l : Tag(m, l) \notin mappings
        /\ \A l \in L, p \in Patterns : Mapping(l, p) \in View(c) => Mapping(l, p) \in mappings
    BY <1>a, Kinds, Members
  <2> HIDE DEF mappings
  <2>3. SourcesRemoved(c)'
    BY <2>1, <2>2, <2>a DEF Removes, SourcesRemoved, InScope
  <2>4. TagsRemoved(c)'
    BY <2>1, <2>2, <2>a DEF Removes, TagsRemoved, InScope
  <2>5. MappingsRemoved(c)'
    BY <2>1, <2>2, <2>a DEF MappingsRemoved
  <2> QED
    BY <2>1, <2>2, <2>3, <2>4, <2>5 DEF Detail, Removes, Additions
<1>4. CASE At(c, "delete", "mapping") /\ Delete(c, mappings, "commit")
  BY <1>4 DEF At, Detail, Additions, Delete
<1> QED
  BY <1>0, <1>1, <1>2, <1>3, <1>4 DEF DeleteLabel

LEMMA UnapplyStep ==
    ASSUME SessionsInv, Apart, NEW c \in Clients, Active(c), Detail(c), RemoveLabelByMerchant(c)
    PROVE  Detail(c)'
<1> DEFINE L == call[c].labels  P == call[c].patterns
<1>0. ~\E o, A, B, C, f : Begin(c, o, A, B, C, f)
  BY DEF Begin, Active
<1>a. /\ SourceRows \subseteq Row /\ MappingRows \subseteq Row /\ L \subseteq Labels
      /\ P \subseteq Patterns /\ P \subseteq Why
  BY Parts, Requests DEF Why
<1>1. CASE At(c, "unapply", "mapping") /\ Delete(c, Mappings(L, P) \cap View(c), "affected")
  <2> DEFINE R == Mappings(L, P) \cap View(c)
  <2>1. /\ call[c].op = "unapply" /\ pc[c] = "mapping" /\ call[c].op \in Removals /\ Unapplies(c)
        /\ wait[c] = {} /\ R \in SUBSET Row /\ R \subseteq MappingRows
    BY <1>1, <1>a, ComprehensionKinds DEF At, Detail, Removals
  <2>2. PICK l \in Labels : Unapplied(c, l)
    BY <2>1 DEF Unapplies
  <2>3. /\ UNCHANGED <<db, call>> /\ wait'[c] = {} /\ pc'[c] = "affected" /\ View(c)' = db' \ del'[c]
        /\ View(c) = db \ del[c] /\ del'[c] = del[c] \cup (R \cap View(c))
    BY <1>1, <2>1, DeleteAlone DEF Todo
  <2>4. /\ \A m, k, p : Source(m, k, p) \notin R
        /\ \A m, k : Tag(m, k) \notin R
        /\ \A p \in P : Mapping(l, p) \in View(c) => Mapping(l, p) \in R
    <3>1. \A p \in P : Mapping(l, p) \in Mappings(L, P)
      BY <2>2, Members DEF Unapplied
    <3>2. \A r \in MappingRows : /\ \A m, k, p : r # Source(m, k, p)
                                 /\ \A m, k : r # Tag(m, k)
      BY Kinds
    <3> QED
      BY <2>1, <3>1, <3>2
  <2> HIDE DEF R
  <2>5. MappingGone(c, l)'
    BY <2>3, <2>4 DEF MappingGone
  <2>6. SourcesGone(c, l)'
    BY <2>1, <2>2, <2>3, <2>4 DEF Unapplied, SourcesGone
  <2>7. TagsGone(c, l)'
    BY <2>1, <2>2, <2>3, <2>4 DEF Unapplied, TagsGone
  <2>8. Examined(c, l)'
    BY <2>3 DEF Examined
  <2>9. Unapplied(c, l)'
    BY <2>2, <2>3, <2>5, <2>6, <2>7, <2>8 DEF Unapplied
  <2> QED
    BY <2>1, <2>3, <2>9 DEF Detail, Unapplies, Additions
<1>2. CASE /\ At(c, "unapply", "affected")
           /\ affected' = [affected EXCEPT ![c] = {r[2] : r \in PatternSources(c)}]
           /\ pc' = [pc EXCEPT ![c] = "sources"]
           /\ UNCHANGED <<db, ins, del, call, wait, overlapped, spared, kept>>
  <2>1. call[c].op = "unapply" /\ pc[c] = "affected" /\ Unapplies(c) /\ wait[c] = {}
    BY <1>2 DEF At, Detail
  <2>2. PICK l \in Labels : Unapplied(c, l)
    BY <2>1 DEF Unapplies
  <2>3. /\ affected'[c] = {r[2] : r \in PatternSources(c)} /\ pc'[c] = "sources"
        /\ UNCHANGED <<db, ins, del, call, wait>> /\ View(c)' = View(c)
    BY <1>2 DEF SessionsInv, TypeOK, View
  <2>4. MappingGone(c, l)'
    BY <2>1, <2>2, <2>3 DEF Unapplied, MappingGone
  <2>5. SourcesGone(c, l)'
    BY <2>1, <2>2, <2>3 DEF Unapplied, SourcesGone
  <2>6. TagsGone(c, l)'
    BY <2>1, <2>2, <2>3 DEF Unapplied, TagsGone
  <2>7. Examined(c, l)'
    <3>1. ASSUME NEW m \in Messages, NEW p \in P, Source(m, l, p) \in db
          PROVE  m \in affected'[c]
      <4>1. Source(m, l, p) \in View(c)
        BY <2>1, <2>2, <3>1, <1>a DEF Unapplied, SourcesGone, View
      <4>2. Source(m, l, p) \in RowsOf(c, SourceRows, Messages, L)
        BY <4>1, <3>1, <1>a, <2>2, RowsFound, Kinds DEF Unapplied
      <4>3. Source(m, l, p) \in PatternSources(c)
        BY <4>2, RowShapes DEF PatternSources
      <4> QED
        BY <4>3, <2>3, RowShapes
    <3> QED
      BY <3>1, <2>3 DEF Examined
  <2>8. Unapplied(c, l)'
    BY <2>2, <2>3, <2>4, <2>5, <2>6, <2>7 DEF Unapplied
  <2> QED
    BY <2>1, <2>3, <2>8 DEF Detail, Unapplies, Additions
<1>3. CASE At(c, "unapply", "sources") /\ Delete(c, PatternSources(c), "count")
  <2> DEFINE R == PatternSources(c)
  <2>1. /\ call[c].op = "unapply" /\ pc[c] = "sources" /\ call[c].op \in Removals /\ Unapplies(c)
        /\ wait[c] = {} /\ R \in SUBSET Row /\ R \subseteq SourceRows
    BY <1>3, <1>a, RowsOfKind DEF At, Detail, Removals, PatternSources
  <2>2. PICK l \in Labels : Unapplied(c, l)
    BY <2>1 DEF Unapplies
  <2>3. /\ UNCHANGED <<db, call, affected>> /\ wait'[c] = {} /\ pc'[c] = "count"
        /\ View(c)' = db' \ del'[c]
        /\ View(c) = db \ del[c] /\ del'[c] = del[c] \cup (R \cap View(c))
    BY <1>3, <2>1, DeleteAlone DEF Todo
  <2>4. /\ \A m \in Messages, k \in Labels, p \in Why :
              Source(m, k, p) \in R <=> Source(m, k, p) \in View(c) /\ k = l /\ p \in P
        /\ \A m, k : Tag(m, k) \notin R
        /\ \A k, p : Mapping(k, p) \notin R
    <3>1. \A m \in Messages, k \in Labels, p \in Why :
             Source(m, k, p) \in RowsOf(c, SourceRows, Messages, L) <=>
                k \in L /\ Source(m, k, p) \in View(c)
      BY RowsFound, Kinds
    <3>2. \A m \in Messages, k \in Labels, p \in Why :
             Source(m, k, p) \in R <=> k \in L /\ Source(m, k, p) \in View(c) /\ p \in P
      BY <3>1, RowShapes DEF PatternSources
    <3> QED
      BY <3>2, <2>1, <2>2, Kinds DEF Unapplied
  <2> HIDE DEF R
  <2>5. MappingGone(c, l)'
    BY <2>1, <2>2, <2>3, <2>4 DEF Unapplied, MappingGone
  <2>6. SourcesGone(c, l)'
    BY <2>1, <2>2, <2>3, <2>4 DEF Unapplied, SourcesGone
  <2>7. TagsGone(c, l)'
    BY <2>1, <2>2, <2>3, <2>4 DEF Unapplied, TagsGone
  <2>8. Examined(c, l)'
    BY <2>1, <2>2, <2>3 DEF Unapplied, Examined
  <2>9. Unapplied(c, l)'
    BY <2>2, <2>3, <2>5, <2>6, <2>7, <2>8 DEF Unapplied
  <2> QED
    BY <2>1, <2>3, <2>9 DEF Detail, Unapplies, Additions
<1> QED
  BY <1>0, <1>1, <1>2, <1>3 DEF RemoveLabelByMerchant

LEMMA OrphansStep ==
    ASSUME SessionsInv, Apart, NEW c \in Clients, Active(c), Detail(c), RemoveOrphanedLabels(c)
    PROVE  Detail(c)'
<1> DEFINE L == call[c].labels  P == call[c].patterns
<1>0. P \subseteq Why /\ L \subseteq Labels
  BY Requests DEF Why
<1>1. /\ call[c].op = "unapply" /\ pc[c] \in {"count", "untag"} /\ Unapplies(c)
      /\ pc[c] = "count" => wait[c] = {}
  BY DEF RemoveOrphanedLabels, At, Detail
<1>2. PICK l \in Labels : Unapplied(c, l)
  BY <1>1 DEF Unapplies
<1>3. CASE /\ pc[c] = "count" /\ affected[c] = {} /\ pc' = [pc EXCEPT ![c] = "commit"]
           /\ UNCHANGED <<db, ins, del, call, wait, affected, overlapped, spared, kept>>
  <2>1. pc'[c] = "commit" /\ UNCHANGED <<db, ins, del, call, wait, affected>> /\ View(c)' = View(c)
    BY <1>3 DEF SessionsInv, TypeOK, View
  <2>2. \A m, k : HasSource(c, m, k)' <=> HasSource(c, m, k)
    BY <2>1 DEF HasSource
  <2>3. MappingGone(c, l)' /\ SourcesGone(c, l)'
    BY <1>2, <1>3, <2>1 DEF Unapplied, MappingGone, SourcesGone
  <2>4. TagsGone(c, l)'
    BY <1>2, <1>3, <2>1, <2>2 DEF Unapplied, TagsGone
  <2>5. Examined(c, l)'
    BY <1>2, <1>3, <2>1, <2>2 DEF Unapplied, Examined
  <2>6. Unapplied(c, l)'
    BY <1>2, <1>3, <2>1, <2>3, <2>4, <2>5 DEF Unapplied
  <2> QED
    BY <1>1, <1>3, <2>1, <2>6 DEF Detail, Unapplies, Additions
<1>4. ASSUME pc[c] = "count", NEW m \in affected[c], affected' = [affected EXCEPT ![c] = @ \ {m}],
             \/ HasSources(c, m) /\ UNCHANGED <<pc, wait>>
             \/ /\ ~HasSources(c, m)
                /\ pc' = [pc EXCEPT ![c] = "untag"]
                /\ wait' = [wait EXCEPT ![c] = Tags({m}, L)],
             UNCHANGED <<db, ins, del, call, overlapped, spared, kept>>
      PROVE  Detail(c)'
  <2>1. /\ affected'[c] = affected[c] \ {m} /\ UNCHANGED <<db, ins, del, call>>
        /\ View(c)' = View(c) /\ m \in Messages
    BY <1>4 DEF SessionsInv, TypeOK, View
  <2>2. \A n, k : HasSource(c, n, k)' <=> HasSource(c, n, k)
    BY <2>1 DEF HasSource
  <2>3. HasSources(c, m) <=> HasSource(c, m, l)
    <3>1. HasSources(c, m) <=> \E r \in SourceRows : r \in RowsOf(c, SourceRows, {m}, L)
      BY RowsOfKind DEF HasSources
    <3>2. HasSources(c, m) <=>
             \E n \in Messages, k \in Labels, p \in Why : Source(n, k, p) \in RowsOf(c, SourceRows, {m}, L)
      <4>1. \A r \in SourceRows : \E n \in Messages, k \in Labels, p \in Why : r = Source(n, k, p)
        BY Parts
      <4>2. \A n \in Messages, k \in Labels, p \in Why : Source(n, k, p) \in SourceRows
        BY Kinds
      <4>3. ASSUME HasSources(c, m)
            PROVE  \E n \in Messages, k \in Labels, p \in Why :
                      Source(n, k, p) \in RowsOf(c, SourceRows, {m}, L)
        <5>1. PICK r \in SourceRows : r \in RowsOf(c, SourceRows, {m}, L)
          BY <3>1, <4>3
        <5>2. PICK n \in Messages, k \in Labels, p \in Why : r = Source(n, k, p)
          BY <4>1
        <5> QED
          BY <5>1, <5>2
      <4> QED
        BY <3>1, <4>2, <4>3
    <3>3. L = {l}
      BY <1>2 DEF Unapplied
    <3> QED
      BY <3>2, <3>3, <2>1, <1>2, RowsFound, Kinds DEF HasSource
  <2>4. CASE HasSources(c, m) /\ UNCHANGED <<pc, wait>>
    <3>1. MappingGone(c, l)' /\ SourcesGone(c, l)'
      BY <1>2, <2>1, <2>4 DEF Unapplied, MappingGone, SourcesGone
    <3>2. TagsGone(c, l)'
      BY <1>2, <2>1, <2>2, <2>4 DEF Unapplied, TagsGone
    <3>3. Examined(c, l)'
      BY <1>2, <1>4, <2>1, <2>2, <2>3, <2>4 DEF Unapplied, Examined
    <3>4. Unapplied(c, l)'
      BY <1>2, <1>4, <2>1, <2>4, <3>1, <3>2, <3>3 DEF Unapplied
    <3> QED
      BY <1>1, <1>4, <2>1, <2>4, <3>4 DEF Detail, Unapplies, Additions
  <2>5. CASE /\ ~HasSources(c, m) /\ pc' = [pc EXCEPT ![c] = "untag"]
             /\ wait' = [wait EXCEPT ![c] = Tags({m}, L)]
    <3>1. pc'[c] = "untag" /\ wait'[c] = Tags({m}, {l})
      BY <1>2, <2>5 DEF SessionsInv, TypeOK, Unapplied
    <3>2. \A n, k : Tag(n, k) \in wait'[c] <=> n = m /\ k = l
      BY <3>1, Members
    <3>3. MappingGone(c, l)' /\ SourcesGone(c, l)'
      BY <1>2, <1>4, <2>1, <3>1 DEF Unapplied, MappingGone, SourcesGone
    <3>4. TagsGone(c, l)'
      BY <1>2, <1>4, <2>1, <2>2, <2>3, <2>5, <3>1, <3>2 DEF Unapplied, TagsGone
    <3>5. Examined(c, l)'
      BY <1>1, <1>2, <1>4, <2>1, <2>2, <3>1, <3>2 DEF Unapplied, Examined
    <3>6. Unapplied(c, l)'
      BY <1>2, <2>1, <3>1, <3>2, <3>3, <3>4, <3>5 DEF Unapplied
    <3> QED
      BY <1>1, <2>1, <3>1, <3>6 DEF Detail, Unapplies, Additions
  <2> QED
    BY <1>4, <2>4, <2>5
<1>5. CASE pc[c] = "untag" /\ Delete(c, {}, "count")
  <2>1. /\ call[c].op \in Removals /\ {} \in SUBSET Row /\ wait[c] # {} /\ wait[c] \subseteq TagRows
    BY <1>1, <1>2, <1>5 DEF Removals, Unapplied, SessionsInv, Session, Written
  <2>2. /\ UNCHANGED <<db, call, affected>> /\ wait'[c] = {} /\ pc'[c] = "count"
        /\ View(c)' = db' \ del'[c]
        /\ View(c) = db \ del[c] /\ del'[c] = del[c] \cup (wait[c] \cap View(c))
    BY <1>5, <2>1, DeleteAlone DEF Todo
  <2>3. /\ \A m, k, p : Source(m, k, p) \notin wait[c]
        /\ \A k, p : Mapping(k, p) \notin wait[c]
    BY <2>1, Kinds
  <2>4. \A m, k : HasSource(c, m, k)' <=> HasSource(c, m, k)
    BY <2>2, <2>3 DEF HasSource
  <2>5. MappingGone(c, l)'
    BY <1>2, <1>5, <2>2, <2>3 DEF Unapplied, MappingGone
  <2>6. SourcesGone(c, l)'
    BY <1>2, <1>5, <2>2, <2>3 DEF Unapplied, SourcesGone
  <2>7. TagsGone(c, l)'
    BY <1>2, <1>5, <2>2, <2>4 DEF Unapplied, TagsGone
  <2>8. Examined(c, l)'
    BY <1>2, <1>5, <2>2, <2>4 DEF Unapplied, Examined
  <2>9. Unapplied(c, l)'
    BY <1>2, <2>2, <2>5, <2>6, <2>7, <2>8 DEF Unapplied
  <2> QED
    BY <1>1, <2>2, <2>9 DEF Detail, Unapplies, Additions
<1> QED
  BY <1>3, <1>4, <1>5 DEF RemoveOrphanedLabels, At

-----------------------------------------------------------------------------
(* Every step keeps what is known of the requests that are under way.       *)

LEMMA BeginDetail ==
    ASSUME SessionsInv, NEW c \in Clients, Begins(c)
    PROVE  UNCHANGED <<db, spared>> /\ Others(c) /\ Detail(c)'
<1>1. PICK o \in Ops, M \in SUBSET Messages, L \in SUBSET Labels, P \in SUBSET Patterns :
           Begin(c, o, M, L, P, First(o)) /\ (o = "unapply" => \E l \in Labels : L = {l})
  BY DEF Begins
<1>2. /\ ~Active(c) /\ UNCHANGED <<db, ins, del, wait, affected, spared>> /\ Others(c)
      /\ pc'[c] = First(o) /\ call'[c] = [op |-> o, messages |-> M, labels |-> L, patterns |-> P]
  BY <1>1, BeginEffect
<1>3. call'[c].op = o /\ call'[c].labels = L
  BY <1>2
<1>4. ins'[c] = {} /\ del'[c] = {} /\ wait'[c] = {}
  BY <1>2, Idle
<1>5. CASE o \in Additions
  <2>1. pc'[c] \notin {"tags", "commit"}
    BY <1>2, <1>5 DEF First, Additions
  <2>2. Adds(c)'
    BY <1>4, <2>1 DEF Adds, AsAsked, DueSources, DueTags, TagsSourced
  <2> QED
    BY <1>2, <1>3, <1>5, <2>2 DEF Detail, Additions
<1>6. CASE o \in {"remove", "erase"}
  <2>1. pc'[c] = "sources"
    BY <1>2, <1>6 DEF First
  <2>2. Removes(c)'
    BY <1>4, <2>1 DEF Removes, SourcesRemoved, TagsRemoved, MappingsRemoved
  <2> QED
    BY <1>2, <1>3, <1>4, <1>6, <2>2 DEF Detail, Additions
<1>7. CASE o = "unapply"
  <2>1. pc'[c] = "mapping"
    BY <1>2, <1>7 DEF First
  <2>2. PICK l \in Labels : L = {l}
    BY <1>1, <1>7
  <2>3. Unapplied(c, l)'
    BY <1>3, <1>4, <2>1, <2>2 DEF Unapplied, MappingGone, SourcesGone, TagsGone, Examined
  <2> QED
    BY <1>2, <1>3, <1>4, <1>7, <2>1, <2>3 DEF Detail, Unapplies, Additions
<1>8. CASE o = "delete"
  BY <1>2, <1>3, <1>8 DEF Detail, Additions
<1> QED
  BY <1>2, <1>5, <1>6, <1>7, <1>8 DEF Ops, Additions

LEMMA ReleaseDetail ==
    ASSUME SessionsInv, NEW c \in Clients, Release(c)
    PROVE  Detail(c)'
BY ReleaseEffect DEF Detail, Additions, NoRequest

(* A statement of a request.                                                *)
LEMMA OwnStep ==
    ASSUME SessionsInv, Apart, NEW c \in Clients, Active(c), Detail(c), ClientStep(c),
           ~Commit(c), ~Rollback(c)
    PROVE  Detail(c)' /\ UNCHANGED <<db, spared>> /\ Others(c)
<1>1. Detail(c)'
  BY AddLabelsStep, RemoveLabelStep, ApplyLabelStep, DeleteLabelStep, UnapplyStep, OrphansStep,
     IngestStep DEF ClientStep
<1>2. UNCHANGED <<db, spared>> /\ Others(c)
  <2>1. CASE Begins(c)
    BY <2>1, BeginDetail
  <2>2. CASE Inserts(c)
    <3>1. PICK R, next : R \subseteq Written(pc[c]) /\ Insert(c, R, next)
      BY <2>2 DEF Inserts
    <3>2. R \in SUBSET Row
      BY <3>1, WrittenKinds
    <3> QED
      BY <3>1, <3>2, InsertEffect
  <2>3. CASE Deletes(c)
    <3>1. PICK R, next : R \subseteq Written(pc[c]) /\ Delete(c, R, next)
      BY <2>3 DEF Deletes
    <3>2. R \in SUBSET Row
      BY <3>1, WrittenKinds
    <3> QED
      BY <3>1, <3>2, DeleteEffect
  <2>4. CASE Examines(c)
    BY <2>4 DEF Examines
  <2>5. CASE call[c].op = "ingest" /\ pc[c] = "upsert" /\ Upsert(c)
    BY <2>5, UpsertEffect
  <2> QED
    BY <2>1, <2>2, <2>3, <2>4, <2>5, StepKinds
<1> QED
  BY <1>1, <1>2

(* What a commit leaves in the tables.                                      *)
LEMMA CommitLabels ==
    ASSUME SessionsInv, NEW c \in Clients, Commit(c), Detail(c), ~overlapped, LabelsHaveSources
    PROVE  LabelsHaveSources'
<1>1. /\ pc[c] = "commit" /\ Active(c) /\ db' = View(c) /\ Session(c) /\ wait[c] = {}
      /\ call[c].op \in Ops
  BY Requests DEF Commit, Active, SessionsInv, Session, Written
<1>2. SUFFICES ASSUME NEW m \in Messages, NEW l \in Labels
               PROVE  Tag(m, l) \in View(c) <=> HasSource(c, m, l)
  BY <1>1 DEF LabelsHaveSources, Sourced, HasSource, Why
<1>3. Tag(m, l) \in db <=> \E p \in Why : Source(m, l, p) \in db
  BY DEF LabelsHaveSources, Sourced, Why
<1>4. CASE call[c].op \in Additions
  <2>1. Adds(c)
    BY <1>4 DEF Detail
  <2>2. Tag(m, l) \notin del[c] /\ \A p : Source(m, l, p) \notin del[c]
    BY <1>1, <1>4, Kinds DEF Session, MayDelete, Additions
  <2>3. Tag(m, l) \in ins[c] => HasSource(c, m, l)
    BY <2>1 DEF Adds, TagsSourced
  <2>4. \A p \in Why : Source(m, l, p) \in ins[c] => Tag(m, l) \in View(c)
    BY <1>1, <2>1 DEF Adds, DueTags
  <2> QED
    BY <1>3, <2>2, <2>3, <2>4 DEF HasSource, View
<1>5. CASE call[c].op \in {"remove", "erase"}
  <2>1. Removes(c) /\ ins[c] = {}
    BY <1>1, <1>5 DEF Detail, Session, MayInsert
  <2>2. \A p \in Why : Source(m, l, p) \in View(c) <=> Source(m, l, p) \in db /\ ~InScope(c, m, l)
    BY <1>1, <2>1 DEF Removes, SourcesRemoved, View
  <2>3. Tag(m, l) \in View(c) <=> Tag(m, l) \in db /\ ~InScope(c, m, l)
    BY <1>1, <2>1 DEF Removes, TagsRemoved, View
  <2> QED
    BY <1>3, <2>2, <2>3 DEF HasSource
<1>6. CASE call[c].op = "unapply"
  <2>1. PICK k \in Labels : Unapplied(c, k)
    BY <1>6 DEF Detail, Unapplies
  <2>2. ins[c] = {} /\ affected[c] = {}
    BY <1>1, <1>6, <2>1 DEF Session, MayInsert, Unapplied
  <2>3. \A p \in Why : Source(m, l, p) \in del[c] =>
                          Source(m, l, p) \in db /\ l = k /\ p \in call[c].patterns
    BY <2>1 DEF Unapplied, SourcesGone
  <2>4. Tag(m, l) \in del[c] => ~HasSource(c, m, l)
    BY <2>1 DEF Unapplied, TagsGone
  <2>5. \A p \in Why : Source(m, l, p) \in del[c] => HasSource(c, m, l) \/ Tag(m, l) \notin View(c)
    BY <1>1, <2>1, <2>2, <2>3 DEF Unapplied, Examined
  <2> QED
    BY <1>3, <2>2, <2>4, <2>5 DEF HasSource, View
<1>7. CASE call[c].op = "delete"
  <2>1. Tag(m, l) \notin del[c] \cup ins[c] /\ \A p : Source(m, l, p) \notin del[c] \cup ins[c]
    BY <1>1, <1>7, Kinds DEF Session, MayDelete, MayInsert
  <2> QED
    BY <1>3, <2>1 DEF HasSource, View
<1> QED
  BY <1>1, <1>4, <1>5, <1>6, <1>7 DEF Ops, Additions

LEMMA CommitMappings ==
    ASSUME SessionsInv, NEW c \in Clients, Commit(c), Detail(c), ~overlapped, MappingsReachAll
    PROVE  MappingsReachAll'
<1>1. /\ pc[c] = "commit" /\ Active(c) /\ db' = View(c) /\ Session(c) /\ Held(c)
      /\ call[c].op \in Ops /\ call[c].patterns \subseteq Patterns /\ call[c].messages \subseteq Messages
      /\ spared' = (spared \cup {r \in del[c] \cap SourceRows : call[c].op = "remove"}) \ db'
  BY Requests DEF Commit, Active, SessionsInv
<1>2. SUFFICES ASSUME NEW m \in Messages, NEW l \in Labels, NEW p \in Patterns,
                      {Txn(m), Match(m, p), Mapping(l, p)} \subseteq View(c),
                      Source(m, l, p) \notin View(c)
               PROVE  \/ Source(m, l, p) \in spared
                      \/ Source(m, l, p) \in del[c] /\ call[c].op = "remove"
  <2>1. \A m \in Messages, l \in Labels, p \in Patterns : Source(m, l, p) \in SourceRows
    BY Kinds DEF Why
  <2> QED
    BY <1>1, <1>2, <2>1 DEF MappingsReachAll
<1>3. {Txn(m), Match(m, p), Mapping(l, p)} \subseteq db => Source(m, l, p) \in db \cup spared
  BY DEF MappingsReachAll
<1>4. p \in Why
  BY DEF Why
<1>5. CASE call[c].op \in Additions
  <2>1. Adds(c)
    BY <1>5 DEF Detail
  <2>2. Source(m, l, p) \notin del[c]
    BY <1>1, <1>5, Kinds DEF Session, MayDelete, Additions
  <2>3. ~Due(c, m, l, p)
    BY <1>1, <1>2, <1>4, <2>1 DEF Adds, DueSources
  <2>4. {Txn(m), Match(m, p), Mapping(l, p)} \subseteq db
    <3>1. CASE call[c].op = "add"
      BY <1>1, <1>2, <3>1, Kinds DEF Session, MayInsert, View
    <3>2. CASE call[c].op = "apply"
      <4>1. Txn(m) \in db
        BY <1>1, <1>2, <3>2, Kinds DEF Session, MayInsert, View
      <4>2. Match(m, p) \in db
        BY <1>1, <1>2, <3>2, Kinds DEF Session, MayInsert, View
      <4>3. Mapping(l, p) \notin ins[c]
        BY <1>2, <2>1, <2>3, <3>2 DEF Adds, AsAsked, Due, Within, Matching
      <4> QED
        BY <1>2, <4>1, <4>2, <4>3 DEF View
    <3>3. CASE call[c].op = "ingest"
      <4>1. Mapping(l, p) \in db
        BY <1>1, <1>2, <3>3, Kinds DEF Session, MayInsert, View
      <4>2. m \notin call[c].messages
        BY <1>2, <2>3, <3>3 DEF Due, Within
      <4>3. Txn(m) \notin ins[c]
        BY <1>1, <4>2 DEF Held
      <4>4. Match(m, p) \notin ins[c] \cup del[c]
        BY <1>1, <4>3 DEF Held
      <4> QED
        BY <1>2, <4>1, <4>3, <4>4 DEF View
    <3> QED
      BY <1>5, <3>1, <3>2, <3>3 DEF Additions
  <2> QED
    BY <1>2, <1>3, <2>2, <2>4 DEF View
<1>6. CASE call[c].op \notin Additions
  <2>1. ins[c] = {}
    BY <1>1, <1>6 DEF Session, MayInsert, Additions
  <2>2. {Txn(m), Match(m, p), Mapping(l, p)} \subseteq db /\ Mapping(l, p) \notin del[c] \ ins[c]
    BY <1>2, <2>1 DEF View
  <2>3. Source(m, l, p) \in del[c] => call[c].op = "remove"
    <3>1. CASE call[c].op = "erase"
      <4>1. l \notin call[c].labels
        BY <1>1, <1>2, <3>1 DEF Detail, Removes, MappingsRemoved
      <4> QED
        BY <1>4, <3>1, <4>1 DEF Detail, Removes, SourcesRemoved, InScope
    <3>2. CASE call[c].op = "unapply"
      <4>1. PICK k \in Labels : Unapplied(c, k)
        BY <3>2 DEF Detail, Unapplies
      <4>2. ~(l = k /\ p \in call[c].patterns)
        BY <1>1, <1>2, <4>1 DEF Unapplied, MappingGone
      <4> QED
        BY <1>4, <4>1, <4>2 DEF Unapplied, SourcesGone
    <3>3. CASE call[c].op = "delete"
      BY <1>1, <3>3, Kinds DEF Session, MayDelete
    <3> QED
      BY <1>1, <1>6, <3>1, <3>2, <3>3 DEF Ops, Additions
  <2> QED
    BY <1>2, <1>3, <2>1, <2>2, <2>3 DEF View
<1> QED
  BY <1>5, <1>6

-----------------------------------------------------------------------------
(* Theorems.                                                                *)

LEMMA InitInv == Init => LabelsInv
<1> SUFFICES ASSUME Init PROVE LabelsInv
  OBVIOUS
<1> USE DEF Init
<1>1. TypeOK
  BY DEF TypeOK, Exclusive
<1>2. \A c \in Clients : Session(c) /\ Held(c) /\ Detail(c)
  BY DEF Session, Held, Detail, Active, NoRequest, Written, Additions
<1>3. Apart
  BY DEF Apart, Active
<1>4. LabelsHaveSources /\ MappingsReachAll
  BY DEF LabelsHaveSources, MappingsReachAll, Sourced
<1> QED
  BY <1>1, <1>2, <1>3, <1>4 DEF LabelsInv, SessionsInv

LEMMA StepInv == LabelsInv /\ [Next]_vars => LabelsInv'
<1> SUFFICES ASSUME LabelsInv, [Next]_vars PROVE LabelsInv'
  OBVIOUS
<1>1. CASE UNCHANGED vars
  <2>2. SessionsInv'
    BY <1>1 DEF LabelsInv, vars, clientVars, SessionsInv, TypeOK, Exclusive, Session, Held, Active
  <2>3. LabelsHaveSources' /\ MappingsReachAll'
    BY <1>1 DEF LabelsInv, vars, LabelsHaveSources, MappingsReachAll, Sourced
  <2>4. Apart => Apart'
    BY <1>1 DEF vars, clientVars, Apart, Active
  <2>5. ASSUME NEW c \in Clients, Detail(c) PROVE Detail(c)'
    <3>1. Kept(c) /\ db' = db
      BY <1>1 DEF vars, clientVars, Kept
    <3> QED
      BY <2>5, <3>1, Frame
  <2> QED
    BY <1>1, <2>2, <2>3, <2>4, <2>5 DEF LabelsInv, vars
<1>2. ASSUME NEW c \in Clients, ClientStep(c) PROVE LabelsInv'
  <2>1. SessionsInv' /\ SessionsInv
    BY <1>2, StepSessions DEF LabelsInv
  <2>2. ASSUME ~overlapped'
        PROVE  LabelsHaveSources' /\ MappingsReachAll' /\ Apart' /\ \A d \in Clients : Detail(d)'
    <3>1. /\ ~overlapped /\ Apart /\ LabelsHaveSources /\ MappingsReachAll
          /\ \A d \in Clients : Detail(d)
      BY <1>2, <2>1, <2>2, OverlapsStay DEF LabelsInv
    <3>2. Apart'
      BY <1>2, <2>1, <2>2, <3>1, ApartKept
    <3>3. CASE Commit(c)
      <4>1. Others(c) /\ db' = View(c) /\ Release(c) /\ Active(c)
        BY <2>1, <3>3, ReleaseEffect DEF Commit, Active
      <4>2. \A d \in Clients \ {c} : Detail(d)'
        BY <2>1, <3>1, <4>1, CommitOther
      <4>3. Detail(c)'
        BY <2>1, <4>1, ReleaseDetail
      <4>4. LabelsHaveSources' /\ MappingsReachAll'
        BY <2>1, <3>1, <3>3, CommitLabels, CommitMappings
      <4> QED
        BY <3>2, <4>2, <4>3, <4>4
    <3>4. CASE ~Commit(c)
      <4>1. UNCHANGED <<db, spared>> /\ Others(c) /\ Detail(c)'
        <5>1. CASE Rollback(c)
          BY <2>1, <5>1, ReleaseEffect, ReleaseDetail DEF Rollback
        <5>2. CASE ~Rollback(c) /\ Active(c)
          BY <1>2, <2>1, <3>1, <3>4, <5>2, OwnStep
        <5>3. CASE ~Active(c)
          <6>1. Begins(c)
            BY <1>2, <2>1, <5>3, StepKinds
               DEF Inserts, Deletes, Examines, Commit, Rollback, Active
          <6> QED
            BY <2>1, <6>1, BeginDetail
        <5> QED
          BY <5>1, <5>2, <5>3
      <4>2. \A d \in Clients \ {c} : Detail(d)'
        BY <3>1, <4>1, Frame DEF Others
      <4>3. LabelsHaveSources' /\ MappingsReachAll'
        BY <2>2, <3>1, <4>1 DEF LabelsHaveSources, MappingsReachAll, Sourced
      <4> QED
        BY <3>2, <4>1, <4>2, <4>3
    <3> QED
      BY <3>3, <3>4
  <2> QED
    BY <2>1, <2>2 DEF LabelsInv, LabelsHaveSources, MappingsReachAll
<1> QED
  BY <1>1, <1>2 DEF Next, ClientStep

(* Whatever requests and ingestions are under way, rows are of their tables, *)
(* and no two database transactions have written the same row.               *)
THEOREM LabelTypes == Spec => []TypeOK
<1>1. LabelsInv => TypeOK
  BY DEF LabelsInv, SessionsInv
<1> QED
  BY <1>1, InitInv, StepInv, PTL DEF Spec

(* A transaction shows exactly the labels it has a source for.               *)
THEOREM LabelsSourced == Spec => []LabelsHaveSources
<1>1. LabelsInv => LabelsHaveSources
  BY DEF LabelsInv
<1> QED
  BY <1>1, InitInv, StepInv, PTL DEF Spec

(* A mapping reaches the mail stored before it and the mail stored after it. *)
THEOREM MappingsReach == Spec => []MappingsReachAll
<1>1. LabelsInv => MappingsReachAll
  BY DEF LabelsInv
<1> QED
  BY <1>1, InitInv, StepInv, PTL DEF Spec

-----------------------------------------------------------------------------
(* Labels given by hand.                                                    *)

(* The rows R that a removal deletes are its own: sources by hand only where *)
(* the user takes the label off, labels of a mapping only where no source by *)
(* hand has been there since the removal began.                              *)
Aims(c, R) ==
    \A m \in Messages, l \in Labels :
        /\ call[c].op \in {"remove", "erase"} /\ (Tag(m, l) \in R \/ Source(m, l, Manual) \in R) =>
              TakesOff(c, m, l)
        /\ call[c].op = "unapply" => Source(m, l, Manual) \notin R
        /\ call[c].op = "unapply" /\ Tag(m, l) \in R => Source(m, l, Manual) \notin kept[c]

Aimed(c) == kept[c] \subseteq db /\ Aims(c, del[c] \cup wait[c])

AimInv == \A c \in Clients : Aimed(c)

LEMMA AimsGrow ==
    ASSUME NEW c, Aimed(c), NEW R, Aims(c, R), call'[c] = call[c],
           kept'[c] \subseteq kept[c], kept'[c] \subseteq db',
           del'[c] \cup wait'[c] \subseteq del[c] \cup wait[c] \cup R
    PROVE  Aimed(c)'
BY DEF Aimed, Aims, TakesOff

LEMMA DeleteAims ==
    ASSUME SessionsInv, NEW c \in Clients, Aimed(c), NEW R \in SUBSET Row, Aims(c, R), NEW next,
           Delete(c, R, next)
    PROVE  Aimed(c)'
<1>1. /\ UNCHANGED <<db, call, kept>>
      /\ Proceeds(c, R, next) /\ del'[c] = del[c] \cup (Done(c, R) \cap View(c))
  BY DeleteEffect
<1>2. del'[c] \cup wait'[c] \subseteq del[c] \cup wait[c] \cup R
  BY <1>1 DEF Proceeds, Done, Todo
<1> QED
  BY <1>1, <1>2, AimsGrow DEF Aimed

(* A request that removes nothing, by hand or by mapping, has no aim.       *)
LEMMA AimlessStep ==
    ASSUME NEW c, Aimed(c), call[c].op \notin {"remove", "erase", "unapply"},
           UNCHANGED <<db, call, kept>>
    PROVE  Aimed(c)'
BY DEF Aimed, Aims

LEMMA UnapplyAims ==
    ASSUME SessionsInv, NEW c \in Clients, Active(c), Aimed(c),
           RemoveLabelByMerchant(c) \/ RemoveOrphanedLabels(c)
    PROVE  Aimed(c)'
<1> DEFINE L == call[c].labels  P == call[c].patterns
<1>0. /\ L \subseteq Labels /\ P \subseteq Patterns /\ Manual \notin P
      /\ ~\E o, A, B, C, f : Begin(c, o, A, B, C, f)
  BY Requests, PatternAssumption DEF Begin, Active
<1>1. call[c].op = "unapply"
  BY <1>0 DEF RemoveLabelByMerchant, RemoveOrphanedLabels, At
<1>2. CASE At(c, "unapply", "mapping") /\ Delete(c, Mappings(L, P) \cap View(c), "affected")
  <2>1. Mappings(L, P) \cap View(c) \subseteq MappingRows /\ MappingRows \subseteq Row
    BY <1>0, ComprehensionKinds, Parts
  <2>2. Aims(c, Mappings(L, P) \cap View(c))
    BY <1>1, <2>1, Kinds DEF Aims
  <2>3. Mappings(L, P) \cap View(c) \in SUBSET Row
    BY <2>1
  <2> QED
    BY <1>2, <2>2, <2>3, DeleteAims
<1>3. CASE At(c, "unapply", "sources") /\ Delete(c, PatternSources(c), "count")
  <2>1. PatternSources(c) \subseteq SourceRows /\ SourceRows \subseteq Row
    BY RowsOfKind, Parts DEF PatternSources
  <2>2. \A m, l : Source(m, l, Manual) \notin PatternSources(c)
    BY <1>0, RowShapes DEF PatternSources
  <2>3. Aims(c, PatternSources(c))
    BY <1>1, <2>1, <2>2, Kinds DEF Aims
  <2>4. PatternSources(c) \in SUBSET Row
    BY <2>1
  <2> QED
    BY <1>3, <2>3, <2>4, DeleteAims
<1>4. CASE At(c, "unapply", "untag") /\ Delete(c, {}, "count")
  <2>1. Aims(c, {}) /\ {} \in SUBSET Row
    BY <1>1 DEF Aims
  <2> QED
    BY <1>4, <2>1, DeleteAims
<1>5. CASE UNCHANGED <<db, del, call, wait, kept>>
  BY <1>1, <1>5 DEF Aimed, Aims
<1>6. ASSUME NEW m \in affected[c], ~HasSources(c, m), wait' = [wait EXCEPT ![c] = Tags({m}, L)],
             UNCHANGED <<db, ins, del, call, overlapped, spared, kept>>
      PROVE  Aimed(c)'
  <2>1. wait'[c] = Tags({m}, L)
    BY <1>6 DEF SessionsInv, TypeOK
  <2>2. \A n, l : Tag(n, l) \in Tags({m}, L) => n = m /\ l \in L
    BY Members
  <2>3. Tags({m}, L) \subseteq TagRows
    <3>1. {m} \in SUBSET Messages /\ L \in SUBSET Labels
      BY <1>0 DEF SessionsInv, TypeOK
    <3> QED
      BY <3>1, ComprehensionKinds
  <2>4. ASSUME NEW l \in L PROVE Source(m, l, Manual) \notin kept[c]
    <3>1. SUFFICES ASSUME Source(m, l, Manual) \in kept[c] PROVE FALSE
      OBVIOUS
    <3>2. Source(m, l, Manual) \in db /\ Source(m, l, Manual) \notin del[c] /\ m \in Messages /\ l \in Labels
      BY <1>0, <1>1, <3>1 DEF Aimed, Aims, SessionsInv, TypeOK
    <3>3. Source(m, l, Manual) \in View(c) /\ Source(m, l, Manual) \in SourceRows
      BY <3>2, Kinds DEF View, Why
    <3>4. Source(m, l, Manual) \in RowsOf(c, SourceRows, {m}, L)
      BY <3>3, RowsFound
    <3> QED
      BY <1>6, <3>4 DEF HasSources
  <2>5. Aims(c, Tags({m}, L))
    BY <1>1, <2>2, <2>3, <2>4, Kinds DEF Aims
  <2>6. /\ del'[c] \cup wait'[c] \subseteq del[c] \cup wait[c] \cup Tags({m}, L)
        /\ kept'[c] \subseteq kept[c] /\ kept'[c] \subseteq db' /\ call'[c] = call[c]
    BY <1>6, <2>1 DEF Aimed
  <2> QED
    BY <2>5, <2>6, AimsGrow
<1> QED
  BY <1>0, <1>2, <1>3, <1>4, <1>5, <1>6 DEF RemoveLabelByMerchant, RemoveOrphanedLabels

LEMMA RemoveAims ==
    ASSUME SessionsInv, NEW c \in Clients, Active(c), Aimed(c), RemoveLabel(c) \/ DeleteLabel(c)
    PROVE  Aimed(c)'
<1> DEFINE L == call[c].labels  M == call[c].messages
           mappings == Mappings(L, Patterns) \cap View(c)
<1>0. /\ L \subseteq Labels /\ M \subseteq Messages
      /\ ~\E o, A, B, C, f : Begin(c, o, A, B, C, f)
      /\ SourceRows \subseteq Row /\ TagRows \subseteq Row /\ MappingRows \subseteq Row
  BY Requests, Parts DEF Begin, Active
<1>1. ASSUME NEW R \in {SourceRows, TagRows}, NEW N,
             (call[c].op = "remove" /\ N = M) \/ call[c].op = "erase"
      PROVE  RowsOf(c, R, N, L) \in SUBSET Row /\ Aims(c, RowsOf(c, R, N, L))
  <2>1. RowsOf(c, R, N, L) \in SUBSET Row
    BY <1>0, RowsOfKind
  <2>2. ASSUME NEW m, NEW l, Tag(m, l) \in RowsOf(c, R, N, L) \/ Source(m, l, Manual) \in RowsOf(c, R, N, L)
        PROVE  m \in N /\ l \in L
    BY <2>2, RowShapes DEF RowsOf
  <2> QED
    BY <1>1, <2>1, <2>2 DEF Aims, TakesOff
<1>2. mappings \subseteq MappingRows
  BY <1>0, ComprehensionKinds
<1> HIDE DEF mappings
<1>3. mappings \in SUBSET Row /\ (call[c].op \in {"delete", "erase"} => Aims(c, mappings))
  BY <1>0, <1>2, Kinds DEF Aims
<1>4. CASE RemoveLabel(c)
  <2>1. \E R \in {SourceRows, TagRows} : \E next :
           call[c].op = "remove" /\ Delete(c, RowsOf(c, R, M, L), next)
    BY <1>0, <1>4 DEF RemoveLabel, At
  <2> QED
    BY <2>1, <1>1, DeleteAims
<1>5. CASE DeleteLabel(c)
  <2>1. \/ \E R \in {SourceRows, TagRows} : \E next :
              call[c].op = "erase" /\ Delete(c, RowsOf(c, R, Messages, L), next)
        \/ call[c].op \in {"delete", "erase"} /\ Delete(c, mappings, "commit")
    BY <1>0, <1>5 DEF DeleteLabel, At, mappings
  <2>2. CASE call[c].op \in {"delete", "erase"} /\ Delete(c, mappings, "commit")
    BY <2>2, <1>3, DeleteAims
  <2> QED
    BY <2>1, <2>2, <1>1, DeleteAims
<1> QED
  BY <1>4, <1>5

(* A statement of a request commits nothing and keeps to its aim.           *)
LEMMA StatementAims ==
    ASSUME SessionsInv, NEW c \in Clients, Active(c), Aimed(c), ClientStep(c),
           ~Commit(c), ~Rollback(c)
    PROVE  Aimed(c)' /\ UNCHANGED <<db, call, kept>> /\ Others(c)
<1>1. UNCHANGED <<db, call, kept>> /\ Others(c)
  <2>1. ~Begins(c)
    BY DEF Begins, Begin, Active
  <2>2. CASE Inserts(c)
    <3>1. PICK R, next : R \subseteq Written(pc[c]) /\ Insert(c, R, next)
      BY <2>2 DEF Inserts
    <3>2. R \in SUBSET Row
      BY <3>1, WrittenKinds
    <3> QED
      BY <3>1, <3>2, InsertEffect
  <2>3. CASE Deletes(c)
    <3>1. PICK R, next : R \subseteq Written(pc[c]) /\ Delete(c, R, next)
      BY <2>3 DEF Deletes
    <3>2. R \in SUBSET Row
      BY <3>1, WrittenKinds
    <3> QED
      BY <3>1, <3>2, DeleteEffect
  <2>4. CASE Examines(c)
    BY <2>4 DEF Examines
  <2>5. CASE call[c].op = "ingest" /\ pc[c] = "upsert" /\ Upsert(c)
    BY <2>5, UpsertEffect
  <2> QED
    BY <2>1, <2>2, <2>3, <2>4, <2>5, StepKinds
<1>2. CASE AddLabels(c) \/ ApplyLabelByMerchant(c) \/ Ingest(c)
  <2>1. call[c].op \in {"add", "apply", "ingest"}
    BY <1>2 DEF AddLabels, ApplyLabelByMerchant, Ingest, At, Begin, Active
  <2> QED
    BY <1>1, <2>1, AimlessStep
<1> QED
  BY <1>1, <1>2, UnapplyAims, RemoveAims DEF ClientStep

LEMMA InitAim == Init => AimInv
BY DEF Init, AimInv, Aimed, Aims

LEMMA StepAim == SessionsInv /\ AimInv /\ [Next]_vars => AimInv'
<1> SUFFICES ASSUME SessionsInv, AimInv, [Next]_vars PROVE AimInv'
  OBVIOUS
<1>1. CASE UNCHANGED vars
  BY <1>1 DEF vars, clientVars, AimInv, Aimed, Aims, TakesOff
<1>2. ASSUME NEW c \in Clients, ClientStep(c) PROVE AimInv'
  <2>0. \A d : Aims(d, {})
    BY DEF Aims
  <2>1. ASSUME Others(c), \A d \in Clients \ {c} : kept'[d] \subseteq kept[d] /\ kept'[d] \subseteq db'
        PROVE  \A d \in Clients \ {c} : Aimed(d)'
    <3>1. SUFFICES ASSUME NEW d \in Clients \ {c} PROVE Aimed(d)'
      OBVIOUS
    <3>2. call'[d] = call[d] /\ del'[d] = del[d] /\ wait'[d] = wait[d]
      BY <2>1 DEF Others, Kept
    <3> QED
      BY <2>0, <2>1, <3>2, AimsGrow DEF AimInv
  <2>2. CASE Commit(c) \/ Rollback(c)
    <3>1. Release(c)
      BY <2>2 DEF Commit, Rollback
    <3>2. Aimed(c)'
      BY <3>1, ReleaseEffect DEF Aimed, Aims
    <3> QED
      BY <2>1, <3>1, <3>2, ReleaseEffect DEF AimInv
  <2>3. CASE Begins(c)
    <3>1. PICK o \in Ops, M \in SUBSET Messages, L \in SUBSET Labels, P \in SUBSET Patterns :
             Begin(c, o, M, L, P, First(o))
      BY <2>3 DEF Begins
    <3>2. ~Active(c) /\ UNCHANGED <<db, del, wait>> /\ Others(c)
      BY <3>1, BeginEffect
    <3>3. kept'[c] \subseteq db /\ \A d \in Clients \ {c} : kept'[d] = kept[d]
      BY <3>1 DEF Begin, SessionsInv, TypeOK, AimInv, Aimed
    <3>4. Aimed(c)'
      BY <3>2, <3>3, Idle DEF Aimed, Aims
    <3> QED
      BY <2>1, <3>2, <3>3, <3>4 DEF AimInv, Aimed
  <2>4. CASE Active(c) /\ ~Commit(c) /\ ~Rollback(c)
    <3>1. Aimed(c)' /\ UNCHANGED <<db, kept>> /\ Others(c)
      BY <1>2, <2>4, StatementAims DEF AimInv
    <3> QED
      BY <2>1, <3>1 DEF AimInv, Aimed
  <2>5. ~Active(c) => Begins(c)
    BY <1>2, StepKinds DEF Inserts, Deletes, Examines, Commit, Rollback, Active
  <2> QED
    BY <2>2, <2>3, <2>4, <2>5
<1> QED
  BY <1>1, <1>2 DEF Next, ClientStep

(* "Manual label should remain": the user takes it off, or it was given      *)
(* while the mapping whose removal takes it was being removed.               *)
THEOREM ManualStays == Spec => ManualLabelsStay
<1> DEFINE Stays == \A m \in Messages, l \in Labels :
              /\ Source(m, l, Manual) \in db \ db' =>
                    \E c \in Clients : pc'[c] # pc[c] /\ TakesOff(c, m, l)
              /\ {Source(m, l, Manual), Tag(m, l)} \subseteq db /\ Tag(m, l) \notin db' =>
                    \E c \in Clients :
                       /\ pc'[c] # pc[c]
                       /\ \/ TakesOff(c, m, l)
                          \/ call[c].op = "unapply" /\ Source(m, l, Manual) \notin kept[c]
<1>1. SessionsInv /\ AimInv /\ [Next]_vars => [Stays]_vars
  <2> SUFFICES ASSUME SessionsInv, AimInv, Next PROVE Stays
    OBVIOUS
  <2>1. PICK c \in Clients : ClientStep(c)
    BY DEF Next, ClientStep
  <2>2. CASE db' = db
    BY <2>2
  <2>3. CASE db' # db
    <3>1. Commit(c)
      <4>1. ~Rollback(c)
        BY <2>3 DEF Rollback
      <4>2. ~Begins(c)
        BY <2>3, BeginDetail
      <4>3. ~Active(c) => Begins(c)
        BY <2>1, StepKinds DEF Inserts, Deletes, Examines, Commit, Rollback, Active
      <4> QED
        BY <2>1, <2>3, <4>1, <4>2, <4>3, StatementAims DEF AimInv
    <3>2. pc[c] = "commit" /\ Active(c) /\ db' = View(c) /\ pc'[c] = "idle" /\ call[c].op \in Ops
      BY <3>1, ReleaseEffect, Requests DEF Commit, Active
    <3>3. Session(c) /\ Aims(c, del[c] \cup wait[c])
      BY DEF SessionsInv, AimInv, Aimed
    <3>4. ASSUME NEW m \in Messages, NEW l \in Labels, Tag(m, l) \in del[c] \/ Source(m, l, Manual) \in del[c]
          PROVE  call[c].op \in {"remove", "erase", "unapply"}
      BY <3>2, <3>3, <3>4, Kinds DEF Session, MayDelete, Ops
    <3>5. \A r \in db : r \notin db' => r \in del[c]
      BY <3>2 DEF View
    <3>6. ASSUME NEW m \in Messages, NEW l \in Labels, Source(m, l, Manual) \in db \ db'
          PROVE  pc'[c] # pc[c] /\ TakesOff(c, m, l)
      BY <3>2, <3>3, <3>4, <3>5, <3>6 DEF Aims
    <3>7. ASSUME NEW m \in Messages, NEW l \in Labels, Tag(m, l) \in db, Tag(m, l) \notin db'
          PROVE  /\ pc'[c] # pc[c]
                 /\ TakesOff(c, m, l) \/ (call[c].op = "unapply" /\ Source(m, l, Manual) \notin kept[c])
      BY <3>2, <3>3, <3>4, <3>5, <3>7 DEF Aims
    <3> QED
      BY <3>6, <3>7
  <2> QED
    BY <2>2, <2>3
<1>2. Spec => [](SessionsInv /\ AimInv)
  <2>1. LabelsInv => SessionsInv
    BY DEF LabelsInv
  <2>2. Spec => []SessionsInv
    BY <2>1, InitInv, StepInv, PTL DEF Spec
  <2> QED
    BY <2>2, InitAim, StepAim, PTL DEF Spec
<1>3. Spec => [][Stays]_vars
  BY <1>1, <1>2, PTL DEF Spec
<1> QED
  BY <1>3 DEF ManualLabelsStay
-----------------------------------------------------------------------------
\* Sums over finite sets

\* Among the subsets of a finite set that have a property, one is smallest.
LEMMA SmallestSubset ==
  ASSUME NEW S, IsFiniteSet(S), NEW B \in SUBSET (SUBSET S), B # {}
  PROVE  \E T \in B : \A U \in SUBSET T : U \in B => U = T
<1>1. IsWellFoundedOn(StrictSubsetOrdering(S), FiniteSubsetsOf(S))
  BY FS_StrictSubsetOrderingWellFounded
<1>2. FiniteSubsetsOf(S) = SUBSET S
  BY FS_Subset DEF FiniteSubsetsOf
<1>3. PICK T \in B : \A U \in B : ~(<<U, T>> \in StrictSubsetOrdering(S))
  BY <1>1, <1>2, WFMin
<1>4. ASSUME NEW U \in SUBSET T, U \in B, U # T
      PROVE  FALSE
  <2>1. <<U, T>> \in StrictSubsetOrdering(S)
    BY <1>4 DEF StrictSubsetOrdering
  <2> QED
    BY <1>3, <1>4, <2>1
<1>5. \A U \in SUBSET T : U \in B => U = T
  BY <1>4
<1> QED
  BY <1>5

\* The element that a sum takes next.
Pick(s) == CHOOSE x \in s : TRUE

\* g sums f over each subset of S, one element after the other.
Sums(f, g, S) ==
  g = [s \in SUBSET S |-> IF s = {} THEN 0 ELSE f[Pick(s)] + g[s \ {Pick(s)}]]

LEMMA SumsAt ==
  ASSUME NEW f, NEW g, NEW S, Sums(f, g, S), NEW s \in SUBSET S
  PROVE  /\ s = {} => g[s] = 0
         /\ s # {} => /\ g[s] = f[Pick(s)] + g[s \ {Pick(s)}]
                      /\ Pick(s) \in s
BY DEF Sums, Pick

LEMMA SumsAgree ==
  ASSUME NEW f, NEW g, NEW h, NEW S, NEW T, Sums(f, g, S), Sums(f, h, T),
         NEW s \in SUBSET S, s \in SUBSET T, IsFiniteSet(s)
  PROVE  g[s] = h[s]
<1> DEFINE B == {t \in SUBSET s : g[t] # h[t]}
<1>1. B \in SUBSET (SUBSET s)
  OBVIOUS
<1>2. SUFFICES ASSUME B # {} PROVE FALSE
  OBVIOUS
<1>3. PICK t \in B : \A u \in SUBSET t : u \in B => u = t
  <2> HIDE DEF B
  <2> QED
    BY <1>1, <1>2, SmallestSubset
<1>4. t \in SUBSET S /\ t \in SUBSET T /\ g[t] # h[t]
  OBVIOUS
<1>5. t # {}
  BY <1>4, SumsAt
<1>6. /\ g[t] = f[Pick(t)] + g[t \ {Pick(t)}]
      /\ h[t] = f[Pick(t)] + h[t \ {Pick(t)}]
      /\ Pick(t) \in t
  BY <1>4, <1>5, SumsAt
<1>7. g[t \ {Pick(t)}] = h[t \ {Pick(t)}]
  BY <1>3, <1>6
<1> QED
  BY <1>4, <1>6, <1>7

LEMMA SumsExist ==
  ASSUME NEW f, NEW S, IsFiniteSet(S)
  PROVE  \E g : Sums(f, g, S)
<1> DEFINE B == {T \in SUBSET S : ~ \E g : Sums(f, g, T)}
<1>1. B \in SUBSET (SUBSET S)
  OBVIOUS
<1>2. SUFFICES ASSUME B # {} PROVE FALSE
  OBVIOUS
<1>3. PICK T \in B : \A U \in SUBSET T : U \in B => U = T
  <2> HIDE DEF B
  <2> QED
    BY <1>1, <1>2, SmallestSubset
<1>4. T \in SUBSET S /\ ~ \E g : Sums(f, g, T)
  OBVIOUS
<1>5. \A U \in SUBSET T : U # T => \E g : Sums(f, g, U)
  BY <1>3
<1> DEFINE at(U) == CHOOSE g : Sums(f, g, U)
           g == [s \in SUBSET T |->
                   IF s = {} THEN 0
                   ELSE f[Pick(s)] + at(s \ {Pick(s)})[s \ {Pick(s)}]]
<1>6. \A U \in SUBSET T : U # T => Sums(f, at(U), U)
  BY <1>5
<1>7. \A U \in SUBSET T : IsFiniteSet(U)
  BY <1>4, FS_Subset
<1> HIDE DEF B, at
<1>8. ASSUME NEW t \in SUBSET T, t # T PROVE g[t] = at(t)[t]
  <2>1. Sums(f, at(t), t)
    BY <1>6, <1>8
  <2>2. CASE t = {}
    BY <2>1, <2>2, SumsAt
  <2>3. CASE t # {}
    <3>1. /\ at(t)[t] = f[Pick(t)] + at(t)[t \ {Pick(t)}]
          /\ Pick(t) \in t
      BY <2>1, <2>3, SumsAt
    <3>2. t \ {Pick(t)} \in SUBSET T /\ t \ {Pick(t)} # T /\ IsFiniteSet(t \ {Pick(t)})
      BY <3>1, <1>7
    <3>3. Sums(f, at(t \ {Pick(t)}), t \ {Pick(t)})
      BY <3>2, <1>6
    <3>4. at(t)[t \ {Pick(t)}] = at(t \ {Pick(t)})[t \ {Pick(t)}]
      BY <2>1, <3>2, <3>3, SumsAgree
    <3> QED
      BY <2>3, <3>1, <3>4
  <2> QED
    BY <2>2, <2>3
<1>9. ASSUME NEW s \in SUBSET T, s # {}
      PROVE  g[s] = f[Pick(s)] + g[s \ {Pick(s)}]
  <2>1. Pick(s) \in s
    BY <1>9 DEF Pick
  <2>2. s \ {Pick(s)} \in SUBSET T /\ s \ {Pick(s)} # T
    BY <2>1
  <2> QED
    BY <1>8, <1>9, <2>2
<1>10. g = [s \in SUBSET T |-> g[s]]
  OBVIOUS
<1>11. g[{}] = 0
  OBVIOUS
<1> HIDE DEF g
<1>12. Sums(f, g, T)
  BY <1>9, <1>10, <1>11 DEF Sums
<1> QED
  BY <1>4, <1>12

LEMMA SumOverSums ==
  ASSUME NEW f, NEW S, NEW g, IsFiniteSet(S), Sums(f, g, S)
  PROVE  SumOver(f, S) = g[S]
<1> DEFINE it == CHOOSE h : Sums(f, h, S)
<1>1. SumOver(f, S) = it[S]
  BY DEF SumOver, MapThenSumSet, MapThenFoldSet, Sums, Pick
<1>2. Sums(f, it, S)
  OBVIOUS
<1> HIDE DEF it
<1> QED
  BY <1>1, <1>2, SumsAgree

LEMMA SumEmpty ==
  ASSUME NEW f
  PROVE  SumOver(f, {}) = 0
<1>1. IsFiniteSet({})
  BY FS_EmptySet
<1>2. PICK g : Sums(f, g, {})
  BY <1>1, SumsExist
<1> QED
  BY <1>1, <1>2, SumOverSums, SumsAt

LEMMA SumNext ==
  ASSUME NEW f, NEW S, IsFiniteSet(S), S # {}
  PROVE  /\ SumOver(f, S) = f[Pick(S)] + SumOver(f, S \ {Pick(S)})
         /\ Pick(S) \in S
<1>1. PICK g : Sums(f, g, S)
  BY SumsExist
<1>2. /\ SumOver(f, S) = f[Pick(S)] + g[S \ {Pick(S)}]
      /\ Pick(S) \in S
  BY <1>1, SumOverSums, SumsAt
<1>3. IsFiniteSet(S \ {Pick(S)})
  BY FS_Subset
<1>4. PICK h : Sums(f, h, S \ {Pick(S)})
  BY <1>3, SumsExist
<1>5. g[S \ {Pick(S)}] = h[S \ {Pick(S)}]
  BY <1>1, <1>3, <1>4, SumsAgree
<1> QED
  BY <1>2, <1>3, <1>4, <1>5, SumOverSums

LEMMA SumInt ==
  ASSUME NEW f, NEW S, IsFiniteSet(S), \A x \in S : f[x] \in Int
  PROVE  SumOver(f, S) \in Int
<1> DEFINE B == {T \in SUBSET S : SumOver(f, T) \notin Int}
<1>1. B \in SUBSET (SUBSET S)
  OBVIOUS
<1>2. SUFFICES ASSUME B # {} PROVE FALSE
  OBVIOUS
<1>3. PICK T \in B : \A U \in SUBSET T : U \in B => U = T
  <2> HIDE DEF B
  <2> QED
    BY <1>1, <1>2, SmallestSubset
<1>4. T \in SUBSET S /\ SumOver(f, T) \notin Int /\ IsFiniteSet(T)
  BY FS_Subset
<1>5. T # {}
  BY <1>4, SumEmpty
<1>6. SumOver(f, T) = f[Pick(T)] + SumOver(f, T \ {Pick(T)}) /\ Pick(T) \in T
  BY <1>4, <1>5, SumNext
<1>7. SumOver(f, T \ {Pick(T)}) \in Int
  BY <1>3, <1>6
<1> QED
  BY <1>4, <1>6, <1>7

LEMMA SumRemove ==
  ASSUME NEW f, NEW S, IsFiniteSet(S), \A x \in S : f[x] \in Int, NEW x \in S
  PROVE  SumOver(f, S) = f[x] + SumOver(f, S \ {x})
<1> DEFINE Minus(T, y) == SumOver(f, T) = f[y] + SumOver(f, T \ {y})
           B == {T \in SUBSET S : \E y \in T : ~Minus(T, y)}
<1>1. B \in SUBSET (SUBSET S)
  OBVIOUS
<1>2. SUFFICES ASSUME B # {} PROVE FALSE
  OBVIOUS
<1>3. PICK T \in B : \A U \in SUBSET T : U \in B => U = T
  <2> HIDE DEF B
  <2> QED
    BY <1>1, <1>2, SmallestSubset
<1>4. PICK y \in T : ~Minus(T, y)
  OBVIOUS
<1>5. T \in SUBSET S /\ T # {} /\ \A U \in SUBSET T : IsFiniteSet(U)
  BY FS_Subset
<1>6. \A U \in SUBSET T : U # T => \A w \in U : SumOver(f, U) = f[w] + SumOver(f, U \ {w})
  BY <1>3, <1>5
<1>7. SumOver(f, T) # f[y] + SumOver(f, T \ {y})
  BY <1>4
<1> DEFINE z == Pick(T)
<1>8. SumOver(f, T) = f[z] + SumOver(f, T \ {z}) /\ z \in T
  BY <1>5, SumNext
<1> HIDE DEF Minus, B, z
<1>9. z # y
  BY <1>7, <1>8
<1>10. SumOver(f, T \ {z}) = f[y] + SumOver(f, (T \ {z}) \ {y})
  <2>1. T \ {z} \in SUBSET T /\ T \ {z} # T /\ y \in T \ {z}
    BY <1>8, <1>9
  <2> QED
    BY <2>1, <1>6
<1>11. SumOver(f, T \ {y}) = f[z] + SumOver(f, (T \ {y}) \ {z})
  <2>1. T \ {y} \in SUBSET T /\ T \ {y} # T /\ z \in T \ {y}
    BY <1>8, <1>9
  <2> QED
    BY <2>1, <1>6
<1>12. (T \ {z}) \ {y} = (T \ {y}) \ {z}
  OBVIOUS
<1>13. SumOver(f, (T \ {y}) \ {z}) \in Int /\ f[y] \in Int /\ f[z] \in Int
  BY <1>5, <1>8, SumInt
<1>14. \A a, b, c \in Int : a + (b + c) = b + (a + c)
  OBVIOUS
<1>15. f[z] + (f[y] + SumOver(f, (T \ {y}) \ {z})) = f[y] + (f[z] + SumOver(f, (T \ {y}) \ {z}))
  BY <1>13, <1>14
<1> QED
  BY <1>7, <1>8, <1>10, <1>11, <1>12, <1>15

LEMMA SumSame ==
  ASSUME NEW f, NEW g, NEW S, IsFiniteSet(S), \A x \in S : f[x] = g[x]
  PROVE  SumOver(f, S) = SumOver(g, S)
<1> DEFINE B == {T \in SUBSET S : SumOver(f, T) # SumOver(g, T)}
<1>1. B \in SUBSET (SUBSET S)
  OBVIOUS
<1>2. SUFFICES ASSUME B # {} PROVE FALSE
  OBVIOUS
<1>3. PICK T \in B : \A U \in SUBSET T : U \in B => U = T
  <2> HIDE DEF B
  <2> QED
    BY <1>1, <1>2, SmallestSubset
<1>4. T \in SUBSET S /\ SumOver(f, T) # SumOver(g, T) /\ IsFiniteSet(T)
  BY FS_Subset
<1>5. T # {}
  BY <1>4, SumEmpty
<1>6. /\ SumOver(f, T) = f[Pick(T)] + SumOver(f, T \ {Pick(T)})
      /\ SumOver(g, T) = g[Pick(T)] + SumOver(g, T \ {Pick(T)})
      /\ Pick(T) \in T
  BY <1>4, <1>5, SumNext
<1>7. SumOver(f, T \ {Pick(T)}) = SumOver(g, T \ {Pick(T)})
  BY <1>3, <1>6
<1> QED
  BY <1>4, <1>6, <1>7

LEMMA SumUnion ==
  ASSUME NEW f, NEW S, NEW T, IsFiniteSet(S), IsFiniteSet(T), S \cap T = {},
         \A x \in S \cup T : f[x] \in Int
  PROVE  SumOver(f, S \cup T) = SumOver(f, S) + SumOver(f, T)
<1> DEFINE B == {U \in SUBSET S : SumOver(f, U \cup T) # SumOver(f, U) + SumOver(f, T)}
<1>1. B \in SUBSET (SUBSET S)
  OBVIOUS
<1>2. SUFFICES ASSUME B # {} PROVE FALSE
  OBVIOUS
<1>3. PICK U \in B : \A V \in SUBSET U : V \in B => V = U
  <2> HIDE DEF B
  <2> QED
    BY <1>1, <1>2, SmallestSubset
<1>4. U \in SUBSET S /\ SumOver(f, U \cup T) # SumOver(f, U) + SumOver(f, T)
  OBVIOUS
<1>5. IsFiniteSet(U) /\ IsFiniteSet(U \cup T)
  BY <1>4, FS_Subset, FS_Union
<1>6. SumOver(f, T) \in Int
  BY SumInt
<1>7. U # {}
  <2>1. SUFFICES ASSUME U = {} PROVE FALSE
    OBVIOUS
  <2>2. U \cup T = T /\ SumOver(f, U) = 0
    BY <2>1, SumEmpty
  <2>3. SumOver(f, U \cup T) = SumOver(f, T)
    BY <2>2
  <2> HIDE DEF B
  <2> QED
    BY <2>2, <2>3, <1>4, <1>6
<1>8. PICK x : x \in U
  BY <1>7
<1>9. (U \cup T) \ {x} = (U \ {x}) \cup T
  BY <1>4, <1>8
<1>10. SumOver(f, U \cup T) = f[x] + SumOver(f, (U \ {x}) \cup T)
  BY <1>4, <1>5, <1>8, <1>9, SumRemove
<1>11. SumOver(f, U) = f[x] + SumOver(f, U \ {x})
  BY <1>4, <1>5, <1>8, SumRemove
<1>12. SumOver(f, (U \ {x}) \cup T) = SumOver(f, U \ {x}) + SumOver(f, T)
  BY <1>3, <1>8
<1>13. SumOver(f, U \ {x}) \in Int /\ f[x] \in Int
  <2>1. IsFiniteSet(U \ {x})
    BY <1>5, FS_Subset
  <2> QED
    BY <1>4, <1>8, <2>1, SumInt
<1> HIDE DEF B
<1> QED
  BY <1>4, <1>6, <1>10, <1>11, <1>12, <1>13

-----------------------------------------------------------------------------
\* Amounts of transactions

LEMMA TotalInt ==
  ASSUME NEW S \in SUBSET Ids
  PROVE  IsFiniteSet(S) /\ Total(S) \in Int /\ (\A i \in S : Amount[i] \in Int)
<1>1. IsFiniteSet(S)
  BY IdsAssumption, FS_Subset
<1>2. \A i \in S : Amount[i] \in Int
  BY AmountAssumption
<1> QED
  BY <1>1, <1>2, SumInt DEF Total

LEMMA TotalEmpty == Total({}) = 0
BY SumEmpty DEF Total

\* The transactions of a group, and of several groups.
Group(S, key, k) == {i \in S : key[i] = k}
Groups(S, key, K) == {i \in S : key[i] \in K}

\* A sum over groups is the total of their transactions.
LEMMA SumOfGroups ==
  ASSUME NEW S \in SUBSET Ids, NEW key, NEW by, NEW K, IsFiniteSet(K),
         \A k \in K : by[k] = Total(Group(S, key, k))
  PROVE  SumOver(by, K) = Total(Groups(S, key, K))
<1> DEFINE B == {L \in SUBSET K : SumOver(by, L) # Total(Groups(S, key, L))}
<1>1. B \in SUBSET (SUBSET K)
  OBVIOUS
<1>2. SUFFICES ASSUME B # {} PROVE FALSE
  OBVIOUS
<1>3. PICK L \in B : \A M \in SUBSET L : M \in B => M = L
  <2> HIDE DEF B
  <2> QED
    BY <1>1, <1>2, SmallestSubset
<1>4. L \in SUBSET K /\ SumOver(by, L) # Total(Groups(S, key, L)) /\ IsFiniteSet(L)
  BY FS_Subset
<1>5. L # {}
  <2>1. SUFFICES ASSUME L = {} PROVE FALSE
    OBVIOUS
  <2>2. Groups(S, key, L) = {}
    BY <2>1 DEF Groups
  <2> HIDE DEF B
  <2> QED
    BY <2>1, <2>2, <1>4, SumEmpty, TotalEmpty
<1>6. PICK k : k \in L
  BY <1>5
<1>7. SumOver(by, L \ {k}) = Total(Groups(S, key, L \ {k}))
  BY <1>3, <1>6
<1>8. \A l \in L : by[l] \in Int
  <2>1. \A l \in L : Group(S, key, l) \in SUBSET Ids
    BY DEF Group
  <2> QED
    BY <1>4, <2>1, TotalInt
<1>9. SumOver(by, L) = by[k] + SumOver(by, L \ {k})
  BY <1>4, <1>6, <1>8, SumRemove
<1>10. by[k] = Total(Group(S, key, k))
  BY <1>4, <1>6
<1>11. Total(Groups(S, key, L)) = Total(Group(S, key, k)) + Total(Groups(S, key, L \ {k}))
  <2> DEFINE A == Group(S, key, k)
             R == Groups(S, key, L \ {k})
  <2>1. Groups(S, key, L) = A \cup R /\ A \cap R = {}
    BY <1>6 DEF Group, Groups
  <2>2. A \in SUBSET Ids /\ R \in SUBSET Ids
    BY DEF Group, Groups
  <2>3. IsFiniteSet(A) /\ IsFiniteSet(R) /\ \A i \in A \cup R : Amount[i] \in Int
    BY <2>2, TotalInt
  <2> HIDE DEF A, R, B
  <2>4. SumOver(Amount, A \cup R) = SumOver(Amount, A) + SumOver(Amount, R)
    BY <2>1, <2>3, SumUnion
  <2> QED
    BY <2>1, <2>4 DEF Total, A, R
<1> HIDE DEF B
<1> QED
  BY <1>4, <1>7, <1>9, <1>10, <1>11

LEMMA GroupTotals ==
  ASSUME NEW S \in SUBSET Ids, NEW key, DOMAIN key = S
  PROVE  /\ DOMAIN GroupBy(key) = Range(key)
         /\ \A k \in DOMAIN GroupBy(key) : GroupBy(key)[k] = Total(Group(S, key, k))
         /\ \A K \in SUBSET DOMAIN GroupBy(key) :
              SumOf(Restrict(GroupBy(key), K)) = Total(Groups(S, key, K))
         /\ SumOf(GroupBy(key)) = Total(S)
<1> DEFINE by == GroupBy(key)
           D == {key[i] : i \in S}
<1>1. D = Range(key)
  BY DEF Range
<1>2. DOMAIN by = D
  BY DEF GroupBy, Range
<1>3. \A k \in D : by[k] = Total(Group(S, key, k))
  BY DEF GroupBy, Range, Group
<1>4. IsFiniteSet(D)
  <2> DEFINE g == [i \in S |-> key[i]]
  <2>1. g \in Surjection(S, D)
    BY DEF Surjection
  <2>2. IsFiniteSet(S)
    BY TotalInt
  <2> QED
    BY <2>1, <2>2, FS_Surjection
<1>5. ASSUME NEW K \in SUBSET D
      PROVE  SumOf(Restrict(by, K)) = Total(Groups(S, key, K))
  <2>1. IsFiniteSet(K)
    BY <1>4, FS_Subset
  <2> DEFINE r == Restrict(by, K)
  <2>2. DOMAIN r = K /\ \A k \in K : r[k] = Total(Group(S, key, k))
    BY <1>2, <1>3 DEF Restrict
  <2> HIDE DEF by, D, r
  <2>3. SumOver(r, K) = Total(Groups(S, key, K))
    BY <2>1, <2>2, SumOfGroups
  <2> QED
    BY <2>2, <2>3 DEF SumOf, r
<1>6. SumOf(by) = Total(S)
  <2>1. SumOver(by, D) = Total(Groups(S, key, D))
    <3> HIDE DEF by, D
    <3> QED
      BY <1>3, <1>4, SumOfGroups
  <2>2. Groups(S, key, D) = S
    BY DEF Groups
  <2> QED
    BY <1>2, <2>1, <2>2 DEF SumOf
<1> QED
  BY <1>1, <1>2, <1>3, <1>5, <1>6

-----------------------------------------------------------------------------
\* The calendar

LEMMA Quotient ==
  ASSUME NEW t \in Int, NEW d \in Nat \ {0}, NEW q \in Int
  PROVE  t \div d = q <=> q * d <= t /\ t < (q + 1) * d
OBVIOUS

LEMMA QuotientType ==
  ASSUME NEW t \in Int, NEW d \in Nat \ {0}
  PROVE  t \div d \in Int
OBVIOUS

LEMMA NestedQuotient ==
  ASSUME NEW t \in Int, NEW d \in Nat \ {0}, NEW e \in Nat \ {0}
  PROVE  /\ d * e \in Nat \ {0}
         /\ (t \div d) \div e = t \div (d * e)
<1> DEFINE q == t \div d
           r == q \div e
<1>1. q \in Int /\ r \in Int
  BY QuotientType
<1>2. q * d <= t /\ t < (q + 1) * d
  BY <1>1, Quotient
<1>3. r * e <= q /\ q < (r + 1) * e
  BY <1>1, Quotient
<1>4. d * e \in Nat \ {0}
  OBVIOUS
<1> HIDE DEF q, r
<1>5. r * (d * e) <= t /\ t < (r + 1) * (d * e)
  <2>1. (r * e) * d <= q * d
    BY <1>1, <1>3
  <2>2. q + 1 <= (r + 1) * e
    BY <1>1, <1>3
  <2>3. (q + 1) * d <= ((r + 1) * e) * d
    BY <1>1, <2>2
  <2>4. (r * e) * d = r * (d * e) /\ ((r + 1) * e) * d = (r + 1) * (d * e)
    BY <1>1
  <2> QED
    BY <1>1, <1>2, <2>1, <2>3, <2>4
<1> QED
  BY <1>1, <1>4, <1>5, Quotient DEF q, r

-----------------------------------------------------------------------------
\* The state

SpendingTyped ==
  /\ rows \in [Ids -> TransactionRow \cup {Absent}]
  /\ now \in Int
  /\ tz \in Int

LEMMA SpendingTypes == SpendingSpec => []SpendingTyped
<1>1. SpendingInit => SpendingTyped
  BY CalendarAssumption DEF SpendingInit, SpendingTyped
<1>2. SpendingTyped /\ [SpendingNext]_spendingVars => SpendingTyped'
  <2> SUFFICES ASSUME SpendingTyped, [SpendingNext]_spendingVars PROVE SpendingTyped'
    OBVIOUS
  <2> USE DEF SpendingTyped
  <2>1. ASSUME NEW i \in Ids, NEW r \in Rows, Store(i, r) PROVE SpendingTyped'
    BY <2>1, RowsAssumption DEF Store
  <2>2. CASE Tick
    BY <2>2, CalendarAssumption DEF Tick
  <2>3. ASSUME NEW z \in Offsets, SetAppTimezone(z) PROVE SpendingTyped'
    BY <2>3, CalendarAssumption DEF SetAppTimezone
  <2>4. CASE UNCHANGED spendingVars
    BY <2>4 DEF spendingVars
  <2> QED
    BY <2>1, <2>2, <2>3, <2>4 DEF SpendingNext
<1> QED
  BY <1>1, <1>2, PTL DEF SpendingSpec

LEMMA SavedRows ==
  ASSUME SpendingTyped
  PROVE  /\ \A S \in SUBSET Saved : S \in SUBSET Ids
         /\ Unmuted \in SUBSET Saved
         /\ \A i \in Saved :
              /\ rows[i] \in TransactionRow
              /\ rows[i].ts \in Int
              /\ rows[i].labels \in SUBSET TagNames
              /\ rows[i].muted \in BOOLEAN
              /\ \A c \in Dimensions : rows[i].val[c] \in TagNames \cup {Untagged}
<1>1. ASSUME NEW i \in Saved
      PROVE  /\ rows[i] \in TransactionRow
             /\ rows[i].ts \in Int
             /\ rows[i].labels \in SUBSET TagNames
             /\ rows[i].muted \in BOOLEAN
             /\ \A c \in Dimensions : rows[i].val[c] \in TagNames \cup {Untagged}
  BY DEF SpendingTyped, Saved, TransactionRow
<1> QED
  BY <1>1 DEF Saved, Unmuted

LEMMA CalendarTypes ==
  /\ HoursPerDay \in Nat \ {0} /\ DaysPerMonth \in Nat \ {0} /\ MonthsPerYear \in Nat \ {0}
  /\ HoursPerMonth \in Nat \ {0}
  /\ DaysPerWeek \in Nat \ {0}
BY CalendarAssumption, NestedQuotient DEF HoursPerMonth

LEMMA LocalTypes ==
  ASSUME SpendingTyped, NEW t \in Int
  PROVE  /\ Local(t) \in Int /\ Hour(t) \in Int /\ Day(t) \in Int /\ Weekday(t) \in Int
         /\ DayOfMonth(t) \in Int /\ Month(t) \in Int /\ Year(t) \in Int
<1>1. Local(t) \in Int
  BY DEF SpendingTyped, Local
<1>2. Hour(t) \in Int /\ Day(t) \in Int /\ Month(t) \in Int
  BY <1>1, CalendarTypes DEF Hour, Day, Month
<1> QED
  BY <1>1, <1>2, CalendarTypes DEF Weekday, DayOfMonth, Year

\* A month is what lies between its start and that of the next.
LEMMA MonthBounds ==
  ASSUME SpendingTyped, NEW t \in Int, NEW m \in Int
  PROVE  /\ StartUTC(m) \in Int
         /\ Month(t) = m <=> StartUTC(m) <= t /\ t < StartUTC(m + 1)
<1>1. HoursPerMonth \in Nat \ {0} /\ tz \in Int
  BY CalendarTypes DEF SpendingTyped
<1>2. m * HoursPerMonth \in Int /\ (m + 1) * HoursPerMonth \in Int
  BY <1>1
<1>3. Month(t) = m <=> m * HoursPerMonth <= t + tz /\ t + tz < (m + 1) * HoursPerMonth
  BY <1>1, Quotient DEF Month, Local
<1> QED
  BY <1>1, <1>2, <1>3 DEF StartUTC

\* Every month from another one on is what lies after that one's start.
LEMMA MonthsSince ==
  ASSUME SpendingTyped, NEW t \in Int, NEW m \in Int
  PROVE  t >= StartUTC(m) <=> Month(t) >= m
<1>1. HoursPerMonth \in Nat \ {0} /\ tz \in Int /\ Month(t) \in Int
  BY CalendarTypes, LocalTypes DEF SpendingTyped
<1> DEFINE q == Month(t)
<1>2. q * HoursPerMonth <= t + tz /\ t + tz < (q + 1) * HoursPerMonth
  BY <1>1, Quotient DEF Month, Local
<1> HIDE DEF q
<1>3. CASE q >= m
  <2>1. q * HoursPerMonth >= m * HoursPerMonth
    BY <1>1, <1>3 DEF q
  <2> QED
    BY <1>1, <1>2, <1>3, <2>1 DEF StartUTC, q
<1>4. CASE q < m
  <2>1. (q + 1) * HoursPerMonth <= m * HoursPerMonth
    BY <1>1, <1>4 DEF q
  <2> QED
    BY <1>1, <1>2, <1>4, <2>1 DEF StartUTC, q
<1> QED
  BY <1>1, <1>3, <1>4 DEF q

\* The days of a month.
LEMMA MonthOfDay ==
  ASSUME SpendingTyped, NEW t \in Int
  PROVE  Day(t) \div DaysPerMonth = Month(t)
BY CalendarTypes, LocalTypes, NestedQuotient DEF Day, Month, HoursPerMonth

-----------------------------------------------------------------------------
\* Listings

\* The filter of a range of time, without others.
Ranged(mode, from, to) == [NoFilter EXCEPT !.muted = mode, !.from = from, !.to = to]

InRange(i, mode, from, to) ==
  /\ MutedWhere(i, mode)
  /\ from # Absent => rows[i].ts >= from
  /\ to # Absent => rows[i].ts <= to

LEMMA RangedNoFilter ==
  /\ NoFilter = Ranged("hide", Absent, Absent)
  /\ \A from, to : [NoFilter EXCEPT !.from = from, !.to = to] = Ranged("hide", from, to)
  /\ [NoFilter EXCEPT !.muted = "show"] = Ranged("show", Absent, Absent)
<1> DEFINE f == NoFilter
           D == DOMAIN NoFilter
<1>1. f.muted = "hide" /\ f.from = Absent /\ f.to = Absent
  BY DEF NoFilter
<1>2. f = [k \in D |-> f[k]]
  BY DEF NoFilter
<1> HIDE DEF f, D
<1>3. f = [f EXCEPT !.muted = "hide", !.from = Absent, !.to = Absent]
  BY <1>1, <1>2
<1>4. ASSUME NEW from, NEW to
      PROVE  [f EXCEPT !.from = from, !.to = to]
               = [f EXCEPT !.muted = "hide", !.from = from, !.to = to]
  BY <1>1, <1>2
<1>5. [f EXCEPT !.muted = "show"] = [f EXCEPT !.muted = "show", !.from = Absent, !.to = Absent]
  BY <1>1, <1>2
<1> QED
  BY <1>3, <1>4, <1>5 DEF Ranged, f

LEMMA Modal ==
  ASSUME NEW i
  PROVE  MutedWhere(i, "hide") = ~rows[i].muted /\ MutedWhere(i, "show") = TRUE
BY DEF MutedWhere

\* Without a label, the statement selects each transaction that passes once.
LEMMA Unlabelled ==
  ASSUME NEW f, f.label = Untagged
  PROVE  Listing(f) = {i \in Saved : buildListWhere(i, f)}
<1>1. ASSUME NEW i \in Listing(f) PROVE i \in Saved /\ buildListWhere(i, f)
  <2>1. PICK e \in Selected(f) : i = e[1]
    BY DEF Listing
  <2> QED
    BY <2>1 DEF Selected, Joined
<1>2. ASSUME NEW i \in Saved, buildListWhere(i, f) PROVE i \in Listing(f)
  <2> DEFINE e == <<i, Untagged>>
  <2>1. e \in Saved \X (TagNames \cup {Untagged}) /\ e[1] = i /\ e[2] = Untagged
    OBVIOUS
  <2> HIDE DEF e
  <2>2. e \in Selected(f)
    BY <1>2, <2>1 DEF Selected, Joined
  <2> QED
    BY <2>1, <2>2 DEF Listing
<1> QED
  BY <1>1, <1>2

\* With one, those that have a label of which it is a fragment.
LEMMA Labelled ==
  ASSUME SpendingTyped, NEW f, NEW n \in TagNames, f.label = n
  PROVE  Listing(f) = {i \in Saved : /\ \E l \in rows[i].labels : <<l, n>> \in Like
                                     /\ buildListWhere(i, f)}
<1>1. n # Untagged
  BY ColumnsAssumption
<1>2. ASSUME NEW i \in Listing(f)
      PROVE  /\ i \in Saved /\ buildListWhere(i, f)
             /\ \E l \in rows[i].labels : <<l, n>> \in Like
  <2>1. PICK e \in Selected(f) : i = e[1]
    BY DEF Listing
  <2>2. e \in Joined(f) /\ buildListWhere(i, f)
    BY <2>1 DEF Selected
  <2>3. i \in Saved /\ e[2] \in rows[i].labels /\ ILike(e[2], n)
    BY <2>1, <2>2, <1>1 DEF Joined
  <2> QED
    BY <2>2, <2>3 DEF ILike
<1>3. ASSUME NEW i \in Saved, buildListWhere(i, f), NEW l \in rows[i].labels, <<l, n>> \in Like
      PROVE  i \in Listing(f)
  <2>1. l \in TagNames /\ l # Untagged
    BY SavedRows, ColumnsAssumption
  <2> DEFINE e == <<i, l>>
  <2>2. e \in Saved \X (TagNames \cup {Untagged}) /\ e[1] = i /\ e[2] = l
    BY <2>1
  <2> HIDE DEF e
  <2>3. e \in Joined(f)
    BY <1>1, <1>3, <2>1, <2>2 DEF Joined, ILike
  <2>4. e \in Selected(f)
    BY <1>3, <2>2, <2>3 DEF Selected
  <2> QED
    BY <2>2, <2>4 DEF Listing
<1> QED
  BY <1>2, <1>3

LEMMA LikeOnly ==
  ASSUME NEW n \in TagNames, Unambiguous(n), NEW v \in TagNames \cup {Untagged}
  PROVE  ILike(v, n) <=> v = n
BY LikeAssumption, ColumnsAssumption DEF Unambiguous, ILike

LEMMA LabelOnly ==
  ASSUME SpendingTyped, NEW n \in TagNames, Unambiguous(n), NEW i \in Saved
  PROVE  (\E l \in rows[i].labels : <<l, n>> \in Like) <=> n \in rows[i].labels
<1>1. rows[i].labels \in SUBSET TagNames
  BY SavedRows
<1> QED
  BY <1>1, LikeAssumption DEF Unambiguous

\* The conditions of a filter that asks for a range ...
LEMMA RangeWhere ==
  ASSUME NEW mode, NEW from, NEW to, NEW i
  PROVE  buildListWhere(i, Ranged(mode, from, to)) <=> InRange(i, mode, from, to)
<1> DEFINE f == Ranged(mode, from, to)
<1>1. /\ f.muted = mode /\ f.from = from /\ f.to = to /\ f.weekday = Absent /\ f.hourFrom = Absent
      /\ f.hourTo = Absent /\ f.missing = {} /\ f.excludeLabels = {} /\ f.labelMissing = FALSE
      /\ \A c \in Dimensions : f.like[c] = Untagged /\ f.exclude[c] = {}
  BY DEF Ranged, NoFilter
<1> HIDE DEF f
<1>2. appendTaxonomyListWhere(i, f)
  BY <1>1 DEF appendTaxonomyListWhere
<1>3. buildListWhere(i, f) <=> InRange(i, mode, from, to)
  BY <1>1, <1>2 DEF buildListWhere, InRange
<1> QED
  BY <1>3 DEF f

\* ... and a label, whose join has a condition of its own,
LEMMA LabelWhere ==
  ASSUME NEW mode, NEW from, NEW to, NEW i, NEW n
  PROVE  LET f == [Ranged(mode, from, to) EXCEPT !.label = n]
         IN f.label = n /\ (buildListWhere(i, f) <=> InRange(i, mode, from, to))
<1> DEFINE f == [Ranged(mode, from, to) EXCEPT !.label = n]
<1>1. /\ f.muted = mode /\ f.from = from /\ f.to = to /\ f.weekday = Absent /\ f.hourFrom = Absent
      /\ f.hourTo = Absent /\ f.missing = {} /\ f.excludeLabels = {} /\ f.labelMissing = FALSE
      /\ \A c \in Dimensions : f.like[c] = Untagged /\ f.exclude[c] = {}
      /\ f.label = n
  BY DEF Ranged, NoFilter
<1> HIDE DEF f
<1>2. appendTaxonomyListWhere(i, f)
  BY <1>1 DEF appendTaxonomyListWhere
<1>3. buildListWhere(i, f) <=> InRange(i, mode, from, to)
  BY <1>1, <1>2 DEF buildListWhere, InRange
<1> QED
  BY <1>1, <1>3 DEF f

\* ... or transactions without labels,
LEMMA LabelMissingWhere ==
  ASSUME NEW mode, NEW from, NEW to, NEW i
  PROVE  LET f == [Ranged(mode, from, to) EXCEPT !.labelMissing = TRUE]
         IN /\ f.label = Untagged
            /\ buildListWhere(i, f) <=> InRange(i, mode, from, to) /\ rows[i].labels = {}
<1> DEFINE f == [Ranged(mode, from, to) EXCEPT !.labelMissing = TRUE]
<1>1. /\ f.muted = mode /\ f.from = from /\ f.to = to /\ f.weekday = Absent /\ f.hourFrom = Absent
      /\ f.hourTo = Absent /\ f.missing = {} /\ f.excludeLabels = {} /\ f.labelMissing = TRUE
      /\ \A c \in Dimensions : f.like[c] = Untagged /\ f.exclude[c] = {}
      /\ f.label = Untagged
  BY DEF Ranged, NoFilter
<1> HIDE DEF f
<1>2. appendTaxonomyListWhere(i, f) <=> rows[i].labels = {}
  BY <1>1 DEF appendTaxonomyListWhere
<1>3. buildListWhere(i, f) <=> InRange(i, mode, from, to) /\ rows[i].labels = {}
  BY <1>1, <1>2 DEF buildListWhere, InRange
<1> QED
  BY <1>1, <1>3 DEF f

\* ... or a value,
LEMMA LikeWhere ==
  ASSUME SpendingTyped, NEW mode, NEW from, NEW to, NEW i \in Saved,
         NEW c \in Dimensions, NEW n \in TagNames, Unambiguous(n)
  PROVE  LET f == [Ranged(mode, from, to) EXCEPT !.like[c] = n]
         IN /\ f.label = Untagged
            /\ buildListWhere(i, f) <=> InRange(i, mode, from, to) /\ rows[i].val[c] = n
<1> DEFINE f == [Ranged(mode, from, to) EXCEPT !.like[c] = n]
<1>1. /\ f.muted = mode /\ f.from = from /\ f.to = to /\ f.weekday = Absent /\ f.hourFrom = Absent
      /\ f.hourTo = Absent /\ f.missing = {} /\ f.excludeLabels = {} /\ f.labelMissing = FALSE
      /\ \A d \in Dimensions : f.like[d] = (IF d = c THEN n ELSE Untagged) /\ f.exclude[d] = {}
      /\ f.label = Untagged
  BY DEF Ranged, NoFilter
<1>2. n # Untagged /\ (ILike(rows[i].val[c], n) <=> rows[i].val[c] = n)
  BY ColumnsAssumption, SavedRows, LikeOnly
<1> HIDE DEF f
<1>3. appendTaxonomyListWhere(i, f) <=> rows[i].val[c] = n
  BY <1>2, <1>1 DEF appendTaxonomyListWhere
<1>4. buildListWhere(i, f) <=> InRange(i, mode, from, to) /\ rows[i].val[c] = n
  BY <1>1, <1>3 DEF buildListWhere, InRange
<1> QED
  BY <1>1, <1>4 DEF f

\* ... or its absence,
LEMMA MissingWhere ==
  ASSUME NEW mode, NEW from, NEW to, NEW i, NEW c \in Dimensions
  PROVE  LET f == [Ranged(mode, from, to) EXCEPT !.missing = {c}]
         IN /\ f.label = Untagged
            /\ buildListWhere(i, f) <=> InRange(i, mode, from, to) /\ rows[i].val[c] = Untagged
<1> DEFINE f == [Ranged(mode, from, to) EXCEPT !.missing = {c}]
<1>1. /\ f.muted = mode /\ f.from = from /\ f.to = to /\ f.weekday = Absent /\ f.hourFrom = Absent
      /\ f.hourTo = Absent /\ f.missing = {c} /\ f.excludeLabels = {} /\ f.labelMissing = FALSE
      /\ \A d \in Dimensions : f.like[d] = Untagged /\ f.exclude[d] = {}
      /\ f.label = Untagged
  BY DEF Ranged, NoFilter
<1> HIDE DEF f
<1>2. appendTaxonomyListWhere(i, f) <=> rows[i].val[c] = Untagged
  BY <1>1 DEF appendTaxonomyListWhere
<1>3. buildListWhere(i, f) <=> InRange(i, mode, from, to) /\ rows[i].val[c] = Untagged
  BY <1>1, <1>2 DEF buildListWhere, InRange
<1> QED
  BY <1>1, <1>3 DEF f

\* ... or any values but some,
LEMMA ExcludeWhere ==
  ASSUME NEW mode, NEW from, NEW to, NEW i, NEW c \in Dimensions, NEW N, N # {}
  PROVE  LET f == [Ranged(mode, from, to) EXCEPT !.exclude[c] = N]
         IN /\ f.label = Untagged
            /\ buildListWhere(i, f) <=>
                 InRange(i, mode, from, to) /\ rows[i].val[c] \notin N \cup {Untagged}
<1> DEFINE f == [Ranged(mode, from, to) EXCEPT !.exclude[c] = N]
<1>1. /\ f.muted = mode /\ f.from = from /\ f.to = to /\ f.weekday = Absent /\ f.hourFrom = Absent
      /\ f.hourTo = Absent /\ f.missing = {} /\ f.excludeLabels = {} /\ f.labelMissing = FALSE
      /\ \A d \in Dimensions : f.like[d] = Untagged /\ f.exclude[d] = (IF d = c THEN N ELSE {})
      /\ f.label = Untagged
  BY DEF Ranged, NoFilter
<1> HIDE DEF f
<1>2. appendTaxonomyListWhere(i, f) <=> rows[i].val[c] \notin N \cup {Untagged}
  BY <1>1 DEF appendTaxonomyListWhere
<1>3. buildListWhere(i, f) <=>
        InRange(i, mode, from, to) /\ rows[i].val[c] \notin N \cup {Untagged}
  BY <1>1, <1>2 DEF buildListWhere, InRange
<1> QED
  BY <1>1, <1>3 DEF f

\* ... or an hour of a weekday.
LEMMA CellWhere ==
  ASSUME SpendingTyped, NEW mode, NEW from, NEW to, NEW i \in Saved, NEW d \in Int, NEW h \in Int
  PROVE  LET f == [Ranged(mode, from, to) EXCEPT !.weekday = d, !.hourFrom = h, !.hourTo = h]
         IN /\ f.label = Untagged
            /\ buildListWhere(i, f) <=>
                 /\ InRange(i, mode, from, to)
                 /\ Weekday(rows[i].ts) = d /\ Hour(rows[i].ts) = h
<1> DEFINE f == [Ranged(mode, from, to) EXCEPT !.weekday = d, !.hourFrom = h, !.hourTo = h]
<1>1. /\ f.muted = mode /\ f.from = from /\ f.to = to /\ f.weekday = d /\ f.hourFrom = h
      /\ f.hourTo = h /\ f.missing = {} /\ f.excludeLabels = {} /\ f.labelMissing = FALSE
      /\ \A c \in Dimensions : f.like[c] = Untagged /\ f.exclude[c] = {}
      /\ f.label = Untagged
  BY DEF Ranged, NoFilter
<1>2. Hour(rows[i].ts) \in Int /\ d # Absent /\ h # Absent
  BY SavedRows, LocalTypes, NothingAssumption
<1> HIDE DEF f
<1>3. appendTaxonomyListWhere(i, f)
  BY <1>1 DEF appendTaxonomyListWhere
<1>4. buildListWhere(i, f) <=>
        /\ InRange(i, mode, from, to)
        /\ Weekday(rows[i].ts) = d /\ Hour(rows[i].ts) = h
  BY <1>2, <1>1, <1>3 DEF buildListWhere, InRange
<1> QED
  BY <1>1, <1>4 DEF f

-----------------------------------------------------------------------------
\* The slices of a chart open the listings they stand for

SliceKeys(c, S, T, key) ==
  /\ DOMAIN key = T
  /\ ByColumn(c, S) = GroupBy(key)
  /\ \A n \in Range(key) \ {Uncategorized} :
       n \in TagNames /\ Group(T, key, n) = {i \in S : rows[i].val[c] = n}
  /\ Uncategorized \notin loadFacetValues(c) =>
       /\ Uncategorized \in Range(key) =>
            Group(T, key, Uncategorized) = {i \in S : rows[i].val[c] = Untagged}
       /\ \A N : Groups(T, key, (Range(key) \ {Uncategorized}) \ N) =
                   {i \in S : rows[i].val[c] \notin N \cup {Untagged}}

\* The slices of a column are groups of transactions by their value in it.
LEMMA ColumnSlices ==
  ASSUME SpendingTyped, NEW S \in SUBSET Saved, NEW c \in Dimensions
  PROVE  \E T \in SUBSET Ids : \E key : SliceKeys(c, S, T, key)
<1>1. ASSUME NEW i \in S
      PROVE  /\ i \in Ids
             /\ rows[i].val[c] \in TagNames \cup {Untagged}
             /\ rows[i].val[c] # Untagged => rows[i].val[c] \in loadFacetValues(c)
  BY SavedRows DEF loadFacetValues
<1>2. CASE c \in Taxonomy
  <2> DEFINE key == [i \in S |-> Slice(i, c)]
  <2>1. /\ DOMAIN key = S
        /\ \A i \in S : key[i] = IF rows[i].val[c] = Untagged THEN Uncategorized ELSE rows[i].val[c]
    BY DEF Slice
  <2>2. S \in SUBSET Ids /\ ByColumn(c, S) = GroupBy(key)
    BY <1>1, <1>2 DEF ByColumn, ByTaxonomy
  <2> HIDE DEF key
  <2>3. \A n \in Range(key) \ {Uncategorized} :
          n \in TagNames /\ Group(S, key, n) = {i \in S : rows[i].val[c] = n}
    BY <1>1, <2>1, ColumnsAssumption DEF Group, Range
  <2>4. Uncategorized \notin loadFacetValues(c) =>
          Group(S, key, Uncategorized) = {i \in S : rows[i].val[c] = Untagged}
    BY <1>1, <2>1 DEF Group
  <2>5. ASSUME Uncategorized \notin loadFacetValues(c), NEW N
        PROVE  Groups(S, key, (Range(key) \ {Uncategorized}) \ N) =
                 {i \in S : rows[i].val[c] \notin N \cup {Untagged}}
    <3>1. ASSUME NEW i \in S
          PROVE  key[i] \in (Range(key) \ {Uncategorized}) \ N
                   <=> rows[i].val[c] \notin N \cup {Untagged}
      BY <1>1, <2>1, <2>5 DEF Range
    <3> QED
      BY <3>1 DEF Groups
  <2>6. SliceKeys(c, S, S, key)
    BY <2>1, <2>2, <2>3, <2>4, <2>5 DEF SliceKeys
  <2> QED
    BY <2>2, <2>6
<1>3. CASE c \notin Taxonomy
  <2> DEFINE T == {j \in S : rows[j].val[c] # Untagged}
             key == [i \in T |-> rows[i].val[c]]
  <2>1. DOMAIN key = T /\ \A i \in T : key[i] = rows[i].val[c]
    OBVIOUS
  <2>2. T \in SUBSET Ids /\ ByColumn(c, S) = GroupBy(key)
    BY <1>1, <1>3 DEF ByColumn, BySource
  <2>3. \A i : i \in T <=> i \in S /\ rows[i].val[c] # Untagged
    OBVIOUS
  <2> HIDE DEF key, T
  <2>4. \A n \in Range(key) \ {Uncategorized} :
          n \in TagNames /\ Group(T, key, n) = {i \in S : rows[i].val[c] = n}
    BY <1>1, <2>3, <2>1 DEF Group, Range
  <2>5. Uncategorized \notin loadFacetValues(c) => Uncategorized \notin Range(key)
    BY <1>1, <2>3, <2>1 DEF Range
  <2>6. ASSUME Uncategorized \notin loadFacetValues(c), NEW N
        PROVE  Groups(T, key, (Range(key) \ {Uncategorized}) \ N) =
                 {i \in S : rows[i].val[c] \notin N \cup {Untagged}}
    <3>1. ASSUME NEW i \in T
          PROVE  key[i] \in (Range(key) \ {Uncategorized}) \ N
                   <=> rows[i].val[c] \notin N \cup {Untagged}
      BY <1>1, <2>3, <2>1, <2>5, <2>6 DEF Range
    <3> QED
      BY <3>1, <2>3 DEF Groups
  <2>7. SliceKeys(c, S, T, key)
    BY <2>1, <2>2, <2>4, <2>5, <2>6 DEF SliceKeys
  <2> QED
    BY <2>2, <2>7
<1> QED
  BY <1>2, <1>3

LEMMA OpensTotal ==
  ASSUME NEW f, NEW L, Listing(f) = L
  PROVE  Opens(Total(L), f)
BY DEF Opens, queryTransactionTotals

LEMMA ColumnOpens ==
  ASSUME SpendingTyped, NEW from, NEW to, NEW S, S = {i \in Saved : InRange(i, "hide", from, to)},
         NEW c \in Dimensions
  PROVE  LET f == Ranged("hide", from, to)
             by == ByColumn(c, S)
             named == DOMAIN by \ {Uncategorized}
         IN /\ \A n \in named : Unambiguous(n) => Opens(by[n], [f EXCEPT !.like[c] = n])
            /\ Uncategorized \notin loadFacetValues(c) =>
                 /\ Uncategorized \in DOMAIN by =>
                      Opens(by[Uncategorized], [f EXCEPT !.missing = {c}])
                 /\ \A shown \in SUBSET named :
                      shown # {} => Opens(SumOf(Restrict(by, named \ shown)),
                                          [f EXCEPT !.exclude[c] = shown])
<1> DEFINE f == Ranged("hide", from, to)
           by == ByColumn(c, S)
           named == DOMAIN by \ {Uncategorized}
<1>1. PICK T \in SUBSET Ids : \E key : SliceKeys(c, S, T, key)
  <2>1. S \in SUBSET Saved
    OBVIOUS
  <2> QED
    BY <2>1, ColumnSlices
<1>2. PICK key : SliceKeys(c, S, T, key)
  BY <1>1
<1>3. /\ DOMAIN key = T
      /\ by = GroupBy(key)
      /\ \A n \in Range(key) \ {Uncategorized} :
           n \in TagNames /\ Group(T, key, n) = {i \in S : rows[i].val[c] = n}
      /\ Uncategorized \notin loadFacetValues(c) =>
           /\ Uncategorized \in Range(key) =>
                Group(T, key, Uncategorized) = {i \in S : rows[i].val[c] = Untagged}
           /\ \A N : Groups(T, key, (Range(key) \ {Uncategorized}) \ N) =
                       {i \in S : rows[i].val[c] \notin N \cup {Untagged}}
  BY <1>2 DEF SliceKeys
<1>4. /\ DOMAIN by = Range(key)
      /\ \A k \in DOMAIN by : by[k] = Total(Group(T, key, k))
      /\ \A K \in SUBSET DOMAIN by : SumOf(Restrict(by, K)) = Total(Groups(T, key, K))
  <2>1. DOMAIN key = T
    BY <1>3
  <2> DEFINE g == GroupBy(key)
  <2>2. /\ DOMAIN g = Range(key)
        /\ \A k \in DOMAIN g : g[k] = Total(Group(T, key, k))
        /\ \A K \in SUBSET DOMAIN g : SumOf(Restrict(g, K)) = Total(Groups(T, key, K))
    BY <2>1, GroupTotals
  <2>3. by = g
    BY <1>3
  <2> HIDE DEF by, g
  <2> QED
    BY <2>2, <2>3
<1> HIDE DEF by
<1>5. ASSUME NEW n \in named, Unambiguous(n)
      PROVE  Opens(by[n], [f EXCEPT !.like[c] = n])
  <2>1. n \in TagNames /\ by[n] = Total({i \in S : rows[i].val[c] = n})
    <3>1. n \in Range(key) \ {Uncategorized} /\ by[n] = Total(Group(T, key, n))
      BY <1>4
    <3>2. n \in TagNames /\ Group(T, key, n) = {i \in S : rows[i].val[c] = n}
      BY <1>3, <3>1
    <3> QED
      BY <3>1, <3>2
  <2> DEFINE g == [f EXCEPT !.like[c] = n]
  <2>2. ASSUME NEW i \in Saved
        PROVE  buildListWhere(i, g) <=> InRange(i, "hide", from, to) /\ rows[i].val[c] = n
    BY <1>5, <2>1, LikeWhere
  <2>3. g.label = Untagged
    BY DEF Ranged, NoFilter
  <2> HIDE DEF g
  <2>4. Listing(g) = {i \in S : rows[i].val[c] = n}
    BY <2>2, <2>3, Unlabelled
  <2> QED
    BY <2>1, <2>4, OpensTotal DEF g
<1>6. ASSUME Uncategorized \notin loadFacetValues(c), Uncategorized \in DOMAIN by
      PROVE  Opens(by[Uncategorized], [f EXCEPT !.missing = {c}])
  <2>1. by[Uncategorized] = Total({i \in S : rows[i].val[c] = Untagged})
    BY <1>3, <1>4, <1>6
  <2> DEFINE g == [f EXCEPT !.missing = {c}]
  <2>2. /\ \A i : buildListWhere(i, g) <=> InRange(i, "hide", from, to) /\ rows[i].val[c] = Untagged
        /\ g.label = Untagged
    BY MissingWhere
  <2> HIDE DEF g
  <2>3. Listing(g) = {i \in S : rows[i].val[c] = Untagged}
    BY <2>2, Unlabelled
  <2> QED
    BY <2>1, <2>3, OpensTotal DEF g
<1>7. ASSUME Uncategorized \notin loadFacetValues(c), NEW shown \in SUBSET named, shown # {}
      PROVE  Opens(SumOf(Restrict(by, named \ shown)), [f EXCEPT !.exclude[c] = shown])
  <2>1. SumOf(Restrict(by, named \ shown)) = Total({i \in S : rows[i].val[c] \notin shown \cup {Untagged}})
    <3>1. SumOf(Restrict(by, named \ shown)) = Total(Groups(T, key, named \ shown))
      BY <1>4
    <3>2. Groups(T, key, named \ shown) = {i \in S : rows[i].val[c] \notin shown \cup {Untagged}}
      <4>1. named \ shown = (Range(key) \ {Uncategorized}) \ shown
        BY <1>4
      <4> QED
        BY <1>3, <1>7, <4>1
    <3> QED
      BY <3>1, <3>2
  <2> DEFINE g == [f EXCEPT !.exclude[c] = shown]
  <2>2. /\ \A i : buildListWhere(i, g) <=>
                    InRange(i, "hide", from, to) /\ rows[i].val[c] \notin shown \cup {Untagged}
        /\ g.label = Untagged
    <3>1. ASSUME NEW i
          PROVE  /\ g.label = Untagged
                 /\ buildListWhere(i, g) <=>
                      InRange(i, "hide", from, to) /\ rows[i].val[c] \notin shown \cup {Untagged}
      BY <1>7, ExcludeWhere
    <3> QED
      BY <3>1
  <2> HIDE DEF g
  <2>3. Listing(g) = {i \in S : rows[i].val[c] \notin shown \cup {Untagged}}
    BY <2>2, Unlabelled
  <2> QED
    BY <2>1, <2>3, OpensTotal DEF g
<1> QED
  BY <1>5, <1>6, <1>7 DEF by

LEMMA LabelOpens ==
  ASSUME SpendingTyped, NEW from, NEW to, NEW S, S = {i \in Saved : InRange(i, "hide", from, to)}
  PROVE  LET f == Ranged("hide", from, to)
             by == ByLabel(S)
         IN /\ \A n \in DOMAIN by \ {Uncategorized} :
                 Unambiguous(n) => Opens(by[n], [f EXCEPT !.label = n])
            /\ Uncategorized \in DOMAIN by \ DOMAIN LabelCounts =>
                 Opens(by[Uncategorized], [f EXCEPT !.labelMissing = TRUE])
<1> DEFINE f == Ranged("hide", from, to)
           by == ByLabel(S)
<1>1. \A n \in DOMAIN by : /\ \E i \in S : n \in LabelSlices(i)
                           /\ by[n] = Total({i \in S : n \in LabelSlices(i)})
  BY DEF ByLabel, AllLabels, Restrict
<1>2. \A i \in S : /\ rows[i].labels \in SUBSET TagNames
                   /\ LabelSlices(i) = IF rows[i].labels = {} THEN {Uncategorized} ELSE rows[i].labels
  BY SavedRows DEF LabelSlices
<1> HIDE DEF by
<1>3. ASSUME NEW n \in DOMAIN by \ {Uncategorized}, Unambiguous(n)
      PROVE  Opens(by[n], [f EXCEPT !.label = n])
  <2>1. n \in TagNames
    <3>1. PICK i \in S : n \in LabelSlices(i)
      BY <1>1
    <3>2. n \in rows[i].labels
      BY <1>2, <3>1
    <3> QED
      BY <1>2, <3>1, <3>2
  <2>2. {i \in S : n \in LabelSlices(i)} = {i \in S : n \in rows[i].labels}
    BY <1>2
  <2> DEFINE g == [f EXCEPT !.label = n]
  <2>3. /\ \A i : buildListWhere(i, g) <=> InRange(i, "hide", from, to)
        /\ g.label = n
    <3>1. ASSUME NEW i
          PROVE  g.label = n /\ (buildListWhere(i, g) <=> InRange(i, "hide", from, to))
      BY LabelWhere
    <3> QED
      BY <3>1
  <2> HIDE DEF g
  <2>4. Listing(g) = {i \in Saved : /\ \E l \in rows[i].labels : <<l, n>> \in Like
                                    /\ buildListWhere(i, g)}
    BY <2>1, <2>3, Labelled
  <2>5. Listing(g) = {i \in S : n \in rows[i].labels}
    BY <1>3, <2>1, <2>3, <2>4, LabelOnly
  <2> QED
    BY <1>1, <2>2, <2>5, OpensTotal DEF g
<1>4. ASSUME Uncategorized \in DOMAIN by \ DOMAIN LabelCounts
      PROVE  Opens(by[Uncategorized], [f EXCEPT !.labelMissing = TRUE])
  <2>1. \A i \in S : Uncategorized \notin rows[i].labels
    BY <1>4 DEF LabelCounts
  <2>2. {i \in S : Uncategorized \in LabelSlices(i)} = {i \in S : rows[i].labels = {}}
    BY <1>2, <2>1
  <2> DEFINE g == [f EXCEPT !.labelMissing = TRUE]
  <2>3. /\ \A i : buildListWhere(i, g) <=> InRange(i, "hide", from, to) /\ rows[i].labels = {}
        /\ g.label = Untagged
    BY LabelMissingWhere
  <2> HIDE DEF g
  <2>4. Listing(g) = {i \in S : rows[i].labels = {}}
    BY <2>3, Unlabelled
  <2>5. by[Uncategorized] = Total({i \in S : Uncategorized \in LabelSlices(i)})
    BY <1>1, <1>4
  <2> QED
    BY <2>2, <2>4, <2>5, OpensTotal DEF g
<1> QED
  BY <1>3, <1>4 DEF by

LEMMA ChartsOpen ==
  ASSUME SpendingTyped, NEW from, NEW to, NEW S, S = {i \in Saved : InRange(i, "hide", from, to)}
  PROVE  ChartOpens(S, Ranged("hide", from, to))
BY ColumnOpens, LabelOpens DEF ChartOpens

LEMMA CellsOpen ==
  ASSUME SpendingTyped, NEW from \in Int, NEW to \in Int
  PROVE  LET cells == GetHeatmap(from, to, Absent).ByWeekdayHour
             f == Ranged("hide", from, to)
         IN \A k \in DOMAIN cells :
              Opens(cells[k], [f EXCEPT !.weekday = k[1], !.hourFrom = k[2], !.hourTo = k[2]])
<1> DEFINE S == buildHeatmapWhere(from, to)
           key == [i \in S |-> <<Weekday(rows[i].ts), Hour(rows[i].ts)>>]
           cells == GetHeatmap(from, to, Absent).ByWeekdayHour
           f == Ranged("hide", from, to)
<1>1. cells = GroupBy(key)
  BY DEF GetHeatmap, spendingHeatmapReadModel
<1>2. S \in SUBSET Saved /\ \A i \in Saved : i \in S <=> InRange(i, "hide", from, to)
  BY Modal, NothingAssumption DEF buildHeatmapWhere, InRange, Unmuted
<1>3. S \in SUBSET Ids
  BY <1>2, SavedRows
<1>4. DOMAIN key = S /\ \A i \in S : key[i] = <<Weekday(rows[i].ts), Hour(rows[i].ts)>>
  OBVIOUS
<1> HIDE DEF S, key, cells
<1>5. DOMAIN cells = Range(key) /\ \A k \in DOMAIN cells : cells[k] = Total(Group(S, key, k))
  BY <1>1, <1>3, <1>4, GroupTotals
<1>6. ASSUME NEW k \in DOMAIN cells
      PROVE  Opens(cells[k], [f EXCEPT !.weekday = k[1], !.hourFrom = k[2], !.hourTo = k[2]])
  <2>1. PICK j \in S : k = <<Weekday(rows[j].ts), Hour(rows[j].ts)>>
    BY <1>4, <1>5 DEF Range
  <2>2. k[1] \in Int /\ k[2] \in Int
    BY <2>1, <1>2, SavedRows, LocalTypes
  <2>3. \A i \in S : key[i] = k <=> Weekday(rows[i].ts) = k[1] /\ Hour(rows[i].ts) = k[2]
    BY <1>4, <2>1
  <2> DEFINE d == k[1]
             h == k[2]
             g == [f EXCEPT !.weekday = d, !.hourFrom = h, !.hourTo = h]
  <2>4. g.label = Untagged
    BY DEF Ranged, NoFilter
  <2>5. d \in Int /\ h \in Int
    BY <2>2
  <2> HIDE DEF d, h
  <2>6. ASSUME NEW i \in Saved
        PROVE  buildListWhere(i, g) <=>
                 /\ InRange(i, "hide", from, to)
                 /\ Weekday(rows[i].ts) = d /\ Hour(rows[i].ts) = h
    BY <2>5, CellWhere
  <2> HIDE DEF g
  <2>7. Listing(g) = {i \in Saved : buildListWhere(i, g)}
    BY <2>4, Unlabelled
  <2>8. Listing(g) = Group(S, key, k)
    BY <1>2, <2>3, <2>6, <2>7 DEF Group, d, h
  <2> QED
    BY <1>5, <2>8, OpensTotal DEF g, d, h
<1> QED
  BY <1>6 DEF cells

LEMMA FacetsCount ==
  ASSUME SpendingTyped
  PROVE  /\ \A c \in Dimensions : \A n \in loadFacetValues(c) :
              Unambiguous(n) => loadFacetCounts(c)[n] =
                queryTransactionTotals([NoFilter EXCEPT !.muted = "show", !.like[c] = n]).total
         /\ \A n \in DOMAIN LabelCounts :
              Unambiguous(n) => LabelCounts[n] =
                queryTransactionTotals([NoFilter EXCEPT !.muted = "show", !.label = n]).total
<1> DEFINE f == Ranged("show", Absent, Absent)
<1>1. \A i : InRange(i, "show", Absent, Absent)
  BY Modal DEF InRange
<1>2. ASSUME NEW c \in Dimensions, NEW n \in loadFacetValues(c), Unambiguous(n)
      PROVE  loadFacetCounts(c)[n] =
               queryTransactionTotals([NoFilter EXCEPT !.muted = "show", !.like[c] = n]).total
  <2>1. n \in TagNames
    BY SavedRows DEF loadFacetValues
  <2> DEFINE g == [f EXCEPT !.like[c] = n]
  <2>2. g.label = Untagged /\ g = [NoFilter EXCEPT !.muted = "show", !.like[c] = n]
    <3>1. [NoFilter EXCEPT !.muted = "show", !.like[c] = n]
            = [[NoFilter EXCEPT !.muted = "show"] EXCEPT !.like[c] = n]
      OBVIOUS
    <3>2. g.label = Untagged
      BY DEF Ranged, NoFilter
    <3> QED
      BY <3>1, <3>2, RangedNoFilter
  <2>3. ASSUME NEW i \in Saved
        PROVE  buildListWhere(i, g) <=> rows[i].val[c] = n
    <3>1. buildListWhere(i, g) <=> InRange(i, "show", Absent, Absent) /\ rows[i].val[c] = n
      BY <1>2, <2>1, LikeWhere
    <3> QED
      BY <1>1, <3>1
  <2> HIDE DEF g
  <2>4. Listing(g) = {i \in Saved : rows[i].val[c] = n}
    BY <2>2, <2>3, Unlabelled
  <2> QED
    BY <2>2, <2>4 DEF loadFacetCounts, queryTransactionTotals
<1>3. ASSUME NEW n \in DOMAIN LabelCounts, Unambiguous(n)
      PROVE  LabelCounts[n] =
               queryTransactionTotals([NoFilter EXCEPT !.muted = "show", !.label = n]).total
  <2>1. n \in TagNames
    BY SavedRows DEF LabelCounts
  <2> DEFINE g == [f EXCEPT !.label = n]
  <2>2. g.label = n /\ g = [NoFilter EXCEPT !.muted = "show", !.label = n]
    <3>1. [NoFilter EXCEPT !.muted = "show", !.label = n]
            = [[NoFilter EXCEPT !.muted = "show"] EXCEPT !.label = n]
      OBVIOUS
    <3>2. g.label = n
      BY DEF Ranged, NoFilter
    <3> QED
      BY <3>1, <3>2, RangedNoFilter
  <2>3. \A i : buildListWhere(i, g)
    <3>1. ASSUME NEW i
          PROVE  buildListWhere(i, g) <=> InRange(i, "show", Absent, Absent)
      BY LabelWhere
    <3> QED
      BY <1>1, <3>1
  <2> HIDE DEF g
  <2>4. Listing(g) = {i \in Saved : /\ \E l \in rows[i].labels : <<l, n>> \in Like
                                    /\ buildListWhere(i, g)}
    <3>1. g.label = n
      BY <2>2
    <3> QED
      BY <2>1, <3>1, Labelled
  <2>5. Listing(g) = {i \in Saved : n \in rows[i].labels}
    BY <1>3, <2>1, <2>3, <2>4, LabelOnly
  <2> QED
    BY <2>2, <2>5 DEF LabelCounts, queryTransactionTotals
<1> QED
  BY <1>2, <1>3

LEMMA SlicesOpenHere ==
  ASSUME SpendingTyped
  PROVE  SlicesOpen
<1> DEFINE w == dashboardMonthBounds(now)
           start == w.startUTC
           end == w.endUTC
           month == [NoFilter EXCEPT !.from = start, !.to = end - 1]
<1>1. start \in Int /\ end \in Int
  <2>1. now \in Int
    BY DEF SpendingTyped
  <2>2. Month(now) \in Int /\ Month(now) + 1 \in Int
    BY <2>1, LocalTypes
  <2> QED
    BY <2>1, <2>2, MonthBounds DEF dashboardMonthBounds
<1> HIDE DEF w, start, end
<1>2. month = Ranged("hide", start, end - 1)
  BY RangedNoFilter
<1>3. ChartOpens(Unmuted, NoFilter)
  <2>1. Unmuted = {i \in Saved : InRange(i, "hide", Absent, Absent)}
    BY Modal DEF Unmuted, InRange
  <2> QED
    BY <2>1, ChartsOpen, RangedNoFilter
<1>4. ChartOpens(Between(start, end), month)
  <2>1. \A i \in Saved : rows[i].ts \in Int
    BY SavedRows
  <2>2. start # Absent /\ end - 1 # Absent
    BY <1>1, NothingAssumption
  <2>3. ASSUME NEW i \in Saved
        PROVE  i \in Between(start, end) <=> InRange(i, "hide", start, end - 1)
    <3>1. MutedWhere(i, "hide") <=> ~rows[i].muted
      BY Modal
    <3>2. rows[i].ts < end <=> rows[i].ts <= end - 1
      BY <1>1, <2>1
    <3> QED
      BY <2>2, <3>1, <3>2 DEF Unmuted, Between, InRange
  <2>4. Between(start, end) = {i \in Saved : InRange(i, "hide", start, end - 1)}
    BY <2>3 DEF Between, Unmuted
  <2> QED
    BY <2>4, <1>2, ChartsOpen
<1>5. LET cells == GetHeatmap(month.from, month.to, Absent).ByWeekdayHour
      IN \A k \in DOMAIN cells :
           Opens(cells[k], [month EXCEPT !.weekday = k[1], !.hourFrom = k[2], !.hourTo = k[2]])
  <2>1. month.from = start /\ month.to = end - 1 /\ end - 1 \in Int
    BY <1>1 DEF NoFilter
  <2> HIDE DEF month
  <2> QED
    BY <1>1, <1>2, <2>1, CellsOpen
<1> QED
  BY <1>3, <1>4, <1>5, FacetsCount DEF SlicesOpen, w, start, end

\* What the dashboard shows is what opens when it is clicked, at any time, in any
\* time zone, and whatever is stored.
THEOREM Slices == SpendingSpec => []SlicesOpen
BY SpendingTypes, SlicesOpenHere, PTL

-----------------------------------------------------------------------------
\* The pages of a listing

LEMMA Positions ==
  ASSUME SpendingTyped, NEW L \in SUBSET Saved,
         \A i, j \in L : rows[i].ts = rows[j].ts => i = j
  PROVE  /\ \A i \in L : Position(i, L) \in 1 .. MaxInt
         /\ \A i, j \in L : Position(i, L) = Position(j, L) => i = j
<1> DEFINE From(i) == {k \in L : rows[k].ts >= rows[i].ts}
<1>1. IsFiniteSet(L) /\ \A i \in L : rows[i].ts \in Int
  <2>1. L \in SUBSET Ids
    BY SavedRows
  <2> QED
    BY <2>1, IdsAssumption, FS_Subset, SavedRows
<1>2. Cardinality(L) <= MaxInt /\ Cardinality(L) \in Nat /\ MaxInt \in Nat
  <2>1. L \in SUBSET Ids
    BY SavedRows
  <2>2. Cardinality(L) <= Cardinality(Ids) /\ Cardinality(Ids) \in Nat
    BY <2>1, IdsAssumption, FS_Subset, FS_CardinalityType
  <2> QED
    BY <2>2, <1>1, IdsAssumption, CalendarAssumption, FS_CardinalityType
<1>3. ASSUME NEW i \in L
      PROVE  /\ From(i) \in SUBSET L /\ IsFiniteSet(From(i)) /\ i \in From(i)
             /\ Cardinality(From(i)) \in Nat /\ Cardinality(From(i)) <= Cardinality(L)
             /\ Cardinality(From(i)) # 0
  <2>1. From(i) \in SUBSET L /\ i \in From(i)
    BY <1>1
  <2> HIDE DEF From
  <2> QED
    BY <2>1, <1>1, FS_Subset, FS_CardinalityType, FS_EmptySet
<1>4. ASSUME NEW i \in L PROVE Position(i, L) \in 1 .. MaxInt
  BY <1>2, <1>3 DEF Position
<1>5. ASSUME NEW i \in L, NEW j \in L, rows[i].ts > rows[j].ts
      PROVE  Position(i, L) # Position(j, L)
  <2>1. From(i) \in SUBSET From(j) /\ j \notin From(i)
    BY <1>1, <1>5
  <2>2. From(i) # From(j)
    BY <2>1, <1>3
  <2>3. Cardinality(From(i)) # Cardinality(From(j))
    <3> HIDE DEF From
    <3> QED
      BY <1>3, <2>1, <2>2, FS_Subset
  <2> QED
    BY <2>3 DEF Position
<1>6. ASSUME NEW i \in L, NEW j \in L, i # j PROVE Position(i, L) # Position(j, L)
  <2>1. rows[i].ts > rows[j].ts \/ rows[j].ts > rows[i].ts
    BY <1>1, <1>6
  <2> QED
    BY <2>1, <1>5
<1> QED
  BY <1>4, <1>6

\* A page beyond the largest offset is refused, the others start where they should.
LEMMA OffsetOfPage ==
  ASSUME NEW n \in Nat \ {0}, NEW size \in Nat \ {0}
  PROVE  /\ (n - 1) * size \in Nat
         /\ transactionOffset(n, size) = Absent <=> (n - 1) * size > MaxInt
         /\ transactionOffset(n, size) # Absent => transactionOffset(n, size) = (n - 1) * size
<1>1. MaxInt \in Nat
  BY CalendarAssumption
<1> DEFINE q == MaxInt \div size
<1>2. q \in Int /\ q * size <= MaxInt /\ MaxInt < (q + 1) * size
  BY <1>1, Quotient, QuotientType
<1>3. (n - 1) * size \in Nat
  OBVIOUS
<1> HIDE DEF q
<1>4. n - 1 > q => (n - 1) * size > MaxInt
  <2>1. n - 1 > q => (n - 1) * size >= (q + 1) * size
    BY <1>2
  <2> QED
    BY <1>1, <1>2, <1>3, <2>1
<1>5. ~(n - 1 > q) => (n - 1) * size <= MaxInt
  <2>1. ~(n - 1 > q) => (n - 1) * size <= q * size
    BY <1>2
  <2> QED
    BY <1>1, <1>2, <1>3, <2>1
<1>6. (n - 1) * size # Absent
  BY <1>3, NothingAssumption
<1>7. transactionOffset(n, size) = IF n - 1 > q THEN Absent ELSE (n - 1) * size
  BY DEF transactionOffset, q
<1> QED
  BY <1>1, <1>3, <1>4, <1>5, <1>6, <1>7

LEMMA ListingSaved ==
  ASSUME SpendingTyped, NEW f
  PROVE  /\ Listing(f) \in SUBSET Saved
         /\ Listing(f) \in SUBSET Ids
         /\ Cardinality(Listing(f)) \in Nat
         /\ Total(Listing(f)) \in Int
<1>1. Listing(f) \in SUBSET Saved
  BY DEF Listing, Selected, Joined
<1>2. Listing(f) \in SUBSET Ids
  BY <1>1, SavedRows
<1> QED
  BY <1>1, <1>2, TotalInt, FS_CardinalityType

LEMMA PagesCoverHere ==
  ASSUME SpendingTyped
  PROVE  PagesCover
<1> SUFFICES ASSUME NEW l \in TagNames \cup {Untagged}, NEW mode \in {"hide", "show"},
                    NEW size \in 1 .. MaxInt
             PROVE  LET f == [NoFilter EXCEPT !.label = l, !.muted = mode]
                        answer == [n \in 1 .. MaxInt + 2 |-> ListTransactions(f, n, size)]
                        pages == {n \in DOMAIN answer : answer[n] # Absent}
                    IN (\A i, j \in Listing(f) : rows[i].ts = rows[j].ts => i = j) =>
                         /\ \A m, n \in pages :
                              m # n => answer[m].transactions \cap answer[n].transactions = {}
                         /\ UNION {answer[n].transactions : n \in pages} = Listing(f)
                         /\ \A n \in pages :
                              /\ Cardinality(answer[n].transactions) <= size
                              /\ answer[n].total = Cardinality(Listing(f))
                              /\ answer[n].total_amount = Total(Listing(f))
                         /\ \A n \in DOMAIN answer : (n - 1) * size > MaxInt <=> n \notin pages
  BY DEF PagesCover
<1> DEFINE f == [NoFilter EXCEPT !.label = l, !.muted = mode]
           answer == [n \in 1 .. MaxInt + 2 |-> ListTransactions(f, n, size)]
           pages == {n \in DOMAIN answer : answer[n] # Absent}
           L == Listing(f)
<1> SUFFICES ASSUME \A i, j \in L : rows[i].ts = rows[j].ts => i = j
             PROVE  /\ \A m, n \in pages :
                         m # n => answer[m].transactions \cap answer[n].transactions = {}
                    /\ UNION {answer[n].transactions : n \in pages} = L
                    /\ \A n \in pages :
                         /\ Cardinality(answer[n].transactions) <= size
                         /\ answer[n].total = Cardinality(L)
                         /\ answer[n].total_amount = Total(L)
                    /\ \A n \in DOMAIN answer : (n - 1) * size > MaxInt <=> n \notin pages
  OBVIOUS
<1>1. MaxInt \in Nat /\ size \in Nat \ {0}
  BY CalendarAssumption
<1>2. /\ L \in SUBSET Saved /\ L \in SUBSET Ids
      /\ Cardinality(L) \in Nat /\ Total(L) \in Int
  BY ListingSaved
<1> DEFINE pos(i) == Position(i, L)
           Shown(n) == {i \in L : pos(i) > (n - 1) * size /\ pos(i) <= (n - 1) * size + size}
<1>3. /\ \A i \in L : pos(i) \in 1 .. MaxInt
      /\ \A i, j \in L : pos(i) = pos(j) => i = j
  <2> HIDE DEF L
  <2> QED
    BY <1>2, Positions
<1>4. ASSUME NEW n \in 1 .. MaxInt + 2
      PROVE  /\ (n - 1) * size \in Nat
             /\ (n - 1) * size > MaxInt => answer[n] = Absent
             /\ ~((n - 1) * size > MaxInt) =>
                  /\ answer[n] # Absent
                  /\ answer[n] = [transactions |-> Shown(n), total |-> Cardinality(L),
                                  total_amount |-> Total(L)]
  <2>1. n \in Nat \ {0}
    BY <1>1
  <2>2. /\ (n - 1) * size \in Nat
        /\ transactionOffset(n, size) = Absent <=> (n - 1) * size > MaxInt
        /\ transactionOffset(n, size) # Absent => transactionOffset(n, size) = (n - 1) * size
    BY <1>1, <2>1, OffsetOfPage
  <2>3. answer[n] = IF transactionOffset(n, size) = Absent THEN Absent
                    ELSE [transactions |-> queryTransactions(f, n, size),
                          total |-> Cardinality(L), total_amount |-> Total(L)]
    BY <2>1 DEF ListTransactions, queryTransactionTotals
  <2>4. transactionOffset(n, size) # Absent => queryTransactions(f, n, size) = Shown(n)
    BY <2>2 DEF queryTransactions
  <2>5. [transactions |-> Shown(n), total |-> Cardinality(L), total_amount |-> Total(L)] \in Page
    BY <1>2 DEF Page
  <2> HIDE DEF answer, Shown, f, L
  <2> QED
    BY <2>2, <2>3, <2>4, <2>5, NothingAssumption
<1> HIDE DEF f, L
<1>5. /\ DOMAIN answer = 1 .. MaxInt + 2
      /\ \A n \in pages : n \in 1 .. MaxInt + 2 /\ answer[n] # Absent
      /\ \A n \in 1 .. MaxInt + 2 : answer[n] # Absent => n \in pages
  OBVIOUS
<1> HIDE DEF answer, pages
<1>6. \A n \in 1 .. MaxInt + 2 : n \in pages <=> ~((n - 1) * size > MaxInt)
  BY <1>4, <1>5
<1>7. \A n \in pages : /\ n \in 1 .. MaxInt + 2
                       /\ answer[n].transactions = Shown(n)
                       /\ answer[n].total = Cardinality(L)
                       /\ answer[n].total_amount = Total(L)
  BY <1>4, <1>5, <1>6
<1>8. ASSUME NEW m \in 1 .. MaxInt + 2, NEW n \in 1 .. MaxInt + 2, m < n
      PROVE  Shown(m) \cap Shown(n) = {}
  <2>1. (m - 1) * size + size <= (n - 1) * size
    <3>1. (m - 1) * size + size = m * size
      BY <1>1
    <3>2. m * size <= (n - 1) * size
      BY <1>1, <1>8
    <3> QED
      BY <3>1, <3>2
  <2>2. (m - 1) * size \in Nat /\ (n - 1) * size \in Nat
    BY <1>4
  <2> HIDE DEF pos
  <2> QED
    BY <1>1, <1>3, <2>1, <2>2
<1>9. \A m, n \in pages : m # n => answer[m].transactions \cap answer[n].transactions = {}
  <2> SUFFICES ASSUME NEW m \in pages, NEW n \in pages, m # n
               PROVE  answer[m].transactions \cap answer[n].transactions = {}
    OBVIOUS
  <2>1. m \in 1 .. MaxInt + 2 /\ n \in 1 .. MaxInt + 2 /\ (m < n \/ n < m)
    BY <1>1, <1>7
  <2>2. Shown(m) \cap Shown(n) = {}
    <3> HIDE DEF Shown
    <3>1. CASE m < n
      BY <3>1, <2>1, <1>8
    <3>2. CASE n < m
      <4>1. Shown(n) \cap Shown(m) = {}
        BY <3>2, <2>1, <1>8
      <4> QED
        BY <4>1
    <3> QED
      BY <2>1, <3>1, <3>2
  <2> HIDE DEF Shown
  <2> QED
    BY <2>2, <1>7
<1>10. ASSUME NEW i \in L PROVE \E n \in pages : i \in Shown(n)
  <2> DEFINE q == (pos(i) - 1) \div size
  <2>1. pos(i) \in 1 .. MaxInt /\ pos(i) - 1 \in Nat
    BY <1>1, <1>3
  <2> HIDE DEF pos
  <2>2. q \in Int /\ q * size <= pos(i) - 1 /\ pos(i) - 1 < (q + 1) * size
    BY <1>1, <2>1, Quotient, QuotientType
  <2> HIDE DEF q
  <2>3. q >= 0
    <3>1. q + 1 > 0
      <4>1. SUFFICES ASSUME q + 1 <= 0 PROVE FALSE
        BY <2>2
      <4>2. (q + 1) * size <= 0
        BY <1>1, <2>2, <4>1
      <4> QED
        BY <1>1, <2>1, <2>2, <4>2
    <3> QED
      BY <2>2, <3>1
  <2>4. q <= q * size
    BY <1>1, <2>2, <2>3
  <2>5. q + 1 \in 1 .. MaxInt + 2 /\ q * size <= MaxInt
    BY <1>1, <2>1, <2>2, <2>3, <2>4
  <2>6. ((q + 1) - 1) * size = q * size /\ (q + 1) * size = q * size + size
    BY <1>1, <2>2
  <2>7. q + 1 \in pages
    BY <1>1, <1>6, <2>2, <2>5, <2>6
  <2>8. pos(i) > q * size /\ pos(i) <= q * size + size
    BY <1>1, <2>1, <2>2, <2>6
  <2>9. i \in Shown(q + 1)
    BY <2>6, <2>8
  <2> QED
    BY <2>7, <2>9
<1>11. ASSUME NEW n \in 1 .. MaxInt + 2 PROVE Cardinality(Shown(n)) <= size
  <2> DEFINE a == (n - 1) * size
             T == (a + 1) .. (a + size)
             g == [i \in Shown(n) |-> pos(i)]
  <2>1. a \in Nat
    BY <1>4
  <2>2. g \in [Shown(n) -> T]
    <3>1. \A i \in Shown(n) : pos(i) \in Int /\ pos(i) > a /\ pos(i) <= a + size
      BY <1>3
    <3> HIDE DEF Shown, pos, a
    <3> QED
      BY <1>1, <2>1, <3>1
  <2>3. \A i, j \in Shown(n) : g[i] = g[j] => i = j
    BY <1>3
  <2>4. IsFiniteSet(T) /\ Cardinality(T) = size
    <3> HIDE DEF a
    <3>1. a + 1 \in Int /\ a + size \in Int /\ ~(a + 1 > a + size) /\ (a + size) - (a + 1) + 1 = size
      BY <1>1, <2>1
    <3> QED
      BY <3>1, FS_Interval
  <2>5. IsFiniteSet(Shown(n)) /\ Cardinality(Shown(n)) \in Nat
    <3>1. Shown(n) \in SUBSET Ids
      BY <1>2
    <3> HIDE DEF Shown
    <3> QED
      BY <3>1, TotalInt, FS_CardinalityType
  <2> HIDE DEF Shown, T, g
  <2>6. ~(Cardinality(T) < Cardinality(Shown(n)))
    BY <2>2, <2>3, <2>4, <2>5, FS_PigeonHole
  <2> QED
    BY <1>1, <2>4, <2>5, <2>6
<1>12. UNION {answer[n].transactions : n \in pages} = L
  <2>1. \A n \in pages : answer[n].transactions \in SUBSET L
    BY <1>7
  <2> HIDE DEF Shown
  <2>2. \A i \in L : \E n \in pages : i \in answer[n].transactions
    BY <1>7, <1>10
  <2> QED
    BY <2>1, <2>2
<1>13. \A n \in DOMAIN answer : (n - 1) * size > MaxInt <=> n \notin pages
  BY <1>5, <1>6
<1> HIDE DEF Shown
<1>14. \A n \in pages : /\ Cardinality(answer[n].transactions) <= size
                        /\ answer[n].total = Cardinality(L)
                        /\ answer[n].total_amount = Total(L)
  BY <1>7, <1>11
<1> QED
  BY <1>9, <1>12, <1>13, <1>14

\* Pages partition the listing, however many transactions there are, whatever the
\* page size, and up to the largest page number.
THEOREM Pages == SpendingSpec => []PagesCover
BY SpendingTypes, PagesCoverHere, PTL

-----------------------------------------------------------------------------
\* The views of a month

InMonth(m) == {i \in Unmuted : Month(rows[i].ts) = m}

\* What a group holds, nothing if there is no such group.
GroupAt(f, k) == IF k \in DOMAIN f THEN f[k] ELSE 0

LEMMA GroupsAt ==
  ASSUME NEW S \in SUBSET Ids, NEW key, DOMAIN key = S, NEW k
  PROVE  GroupAt(GroupBy(key), k) = Total(Group(S, key, k))
<1> DEFINE by == GroupBy(key)
<1>1. DOMAIN by = Range(key) /\ \A l \in DOMAIN by : by[l] = Total(Group(S, key, l))
  BY GroupTotals
<1> HIDE DEF by
<1>2. CASE k \in DOMAIN by
  BY <1>1, <1>2 DEF GroupAt, by
<1>3. CASE k \notin DOMAIN by
  <2>1. Group(S, key, k) = {}
    BY <1>1, <1>3 DEF Group, Range
  <2> QED
    BY <1>3, <2>1, TotalEmpty DEF GroupAt, by
<1> QED
  BY <1>2, <1>3

LEMMA UnmutedRows ==
  ASSUME SpendingTyped
  PROVE  Unmuted \in SUBSET Ids /\ \A i \in Unmuted : rows[i].ts \in Int
BY SavedRows

LEMMA MonthIs ==
  ASSUME SpendingTyped, NEW m \in Int
  PROVE  /\ Between(StartUTC(m), StartUTC(m + 1)) = InMonth(m)
         /\ Month(StartUTC(m)) = m
         /\ StartUTC(m) \in Int
<1>1. ASSUME NEW i \in Unmuted
      PROVE  Month(rows[i].ts) = m <=> rows[i].ts >= StartUTC(m) /\ rows[i].ts < StartUTC(m + 1)
  <2>1. rows[i].ts \in Int /\ StartUTC(m) \in Int
    BY UnmutedRows, MonthBounds
  <2> QED
    BY <2>1, MonthBounds
<1>2. StartUTC(m) \in Int /\ StartUTC(m) <= StartUTC(m) /\ StartUTC(m) < StartUTC(m + 1)
  <2>1. tz \in Int /\ HoursPerMonth \in Nat \ {0}
    BY CalendarTypes DEF SpendingTyped
  <2>2. (m + 1) * HoursPerMonth = m * HoursPerMonth + HoursPerMonth /\ m * HoursPerMonth \in Int
    BY <2>1
  <2> QED
    BY <2>1, <2>2 DEF StartUTC
<1>3. Month(StartUTC(m)) = m
  BY <1>2, MonthBounds
<1> QED
  BY <1>1, <1>2, <1>3 DEF Between, InMonth

\* The comparison of this month with the last.
LEMMA ComparedMonths ==
  ASSUME SpendingTyped, NEW m \in Int, NEW k
  PROVE  LET compared == queryCategoryMonthlyBetween(StartUTC(m), StartUTC(m + 1))
             c == IF k \in DOMAIN compared THEN compared[k] ELSE [Current |-> 0, Prior |-> 0]
         IN /\ c.Current = Total({i \in InMonth(m) : Slice(i, "category") = k})
            /\ c.Prior = Total({i \in InMonth(m - 1) : Slice(i, "category") = k})
<1> DEFINE prior == StartUTC(m - 1)
           start == StartUTC(m)
           end == StartUTC(m + 1)
           compared == queryCategoryMonthlyBetween(start, end)
           c == IF k \in DOMAIN compared THEN compared[k] ELSE [Current |-> 0, Prior |-> 0]
           A == {i \in InMonth(m) : Slice(i, "category") = k}
           B == {i \in InMonth(m - 1) : Slice(i, "category") = k}
<1>1. m - 1 \in Int /\ m + 1 \in Int /\ (m - 1) + 1 = m
  OBVIOUS
<1>2. Between(start, end) = InMonth(m) /\ Month(start) = m /\ start \in Int
  BY MonthIs
<1>3. Between(prior, start) = InMonth(m - 1) /\ prior \in Int
  BY <1>1, MonthIs
<1>4. compared = [l \in {Slice(i, "category") : i \in Between(prior, end)} |->
                    [Current |-> Total({i \in InMonth(m) : Slice(i, "category") = l}),
                     Prior |-> Total({i \in InMonth(m - 1) : Slice(i, "category") = l})]]
  BY <1>2, <1>3 DEF queryCategoryMonthlyBetween
<1>5. InMonth(m) \subseteq Between(prior, end) /\ InMonth(m - 1) \subseteq Between(prior, end)
  <2>1. /\ \A i \in InMonth(m) : i \in Unmuted /\ rows[i].ts >= start /\ rows[i].ts < end
        /\ \A i \in InMonth(m - 1) : i \in Unmuted /\ rows[i].ts >= prior /\ rows[i].ts < start
    BY <1>2, <1>3 DEF Between
  <2>2. end \in Int /\ prior < start /\ start < end
    <3>1. tz \in Int /\ HoursPerMonth \in Nat \ {0}
      BY CalendarTypes DEF SpendingTyped
    <3>2. /\ (m + 1) * HoursPerMonth = m * HoursPerMonth + HoursPerMonth /\ m * HoursPerMonth \in Int
          /\ (m - 1) * HoursPerMonth = m * HoursPerMonth - HoursPerMonth
      BY <3>1
    <3> QED
      BY <3>1, <3>2 DEF StartUTC
  <2>3. \A i \in Unmuted : rows[i].ts \in Int
    BY UnmutedRows
  <2> HIDE DEF prior, start, end
  <2> QED
    BY <1>2, <1>3, <2>1, <2>2, <2>3 DEF Between
<1> HIDE DEF prior, start, end, compared
<1>6. CASE k \in DOMAIN compared
  <2>1. compared[k].Current = Total(A) /\ compared[k].Prior = Total(B)
    BY <1>4, <1>6
  <2>2. c.Current = Total(A) /\ c.Prior = Total(B)
    BY <1>6, <2>1
  <2> QED
    BY <2>2 DEF compared, start, end
<1>7. CASE k \notin DOMAIN compared
  <2>1. A = {} /\ B = {}
    BY <1>4, <1>5, <1>7
  <2>2. Total(A) = 0 /\ Total(B) = 0
    <3> HIDE DEF A, B
    <3> QED
      BY <2>1, TotalEmpty
  <2> QED
    BY <1>7, <2>2 DEF compared, start, end
<1> QED
  BY <1>6, <1>7

\* The breakdown of the last months.
LEMMA BrokenDown ==
  ASSUME SpendingTyped, NEW k, NEW m \in {Month(now) - 1, Month(now)}
  PROVE  LET months == GetLabelMonthlySpend("category")
         IN (IF k \in DOMAIN months THEN months[k][m] ELSE 0)
              = Total({i \in InMonth(m) : Slice(i, "category") = k})
<1> DEFINE first == Month(now) - (BreakdownMonths - 1)
           S == Since(StartUTC(first))
           months == GetLabelMonthlySpend("category")
           A == {i \in InMonth(m) : Slice(i, "category") = k}
<1>1. months = [l \in UNION {{Slice(i, "category")} : i \in S} |->
                 [n \in first .. Month(now) |->
                   Total({i \in S : l \in {Slice(i, "category")} /\ Month(rows[i].ts) = n})]]
  BY ColumnsAssumption DEF GetLabelMonthlySpend, monthlyBreakdownSpendReadModel
<1>2. Month(now) \in Int /\ first \in Int /\ m \in Int /\ m \in first .. Month(now)
  <2>1. Month(now) \in Int
    BY LocalTypes DEF SpendingTyped
  <2> QED
    BY <2>1, CalendarAssumption
<1>3. ASSUME NEW i \in Unmuted PROVE i \in S <=> Month(rows[i].ts) >= first
  <2>1. rows[i].ts \in Int
    BY UnmutedRows
  <2>2. rows[i].ts >= StartUTC(first) <=> Month(rows[i].ts) >= first
    BY <1>2, <2>1, MonthsSince
  <2> QED
    BY <2>2 DEF Since
<1>4. S \subseteq Unmuted
  BY DEF Since
<1> HIDE DEF first, S, months
<1>5. A = {i \in S : k \in {Slice(i, "category")} /\ Month(rows[i].ts) = m}
  BY <1>2, <1>3, <1>4 DEF InMonth
<1>6. CASE k \in DOMAIN months
  <2>1. months[k][m] = Total({i \in S : k \in {Slice(i, "category")} /\ Month(rows[i].ts) = m})
    BY <1>1, <1>2, <1>6
  <2> QED
    BY <1>5, <1>6, <2>1 DEF months
<1>7. CASE k \notin DOMAIN months
  <2>1. A = {}
    BY <1>1, <1>5, <1>7
  <2> HIDE DEF A
  <2>2. Total(A) = 0
    BY <2>1, TotalEmpty
  <2> QED
    BY <1>7, <2>2 DEF A, months
<1> QED
  BY <1>6, <1>7

\* The entry of a month in a monthly chart that reaches back to it.
LEMMA MonthlyEntry ==
  ASSUME SpendingTyped, NEW m, NEW S \in SUBSET Unmuted, InMonth(m) \subseteq S
  PROVE  GroupAt(MonthlySpend(S), m) = Total(InMonth(m))
<1> DEFINE key == [i \in S |-> Month(rows[i].ts)]
<1>1. S \in SUBSET Ids
  BY UnmutedRows
<1>2. DOMAIN key = S /\ Group(S, key, m) = InMonth(m)
  BY DEF Group, InMonth
<1>3. MonthlySpend(S) = GroupBy(key)
  BY DEF MonthlySpend
<1> HIDE DEF key
<1> QED
  BY <1>1, <1>2, <1>3, GroupsAt

\* The days of a month in the heatmap of its year.
LEMMA YearDays ==
  ASSUME SpendingTyped
  PROVE  LET year == GetHeatmap(Absent, Absent, Year(now))
         IN SumOf(Restrict(year, {k \in DOMAIN year : k \div DaysPerMonth = Month(now)}))
              = Total(InMonth(Month(now)))
<1> DEFINE S == {j \in Unmuted : Year(rows[j].ts) = Year(now)}
           key == [i \in S |-> Day(rows[i].ts)]
           year == GetHeatmap(Absent, Absent, Year(now))
           K == {k \in DOMAIN year : k \div DaysPerMonth = Month(now)}
<1>1. year = GroupBy(key)
  <2>1. Year(now) # Absent
    BY LocalTypes, NothingAssumption DEF SpendingTyped
  <2> QED
    BY <2>1 DEF GetHeatmap, annualSpendReadModel
<1>2. S \in SUBSET Ids /\ DOMAIN key = S
  BY UnmutedRows
<1>3. \A i \in S : i \in Unmuted /\ key[i] = Day(rows[i].ts) /\ key[i] \div DaysPerMonth = Month(rows[i].ts)
  BY UnmutedRows, MonthOfDay
<1>4. \A i \in InMonth(Month(now)) : i \in S
  BY DEF InMonth, Year
<1> HIDE DEF S, key, year
<1>5. /\ DOMAIN year = Range(key)
      /\ \A L \in SUBSET DOMAIN year : SumOf(Restrict(year, L)) = Total(Groups(S, key, L))
  BY <1>1, <1>2, GroupTotals
<1>6. SumOf(Restrict(year, K)) = Total(Groups(S, key, K))
  BY <1>5
<1>7. Groups(S, key, K) = InMonth(Month(now))
  <2>1. \A i \in S : key[i] \in DOMAIN year
    BY <1>2, <1>5 DEF Range
  <2>2. \A i \in S : key[i] \in K <=> i \in InMonth(Month(now))
    BY <1>3, <2>1 DEF InMonth
  <2> HIDE DEF K
  <2> QED
    BY <1>4, <2>2 DEF Groups
<1> QED
  BY <1>6, <1>7 DEF year

LEMMA WindowsAgreeHere ==
  ASSUME SpendingTyped
  PROVE  WindowsAgree
<1> DEFINE M == Month(now)
           start == StartUTC(M)
           end == StartUTC(M + 1)
           S == Between(start, end)
           stats == ByTaxonomy("category", S)
           key == [i \in S |-> Slice(i, "category")]
           compared == queryCategoryMonthlyBetween(start, end)
           months == GetLabelMonthlySpend("category")
           d == dashboardDataReadModel
           back == Since(now - HoursPerMonth * MonthsPerYear)
<1>1. now \in Int /\ M \in Int /\ M - 1 \in Int /\ M + 1 \in Int
  BY LocalTypes DEF SpendingTyped
<1>2. S = InMonth(M) /\ start \in Int /\ end \in Int
  BY <1>1, MonthIs
<1>3. /\ d.current.stats.TotalByCategory = stats
      /\ d.allTime.charts.ByCategoryMonthly = compared
      /\ d.current.charts.ByCategoryMonthly = compared
      /\ d.current.charts.MonthlySpend = MonthlySpend(S)
      /\ d.allTime.charts.MonthlySpend = MonthlySpend(back)
      /\ dashboardMonthBounds(now).startUTC = start
      /\ dashboardMonthBounds(now).endUTC = end
  BY DEF dashboardDataReadModel, dashboardMonthBounds, getStatsBetween, Stats, getChartDataBetween,
         getChartDataAt, Charts
<1>4. S \in SUBSET Ids /\ S \in SUBSET Unmuted
  BY UnmutedRows DEF Between
<1>5. stats = GroupBy(key) /\ DOMAIN key = S
  BY DEF ByTaxonomy
<1>6. \A k : Group(S, key, k) = {i \in InMonth(M) : Slice(i, "category") = k}
  BY <1>2 DEF Group
<1> HIDE DEF S, stats, key, compared, months, d, back
<1>7. ASSUME NEW k
      PROVE  LET c == IF k \in DOMAIN compared THEN compared[k] ELSE [Current |-> 0, Prior |-> 0]
                 b == [m \in {M - 1, M} |-> IF k \in DOMAIN months THEN months[k][m] ELSE 0]
             IN /\ GroupAt(stats, k) = c.Current /\ b[M] = c.Current
                /\ b[M - 1] = c.Prior
  <2> DEFINE c == IF k \in DOMAIN compared THEN compared[k] ELSE [Current |-> 0, Prior |-> 0]
             b == [m \in {M - 1, M} |-> IF k \in DOMAIN months THEN months[k][m] ELSE 0]
  <2>1. GroupAt(stats, k) = Total({i \in InMonth(M) : Slice(i, "category") = k})
    BY <1>4, <1>5, <1>6, GroupsAt
  <2>2. /\ c.Current = Total({i \in InMonth(M) : Slice(i, "category") = k})
        /\ c.Prior = Total({i \in InMonth(M - 1) : Slice(i, "category") = k})
    BY <1>1, ComparedMonths DEF compared
  <2>3. /\ b[M] = Total({i \in InMonth(M) : Slice(i, "category") = k})
        /\ b[M - 1] = Total({i \in InMonth(M - 1) : Slice(i, "category") = k})
    BY BrokenDown DEF months
  <2> QED
    BY <2>1, <2>2, <2>3
<1>8. SumOf(stats) = Total(InMonth(M))
  BY <1>2, <1>4, <1>5, GroupTotals
<1>9. GroupAt(MonthlySpend(S), M) = Total(InMonth(M))
  BY <1>2, <1>4, MonthlyEntry
<1>10. GroupAt(MonthlySpend(back), M) = Total(InMonth(M))
  <2>1. start >= now - HoursPerMonth * MonthsPerYear
    <3>1. /\ HoursPerMonth \in Nat \ {0} /\ MonthsPerYear \in Nat \ {0} /\ tz \in Int
      BY CalendarTypes DEF SpendingTyped
    <3>2. now < end
      BY <1>1, MonthBounds
    <3>3. (M + 1) * HoursPerMonth = M * HoursPerMonth + HoursPerMonth /\ M * HoursPerMonth \in Int
      BY <1>1, <3>1
    <3>4. HoursPerMonth * MonthsPerYear >= HoursPerMonth /\ HoursPerMonth * MonthsPerYear \in Int
      BY <3>1
    <3> HIDE DEF M
    <3> QED
      BY <1>1, <3>1, <3>2, <3>3, <3>4 DEF StartUTC
  <2>2. \A i \in Unmuted : rows[i].ts \in Int
    BY UnmutedRows
  <2>3. HoursPerMonth * MonthsPerYear \in Int
    BY CalendarTypes
  <2>4. \A i \in InMonth(M) : i \in Unmuted /\ rows[i].ts >= start
    BY <1>2 DEF S, Between
  <2>5. InMonth(M) \subseteq back
    <3> HIDE DEF start
    <3> QED
      BY <1>1, <1>2, <2>1, <2>2, <2>3, <2>4 DEF Since, back
  <2>6. back \in SUBSET Unmuted
    BY DEF Since, back
  <2> QED
    BY <2>5, <2>6, MonthlyEntry
<1>11. LET year == GetHeatmap(Absent, Absent, Year(now))
       IN SumOf(Restrict(year, {k \in DOMAIN year : k \div DaysPerMonth = M})) = Total(InMonth(M))
  BY YearDays
<1>12. SumOf(GetHeatmap(start, end - 1, Absent).ByDayOfMonth) = Total(InMonth(M))
  <2> DEFINE H == buildHeatmapWhere(start, end - 1)
             days == [i \in H |-> DayOfMonth(rows[i].ts)]
  <2>1. GetHeatmap(start, end - 1, Absent).ByDayOfMonth = GroupBy(days)
    BY DEF GetHeatmap, spendingHeatmapReadModel
  <2>2. H = InMonth(M)
    <3>1. start # Absent /\ end - 1 # Absent
      BY <1>2, NothingAssumption
    <3>2. \A i \in Unmuted : rows[i].ts < end <=> rows[i].ts <= end - 1
      BY <1>2, UnmutedRows
    <3>3. \A i : i \in InMonth(M) <=> i \in Unmuted /\ rows[i].ts >= start /\ rows[i].ts < end
      BY <1>2 DEF S, Between
    <3>4. InMonth(M) \subseteq Unmuted
      BY DEF InMonth
    <3> HIDE DEF start, end
    <3> QED
      BY <3>1, <3>2, <3>3, <3>4 DEF buildHeatmapWhere
  <2>3. H \in SUBSET Ids /\ DOMAIN days = H
    BY <2>2, <1>2, <1>4
  <2> HIDE DEF H, days
  <2>4. SumOf(GroupBy(days)) = Total(H)
    BY <2>3, GroupTotals
  <2> QED
    BY <2>1, <2>2, <2>4
<1>13. d.current.charts.ByCategoryMonthly = d.allTime.charts.ByCategoryMonthly
  BY <1>3
<1> HIDE DEF start, end
<1> QED
  BY <1>3, <1>7, <1>8, <1>9, <1>10, <1>11, <1>12, <1>13 DEF WindowsAgree, GroupAt, months, d

\* All views of a month show the same month, whatever the calendar's units, the
\* time zone and the moment.
THEOREM Windows == SpendingSpec => []WindowsAgree
BY SpendingTypes, WindowsAgreeHere, PTL
=============================================================================
