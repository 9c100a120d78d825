--------------------------- MODULE Classification ---------------------------
(***************************************************************************)
(* How one tenant's transactions are muted, categorized and put in         *)
(* buckets: by hand, by the merchant patterns the user has stored, and by  *)
(* ingestion, which applies the stored patterns to the mail it writes.     *)
(*                                                                         *)
(* A request's database transaction is one step, taken once no row it      *)
(* writes is locked.  Ingestion (ingestion.go) writes one message in a     *)
(* transaction of several statements, each of which reads what is          *)
(* committed at that moment; until it commits, its row is locked, and      *)
(* invisible if it is new.  Category and bucket are two columns.  In a     *)
(* transaction '' and NULL are both Empty; in a mapping '' is Empty and    *)
(* NULL is None, since ingestion looks for mappings whose category is not  *)
(* NULL, and a mapping without either is pruned only if both are NULL.     *)
(***************************************************************************)
EXTENDS Naturals, FiniteSets

CONSTANTS Txns,
          MutePatterns,    \* patterns of muted merchants
          Fragments,   \* merchants that have a category or bucket mapping
          Contains,    \* <<t, p>>: merchant_info ILIKE '%p%'
          Rank,        \* order of fragments, the longest first
          Categories, Buckets,
          Defaults,    \* <<column, name>> with is_default, or of no tenant
          Writers,     \* ingestions that may overlap
          Empty, None

ASSUME NamesAssumption == {Empty, None} \cap (Categories \cup Buckets) = {} /\ Empty # None
ASSUME DefaultsAssumption == Defaults \subseteq {"category"} \X Categories \cup {"bucket"} \X Buckets
ASSUME RankAssumption ==
  \A M \in (SUBSET Fragments) \ {{}} : \E f \in M : \A g \in M : Rank[f] <= Rank[g]

Columns == {"category", "bucket"}

Names(c) == IF c = "category" THEN Categories ELSE Buckets

Values == {v \in [Columns -> Categories \cup Buckets \cup {Empty}] :
             \A c \in Columns : v[c] \in Names(c) \cup {Empty}}

\* A mapping's columns.
Mapped == {v \in [Columns -> Categories \cup Buckets \cup {Empty, None}] :
             \A c \in Columns : v[c] \in Names(c) \cup {Empty, None}}

Named == {e \in Columns \X (Categories \cup Buckets) : e[2] \in Names(e[1])}

TxnRow == [val: Values, muted: BOOLEAN, byMerchant: BOOLEAN]

ASSUME AbsentAssumption == None \notin TxnRow \cup Mapped

VARIABLES txn,       \* the committed rows of transactions
          patterns,  \* muted_merchants
          mapping,   \* merchant_categories of the tenant: Fragments -> Mapped, or None
          listed,    \* categories and buckets
          draft,     \* the open transaction of each writer
          patch,     \* a PATCH of a transaction whose names have been validated
          pruning,   \* fragments whose mapping is about to be pruned
          excused,   \* history: transactions whose mute was decided otherwise
          gone       \* history: names deleted everywhere and not used since

txnVars == <<txn, patterns, mapping, listed, draft, patch, pruning, excused, gone>>
mutes == <<patterns, excused>>
taxonomy == <<mapping, listed, pruning, gone>>

\* late: the patterns that match changed after they were read.
Draft == [t: Txns, pc: {"upserted", "categorized", "muted"}, row: TxnRow, late: BOOLEAN]

ASSUME IdleAssumption == None \notin Draft

Patch == {q \in [t: Txns, c: Columns, n: Categories \cup Buckets \cup {Empty}] :
            q.n \in Names(q.c) \cup {Empty}}

ClassificationTypeOK ==
  /\ txn \in [Txns -> TxnRow \cup {None}]
  /\ patterns \subseteq MutePatterns
  /\ mapping \in [Fragments -> Mapped \cup {None}]
  /\ listed \subseteq Named
  /\ draft \in [Writers -> Draft \cup {None}]
  /\ patch \in Patch \cup {None}
  /\ pruning \subseteq Fragments
  /\ excused \subseteq Txns
  /\ gone \subseteq Named

ClassificationInit ==
  /\ txn = [t \in Txns |-> None]
  /\ patterns = {}
  /\ mapping = [f \in Fragments |-> None]
  /\ listed = Defaults
  /\ draft = [w \in Writers |-> None]
  /\ patch = None
  /\ pruning = {}
  /\ excused = {} /\ gone = {}

-----------------------------------------------------------------------------
Stored(t) == txn[t] # None

MatchedBy(p) == {t \in Txns : <<t, p>> \in Contains}

Muting(t) == {p \in patterns : <<t, p>> \in Contains}

\* A statement that writes the rows S waits for the ingestions that hold them; a
\* row that is not committed yet is not seen.
Unheld(S) == \A w \in Writers : draft[w] # None => draft[w].t \notin {t \in S : Stored(t)}

Update(S, f(_)) ==
  /\ Unheld(S)
  /\ txn' = [t \in Txns |-> IF t \in S /\ Stored(t) THEN f(txn[t]) ELSE txn[t]]

\* Drafts that have read the patterns, of merchants that contain p, are late now.
Late(p) ==
  draft' = [w \in Writers |->
             IF draft[w] # None /\ draft[w].pc = "muted" /\ <<draft[w].t, p>> \in Contains
             THEN [draft[w] EXCEPT !.late = TRUE] ELSE draft[w]]

-----------------------------------------------------------------------------
\* Ingestion

\* Fault: the extracted values replace those of the row.
Overwrite(old, x) == [c \in Columns |-> IF x[c] = None THEN Empty ELSE x[c]]

\* "Preserve user edits": an extracted value is only used where there is none.
Preserve(old, x) ==
  [c \in Columns |-> IF old[c] # Empty THEN old[c] ELSE IF x[c] = None THEN Empty ELSE x[c]]

Write(w, t, x) ==
  /\ draft[w] = None
  /\ \A u \in Writers : draft[u] # None => draft[u].t # t
  /\ draft' = [draft EXCEPT ![w] =
       [t |-> t, pc |-> "upserted", late |-> FALSE,
        row |-> IF Stored(t) THEN [txn[t] EXCEPT !.val = Preserve(@, x)]
                ELSE [val |-> x, muted |-> FALSE, byMerchant |-> FALSE]]]
  /\ gone' = gone \ {<<c, x[c]>> : c \in Columns}
  /\ UNCHANGED <<txn, mutes, mapping, listed, pruning, patch>>

\* The mappings whose category is not NULL are ranked, the first one fills what is empty.
applyMerchantCategories(w) ==
  /\ draft[w] # None /\ draft[w].pc = "upserted"
  /\ LET M == {f \in Fragments : /\ mapping[f] # None /\ mapping[f]["category"] # None
                                 /\ <<draft[w].t, f>> \in Contains}
         best == CHOOSE f \in M : \A g \in M : Rank[f] <= Rank[g]
     IN draft' = [draft EXCEPT ![w].pc = "categorized",
                               ![w].row.val = IF M = {} THEN @ ELSE Preserve(@, mapping[best])]
  /\ UNCHANGED <<txn, mutes, taxonomy, patch>>

\* Fault: mail that is written for the first time is not matched with the patterns.
SkipNewMail(w) ==
  /\ draft[w] # None /\ draft[w].pc = "categorized"
  /\ draft' = [draft EXCEPT ![w].pc = "muted",
                            ![w].row = IF Muting(draft[w].t) = {} \/ ~Stored(draft[w].t) THEN @
                                       ELSE [@ EXCEPT !.muted = TRUE, !.byMerchant = TRUE]]
  /\ UNCHANGED <<txn, mutes, taxonomy, patch>>

applyMutedMerchants(w) ==
  /\ draft[w] # None /\ draft[w].pc = "categorized"
  /\ draft' = [draft EXCEPT ![w].pc = "muted",
                            ![w].row = IF Muting(draft[w].t) = {} THEN @
                                       ELSE [@ EXCEPT !.muted = TRUE, !.byMerchant = TRUE]]
  /\ UNCHANGED <<txn, mutes, taxonomy, patch>>

CommitDraft(w) ==
  /\ draft[w] # None /\ draft[w].pc = "muted"
  /\ txn' = [txn EXCEPT ![draft[w].t] = draft[w].row]
  /\ excused' = IF draft[w].late THEN excused \cup {draft[w].t}
                ELSE IF draft[w].row.byMerchant /\ Muting(draft[w].t) # {}
                THEN excused \ {draft[w].t} ELSE excused
  /\ draft' = [draft EXCEPT ![w] = None]
  /\ UNCHANGED <<patterns, taxonomy, patch>>

RollbackDraft(w) ==
  /\ draft[w] # None
  /\ draft' = [draft EXCEPT ![w] = None]
  /\ UNCHANGED <<txn, mutes, taxonomy, patch>>

-----------------------------------------------------------------------------
\* Mutes

MuteTransaction(t) ==
  /\ Stored(t)
  /\ Update({t}, LAMBDA r : [r EXCEPT !.muted = TRUE, !.byMerchant = FALSE])
  /\ excused' = excused \ {t}
  /\ UNCHANGED <<patterns, taxonomy, draft, patch>>

UnmuteTransaction(t) ==
  /\ Stored(t)
  /\ Update({t}, LAMBDA r : [r EXCEPT !.muted = FALSE, !.byMerchant = FALSE])
  /\ excused' = IF Muting(t) = {} THEN excused \ {t} ELSE excused \cup {t}
  /\ UNCHANGED <<patterns, taxonomy, draft, patch>>

MuteByMerchant(p) ==
  /\ patterns' = patterns \cup {p}
  /\ Update(MatchedBy(p), LAMBDA r : [r EXCEPT !.muted = TRUE, !.byMerchant = TRUE])
  /\ excused' = excused \ {t \in MatchedBy(p) : Stored(t)}
  /\ Late(p)
  /\ UNCHANGED <<taxonomy, patch>>

\* Deleting a pattern leaves what it muted as it is ...
DeleteMutedMerchant(p) ==
  /\ p \in patterns
  /\ patterns' = patterns \ {p}
  /\ excused' = excused \cup {t \in MatchedBy(p) : Stored(t) /\ txn[t].byMerchant}
  /\ Late(p)
  /\ UNCHANGED <<txn, taxonomy, patch>>

\* ... or unmutes every transaction that matches, whatever muted it.
DeleteMutedMerchantAndUnmute(p) ==
  /\ p \in patterns
  /\ patterns' = patterns \ {p}
  /\ Update(MatchedBy(p), LAMBDA r : [r EXCEPT !.muted = FALSE, !.byMerchant = FALSE])
  /\ LET U == {t \in MatchedBy(p) : Stored(t)}
         other == {t \in U : Muting(t) # {p}}
     IN excused' = (excused \ U) \cup other
  /\ Late(p)
  /\ UNCHANGED <<taxonomy, patch>>

-----------------------------------------------------------------------------
\* Categories and buckets

\* The name of a PATCH is looked up first ...
validateTaxonomy(t, c, n) ==
  /\ patch = None
  /\ n = Empty \/ <<c, n>> \in listed
  /\ patch' = [t |-> t, c |-> c, n |-> n]
  /\ UNCHANGED <<txn, mutes, taxonomy, draft>>

\* ... and written in a statement of its own.
UpdateTransaction ==
  /\ patch # None
  /\ Update({patch.t}, LAMBDA r : [r EXCEPT !.val[patch.c] = patch.n])
  /\ gone' = gone \ {<<patch.c, patch.n>>}
  /\ patch' = None
  /\ UNCHANGED <<mutes, mapping, listed, pruning, draft>>

\* The merchant is compared as a whole here, and as a fragment by ingestion: the
\* transactions a mapping is applied to at once are some of those that contain it.
CategorizeMerchant(f, S, v) ==
  /\ S \subseteq MatchedBy(f)
  /\ Update(S, LAMBDA r : [r EXCEPT !.val = v])
  /\ mapping' = [mapping EXCEPT ![f] = v]
  /\ gone' = gone \ {<<c, v[c]>> : c \in Columns}
  /\ UNCHANGED <<mutes, listed, pruning, draft, patch>>

applyTaxonomyByMerchant(f, S, c, n) ==
  /\ S \subseteq MatchedBy(f)
  /\ Update(S, LAMBDA r : [r EXCEPT !.val[c] = n])
  /\ mapping' = [mapping EXCEPT ![f] = [d \in Columns |-> IF d = c THEN n
                                          ELSE IF mapping[f] = None THEN None ELSE mapping[f][d]]]
  /\ gone' = gone \ {<<c, n>>}
  /\ UNCHANGED <<mutes, listed, pruning, draft, patch>>

Blank == [c \in Columns |-> None]

\* Two statements without a transaction: the mapping loses the name, and is then
\* deleted if nothing is left of it.
removeTaxonomyByMerchant(f, c, n) ==
  /\ mapping[f] # None /\ mapping[f][c] = n
  /\ mapping' = [mapping EXCEPT ![f][c] = None]
  /\ pruning' = pruning \cup {f}
  /\ UNCHANGED <<txn, mutes, listed, gone, draft, patch>>

PruneMapping(f) ==
  /\ f \in pruning
  /\ mapping' = IF mapping[f] = Blank THEN [mapping EXCEPT ![f] = None] ELSE mapping
  /\ pruning' = pruning \ {f}
  /\ UNCHANGED <<txn, mutes, listed, gone, draft, patch>>

CreateTaxonomy(c, n) ==
  /\ listed' = listed \cup {<<c, n>>}
  /\ UNCHANGED <<txn, mutes, mapping, pruning, gone, draft, patch>>

ensureTaxonomyCanBeDeleted(c, n) == <<c, n>> \in listed \ Defaults

\* Fault: the mappings keep the name.
keepMappings(c, n) == UNCHANGED mapping

clearMappings(c, n) ==
  mapping' = [f \in Fragments |->
               IF mapping[f] = None \/ mapping[f][c] # n THEN mapping[f]
               ELSE IF [mapping[f] EXCEPT ![c] = None] = Blank THEN None
               ELSE [mapping[f] EXCEPT ![c] = None]]

\* A row of an open ingestion gets the name back when that commits.
deleteNamedTaxonomy(c, n, remove) ==
  /\ ensureTaxonomyCanBeDeleted(c, n)
  /\ clearMappings(c, n)
  /\ IF remove THEN Update({t \in Txns : Stored(t) /\ txn[t].val[c] = n},
                           LAMBDA r : [r EXCEPT !.val[c] = Empty])
     ELSE UNCHANGED txn
  /\ listed' = listed \ {<<c, n>>}
  /\ gone' = IF remove /\ \A w \in Writers : draft[w] # None => draft[w].row.val[c] # n
             THEN gone \cup {<<c, n>>} ELSE gone
  /\ UNCHANGED <<mutes, pruning, draft, patch>>

-----------------------------------------------------------------------------
Ingesting(w) ==
  \/ \E t \in Txns, x \in Values : Write(w, t, x)
  \/ applyMerchantCategories(w) \/ applyMutedMerchants(w) \/ CommitDraft(w) \/ RollbackDraft(w)

\* The requests.  A PATCH that sets category, bucket and muted does the steps of each.
PatchTransaction ==
  \/ \E t \in Txns, c \in Columns, n \in Categories \cup Buckets \cup {Empty} :
       validateTaxonomy(t, c, n)
  \/ UpdateTransaction
  \/ \E t \in Txns : MuteTransaction(t) \/ UnmuteTransaction(t)

MutedMerchants ==
  \E p \in MutePatterns : \/ MuteByMerchant(p) \/ DeleteMutedMerchant(p)
                      \/ DeleteMutedMerchantAndUnmute(p)

CategorizeMerchants ==
  \E f \in Fragments, S \in SUBSET Txns, v \in Values : CategorizeMerchant(f, S, v)

ByMerchant(c) ==
  \E f \in Fragments, n \in Names(c) :
    \/ \E S \in SUBSET Txns : applyTaxonomyByMerchant(f, S, c, n)
    \/ removeTaxonomyByMerchant(f, c, n)

CategoryRequests ==
  \/ \E n \in Categories : \/ CreateTaxonomy("category", n)
                           \/ \E remove \in BOOLEAN : deleteNamedTaxonomy("category", n, remove)
  \/ ByMerchant("category")

BucketRequests ==
  \/ \E n \in Buckets : \/ CreateTaxonomy("bucket", n)
                        \/ \E remove \in BOOLEAN : deleteNamedTaxonomy("bucket", n, remove)
  \/ ByMerchant("bucket")

ClassificationNext ==
  \/ \E w \in Writers : Ingesting(w)
  \/ PatchTransaction \/ MutedMerchants
  \/ CategorizeMerchants \/ CategoryRequests \/ BucketRequests
  \/ \E f \in Fragments : PruneMapping(f)

ClassificationSpec == ClassificationInit /\ [][ClassificationNext]_txnVars

-----------------------------------------------------------------------------
\* Outside of what the user decided otherwise, and of mail that was being written
\* while a pattern came or went, the mutes follow the stored patterns: every
\* transaction that matches one is muted, and one that is muted because of its
\* merchant has a pattern that says so.
MutesFollowPatterns ==
  \A t \in Txns \ excused :
    Stored(t) => /\ Muting(t) # {} => txn[t].muted
                 /\ txn[t].byMerchant => Muting(t) # {}

\* "Preserve user edits": no ingestion changes a category or bucket that is set
\* when it commits, however its statements and the user's requests interleave.
EditsPreserved ==
  [][\A w \in Writers :
       draft[w] # None /\ draft'[w] = None /\ txn' # txn /\ Stored(draft[w].t)
         => \A c \in Columns : txn[draft[w].t].val[c] # Empty
                                => txn'[draft[w].t].val[c] = txn[draft[w].t].val[c]]_txnVars

\* A name that was deleted with its use in transactions is found nowhere until it
\* is extracted, applied or written again: no mapping brings it back.
DeletedNamesStayGone ==
  \A e \in gone :
    /\ \A t \in Txns : Stored(t) => txn[t].val[e[1]] # e[2]
    /\ \A f \in Fragments : mapping[f] # None => mapping[f][e[1]] # e[2]

=============================================================================
