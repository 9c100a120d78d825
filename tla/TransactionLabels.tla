--------------------------- MODULE TransactionLabels ---------------------------
(***************************************************************************)
(* The labels of one tenant's transactions, as the repositories of         *)
(* internal/store/postgres keep them in four tables:                       *)
(*                                                                         *)
(*   transactions              the mail that was ingested                  *)
(*   label_merchants           label l is given to merchants matching p    *)
(*   transaction_label_sources why a transaction has a label: by hand, or  *)
(*                             because of a merchant pattern               *)
(*   transaction_labels        the labels a transaction shows              *)
(*                                                                         *)
(* Ingestion and HTTP requests change them in database transactions of     *)
(* several statements, under READ COMMITTED: a statement sees what was     *)
(* committed before it and what its own transaction did, and waits for the *)
(* other transactions that wrote the rows it writes.  A step is one        *)
(* statement, or a part of one that ends in such a wait.                   *)
(*                                                                         *)
(* A definition whose comment begins with "Fault:" is a mistaken variant   *)
(* of the one after it, kept to show that a property notices the mistake.  *)
(***************************************************************************)
EXTENDS FiniteSets

CONSTANTS
    Messages,   \* message ids, which identify transactions
    Labels,
    Patterns,   \* merchant patterns
    Manual,     \* the pattern of a label given by hand, ''
    Clients     \* database connections

ASSUME PatternAssumption == Manual \notin Patterns

VARIABLES
    db,         \* the committed rows
    ins, del,   \* the rows each open transaction inserted or updated, and deleted
    call, pc,   \* its request, and its next statement
    wait,       \* the rows its statement still waits to write
    affected,   \* the transactions RemoveLabelByMerchant still has to examine
    overlapped, \* history: requests that interfere ran together
    spared,     \* history: merchant sources the user took off a transaction
    kept        \* history: sources by hand that each removal of a mapping under way
                \* found when it began and that have been there ever since

clientVars == <<ins, del, call, pc, wait, affected>>
vars == <<db, clientVars, overlapped, spared, kept>>

Txn(m)          == <<"transaction", m>>
Match(m, p)     == <<"match", m, p>>        \* merchant_info ILIKE '%p%'
Source(m, l, p) == <<"source", m, l, p>>
Tag(m, l)       == <<"tag", m, l>>
Mapping(l, p)   == <<"mapping", l, p>>

Sources(M, L, P) == {Source(m, l, p) : m \in M, l \in L, p \in P}
Tags(M, L)       == {Tag(m, l) : m \in M, l \in L}
Mappings(L, P)   == {Mapping(l, p) : l \in L, p \in P}
Matches(M, P)    == {Match(m, p) : m \in M, p \in P}

SourceRows == Sources(Messages, Labels, Patterns \cup {Manual})
TagRows == Tags(Messages, Labels)

Row == {Txn(m) : m \in Messages} \cup Matches(Messages, Patterns)
       \cup SourceRows \cup TagRows \cup Mappings(Labels, Patterns)

Request == [op : {"add", "remove", "apply", "unapply", "delete", "erase", "ingest"},
            messages : SUBSET Messages, labels : SUBSET Labels, patterns : SUBSET Patterns]
NoRequest == [op |-> "none"]

(* No two transactions have written the same row, none is left open.       *)
Exclusive ==
    \A c \in Clients : /\ \A r \in ins[c] \cup del[c] : ~\E d \in Clients \ {c} : r \in ins[d] \cup del[d]
                       /\ pc[c] = "idle" => ins[c] \cup del[c] = {}

TypeOK ==
    /\ db \subseteq Row
    /\ ins \in [Clients -> SUBSET Row] /\ del \in [Clients -> SUBSET Row]
    /\ wait \in [Clients -> SUBSET Row] /\ affected \in [Clients -> SUBSET Messages]
    /\ call \in [Clients -> Request \cup {NoRequest}]
    /\ pc \in [Clients -> {"idle", "sources", "tags", "mapping", "affected", "count", "untag",
                           "upsert", "commit"}]
    /\ overlapped \in BOOLEAN /\ spared \subseteq SourceRows
    /\ kept \in [Clients -> SUBSET SourceRows]
    /\ Exclusive

Init ==
    /\ db = {}
    /\ ins = [c \in Clients |-> {}] /\ del = [c \in Clients |-> {}]
    /\ call = [c \in Clients |-> NoRequest] /\ pc = [c \in Clients |-> "idle"]
    /\ wait = [c \in Clients |-> {}] /\ affected = [c \in Clients |-> {}]
    /\ overlapped = FALSE /\ spared = {} /\ kept = [c \in Clients |-> {}]

-----------------------------------------------------------------------------
(* PostgreSQL.                                                             *)

View(c) == (db \ del[c]) \cup ins[c]

Locked(c, r) == \E d \in Clients \ {c} : r \in ins[d] \cup del[d]

(* A statement that writes the rows R, which it has found in its snapshot: *)
(* it writes those it can, and waits for the others.                       *)
Execute(c, R, next) ==
    LET todo == IF wait[c] = {} THEN R ELSE wait[c]
        held == {r \in todo : Locked(c, r)}
    IN  /\ todo = {} \/ held # todo
        /\ wait' = [wait EXCEPT ![c] = held]
        /\ pc' = [pc EXCEPT ![c] = IF held = {} THEN next ELSE @]

Free(c, R) == {r \in (IF wait[c] = {} THEN R ELSE wait[c]) : ~Locked(c, r)}

(* INSERT ... ON CONFLICT DO NOTHING takes no lock on a row that exists.   *)
Insert(c, R, next) ==
    /\ Execute(c, R, next)
    /\ ins' = [ins EXCEPT ![c] = @ \cup (Free(c, R) \ View(c))]
    /\ UNCHANGED <<db, del, call, affected, overlapped, spared, kept>>

Delete(c, R, next) ==
    /\ Execute(c, R, next)
    /\ del' = [del EXCEPT ![c] = @ \cup (Free(c, R) \cap View(c))]
    /\ UNCHANGED <<db, ins, call, affected, overlapped, spared, kept>>

Released(f, c) == [f EXCEPT ![c] = {}]

Release(c) ==
    /\ ins' = Released(ins, c) /\ del' = Released(del, c)
    /\ call' = [call EXCEPT ![c] = NoRequest] /\ pc' = [pc EXCEPT ![c] = "idle"]
    /\ wait' = [wait EXCEPT ![c] = {}] /\ affected' = [affected EXCEPT ![c] = {}]
    /\ UNCHANGED overlapped
    /\ kept' = [d \in Clients |-> Released(kept, c)[d] \cap db']

(* RemoveLabel rolls back when it found no label to delete.                *)
Commit(c) ==
    /\ pc[c] = "commit"
    /\ call[c].op = "remove" => del[c] \cap TagRows # {}
    /\ db' = View(c)
    /\ spared' = (spared \cup {r \in del[c] \cap SourceRows : call[c].op = "remove"}) \ db'
    /\ Release(c)

(* A statement fails, a deadlock is resolved, the request is cancelled.    *)
Rollback(c) == pc[c] # "idle" /\ UNCHANGED <<db, spared>> /\ Release(c)

-----------------------------------------------------------------------------
(* Requests.                                                               *)

Removals == {"remove", "unapply", "erase"}

(* Requests that must not run together: a removal and any other, and an    *)
(* ingestion and the creation of a mapping.                                *)
Interfere(op1, op2) == {op1, op2} \cap Removals # {} \/ {op1, op2} = {"apply", "ingest"}

Begin(c, op, M, L, P, first) ==
    /\ pc[c] = "idle"
    /\ call' = [call EXCEPT ![c] = [op |-> op, messages |-> M, labels |-> L, patterns |-> P]]
    /\ pc' = [pc EXCEPT ![c] = first]
    /\ overlapped' = (overlapped \/ \E d \in Clients : pc[d] # "idle" /\ Interfere(op, call[d].op))
    /\ kept' = [kept EXCEPT ![c] = IF op = "unapply" THEN db \cap Sources(Messages, L, {Manual}) ELSE @]
    /\ UNCHANGED <<db, ins, del, wait, affected, spared>>

At(c, op, statement) == pc[c] = statement /\ call[c].op = op

(* The id of a transaction is known once it was listed.                    *)
Listed == {m \in Messages : Txn(m) \in db}

(* AddLabel and AddLabels.                                                 *)
AddLabels(c) ==
    LET M == call[c].messages  L == call[c].labels
    IN  \/ \E m \in Listed, N \in SUBSET Labels \ {{}} : Begin(c, "add", {m}, N, {}, "sources")
        \/ At(c, "add", "sources") /\ Insert(c, Sources(M, L, {Manual}), "tags")
        \/ At(c, "add", "tags") /\ Insert(c, Tags(M, L), "commit")

RowsOf(c, R, M, L) == {r \in R \cap View(c) : r[2] \in M /\ r[3] \in L}

RemoveLabel(c) ==
    \/ \E m \in Listed, l \in Labels : Begin(c, "remove", {m}, {l}, {}, "sources")
    \/ /\ At(c, "remove", "sources")
       /\ Delete(c, RowsOf(c, SourceRows, call[c].messages, call[c].labels), "tags")
    \/ /\ At(c, "remove", "tags")
       /\ Delete(c, RowsOf(c, TagRows, call[c].messages, call[c].labels), "commit")

Matching(c) == {m \in Messages : \E p \in call[c].patterns : Match(m, p) \in View(c)}

(* Fault: only future transactions get the label.                          *)
FutureOnly(c) == {}
Backfilled(c) == Matching(c)

ApplyLabelByMerchant(c) ==
    LET L == call[c].labels  P == call[c].patterns
    IN  \/ \E l \in Labels, p \in Patterns : Begin(c, "apply", {}, {l}, {p}, "mapping")
        \/ At(c, "apply", "mapping") /\ Insert(c, Mappings(L, P), "sources")
        \/ At(c, "apply", "sources") /\ Insert(c, Sources(Backfilled(c), L, P), "tags")
        \/ At(c, "apply", "tags") /\ Insert(c, Tags(Matching(c), L), "commit")

PatternSources(c) == {r \in RowsOf(c, SourceRows, Messages, call[c].labels) : r[4] \in call[c].patterns}

(* Fault: the label is removed although it has other sources.              *)
NoneLeft(c, m) == FALSE
(* Fault: a label given by hand counts for nothing.                        *)
PatternsLeft(c, m) == RowsOf(c, Sources(Messages, Labels, Patterns), {m}, call[c].labels) # {}
HasSources(c, m) == RowsOf(c, SourceRows, {m}, call[c].labels) # {}

RemoveLabelByMerchant(c) ==
    LET L == call[c].labels  P == call[c].patterns
    IN  \/ \E l \in Labels, p \in Patterns : Begin(c, "unapply", {}, {l}, {p}, "mapping")
        \/ At(c, "unapply", "mapping") /\ Delete(c, Mappings(L, P) \cap View(c), "affected")
        \/ /\ At(c, "unapply", "affected")
           /\ affected' = [affected EXCEPT ![c] = {r[2] : r \in PatternSources(c)}]
           /\ pc' = [pc EXCEPT ![c] = "sources"]
           /\ UNCHANGED <<db, ins, del, call, wait, overlapped, spared, kept>>
        \/ At(c, "unapply", "sources") /\ Delete(c, PatternSources(c), "count")

(* removeOrphanedTransactionLabels, one affected transaction at a time.    *)
RemoveOrphanedLabels(c) ==
    \/ /\ At(c, "unapply", "count") /\ affected[c] = {}
       /\ pc' = [pc EXCEPT ![c] = "commit"]
       /\ UNCHANGED <<db, ins, del, call, wait, affected, overlapped, spared, kept>>
    \/ /\ At(c, "unapply", "count")
       /\ \E m \in affected[c] :
             /\ affected' = [affected EXCEPT ![c] = @ \ {m}]
             /\ \/ HasSources(c, m) /\ UNCHANGED <<pc, wait>>
                \/ /\ ~HasSources(c, m)
                   /\ pc' = [pc EXCEPT ![c] = "untag"]
                   /\ wait' = [wait EXCEPT ![c] = Tags({m}, call[c].labels)]
       /\ UNCHANGED <<db, ins, del, call, overlapped, spared, kept>>
    \/ At(c, "unapply", "untag") /\ Delete(c, {}, "count")

(* DeleteLabel: "erase" if it also takes the label off the transactions.   *)
DeleteLabel(c) ==
    LET mappings == Mappings(call[c].labels, Patterns) \cap View(c)
    IN  \/ \E l \in Labels : \/ Begin(c, "delete", {}, {l}, {}, "mapping")
                             \/ Begin(c, "erase", {}, {l}, {}, "sources")
        \/ At(c, "erase", "sources") /\ Delete(c, RowsOf(c, SourceRows, Messages, call[c].labels), "tags")
        \/ At(c, "erase", "tags") /\ Delete(c, RowsOf(c, TagRows, Messages, call[c].labels), "mapping")
        \/ At(c, "erase", "mapping") /\ Delete(c, mappings, "commit")
        \/ At(c, "delete", "mapping") /\ Delete(c, mappings, "commit")

(* INSERT ... ON CONFLICT DO UPDATE locks the row, new or not.             *)
Upsert(c) ==
    LET rows == {Txn(m) : m \in call[c].messages}
        written == Free(c, rows)
        stored == {r[2] : r \in written}
        matches == Matches(stored, call[c].patterns)
        others == Matches(stored, Patterns \ call[c].patterns)
    IN  /\ Execute(c, rows, "sources")
        /\ ins' = [ins EXCEPT ![c] = @ \cup written \cup matches]
        /\ del' = [del EXCEPT ![c] = @ \cup (others \cap View(c))]
        /\ UNCHANGED <<db, call, affected, overlapped, spared, kept>>

(* Write stores a batch; extraction gives a transaction no labels of its   *)
(* own.  The patterns are those that match the merchant extracted.         *)
Ingest(c) ==
    LET M == call[c].messages
    IN  \/ \E B \in SUBSET Messages \ {{}}, P \in SUBSET Patterns : Begin(c, "ingest", B, {}, P, "upsert")
        \/ At(c, "ingest", "upsert") /\ Upsert(c)
        \/ /\ At(c, "ingest", "sources")
           /\ Insert(c, {r \in SourceRows : /\ r[2] \in M
                                            /\ Mapping(r[3], r[4]) \in View(c)
                                            /\ Match(r[2], r[4]) \in View(c)}, "tags")
        \/ /\ At(c, "ingest", "tags")
           /\ Insert(c, {Tag(r[2], r[3]) : r \in RowsOf(c, SourceRows, M, Labels)}, "commit")

Next ==
    \E c \in Clients :
        \/ AddLabels(c) \/ RemoveLabel(c) \/ ApplyLabelByMerchant(c) \/ DeleteLabel(c)
        \/ RemoveLabelByMerchant(c) \/ RemoveOrphanedLabels(c) \/ Ingest(c)
        \/ Commit(c) \/ Rollback(c)

Spec == Init /\ [][Next]_vars

-----------------------------------------------------------------------------
(* Properties.                                                             *)

Sourced(m, l) == \E p \in Patterns \cup {Manual} : Source(m, l, p) \in db

(* The labels a transaction shows are those it has a source for, unless    *)
(* requests that interfere ran together; others may overlap as they like.  *)
LabelsHaveSources ==
    ~overlapped =>
       \A m \in Messages, l \in Labels : Tag(m, l) \in db <=> Sourced(m, l)

TakesOff(c, m, l) ==
    /\ call[c].op \in {"remove", "erase"} /\ l \in call[c].labels
    /\ call[c].op = "remove" => m \in call[c].messages

(* "Manual label should remain": the reason for a label given by hand goes *)
(* only when the user takes the label off that transaction or deletes it   *)
(* everywhere.  Otherwise the label itself goes only with the removal of a *)
(* mapping that was under way when it was given: one that was there when   *)
(* the removal began, and stayed, survives it, whatever runs beside.       *)
ManualLabelsStay ==
    [][\A m \in Messages, l \in Labels :
          /\ Source(m, l, Manual) \in db \ db' =>
                \E c \in Clients : pc'[c] # pc[c] /\ TakesOff(c, m, l)
          /\ {Source(m, l, Manual), Tag(m, l)} \subseteq db /\ Tag(m, l) \notin db' =>
                \E c \in Clients :
                   /\ pc'[c] # pc[c]
                   /\ \/ TakesOff(c, m, l)
                      \/ call[c].op = "unapply" /\ Source(m, l, Manual) \notin kept[c]]_vars

(* A mapping reaches every transaction it matches, whether ingested before *)
(* it or after it, but for those the user took the label off, and unless   *)
(* the mapping was created during an ingestion or a removal.               *)
MappingsReachAll ==
    ~overlapped =>
       \A m \in Messages, l \in Labels, p \in Patterns :
          {Txn(m), Match(m, p), Mapping(l, p)} \subseteq db =>
             Source(m, l, p) \in db \cup spared
=============================================================================
