--------------------------------- MODULE Rules ---------------------------------
(***************************************************************************)
(* Extraction rules: the table rules (store/postgres/rules_repository.go), *)
(* the requests that change it (httpapi/handlers_rules.go), the documents  *)
(* they import and export (internal/rules/document.go), and the scans that *)
(* merge a tenant's rules with those of the binary (internal/rules,        *)
(* daemon/scan.go).                                                        *)
(*                                                                         *)
(* A scan appears by the rules it starts with, by whether it starts from a *)
(* checkpoint, and by the checkpoint it saves.                             *)
(*                                                                         *)
(* A definition whose comment begins with "Fault:" is a mistaken variant   *)
(* of the one after it, kept to show that a property notices the mistake.  *)
(***************************************************************************)
EXTENDS Naturals, FiniteSets, Sequences, SequencesExt

CONSTANTS
    Tenants, System,    \* the owners of rows; System owns the predefined ones
    Connecting,         \* tenants that may connect a reader
    Ids,                \* keys of the rows
    Lower,              \* addresses in lower case
    Embedded,           \* the rules of each build: a sequence of sequences
    Expressions,        \* texts that are regular expressions
    Bodies,             \* contents of requests, RuleMutationRequest
    Documents,          \* documents that may be imported
    None

ASSUME TenantAssumption == System \notin Tenants /\ Connecting \subseteq Tenants
ASSUME IdAssumption == IsFiniteSet(Ids)
VARIABLES
    rules,       \* the table
    build,       \* the binary that runs
    reader,      \* tenants with an active reader
    checkpoint,  \* tenants whose reader has a last_scan_at
    scans,       \* the scheduler's scans and the daemon's
    queued,      \* the daemon's next request
    handler,     \* the request being handled
    owed         \* rules of each tenant whose creation cleared the checkpoint and
                 \* which no scan has tried on all mail yet

ruleVars == <<rules, build, reader, checkpoint, scans, queued, handler, owed>>

Owners == Tenants \cup {System}
Stored == {i \in Ids : rules[i] # None}
Own(t) == {i \in Stored : rules[i].tenant = t}

\* The daemon runs one scan at a time, the scheduler one per tenant.
Daemon == "daemon"
Scans == Tenants \cup {Daemon}

Idle == [pc |-> "idle"]

-----------------------------------------------------------------------------
\* Conversions.  A text is the sequence of its words, Blank where it is blank; an
\* address is one word.

Blank == " "
Dash == "-"

Text == Seq(STRING)
Source == [type : Text, label : Text, bank : Text]
NoSource == [type |-> <<>>, label |-> <<>>, bank |-> <<>>]
Addresses == DOMAIN Lower

ASSUME LowerAssumption ==
    /\ Blank \notin Addresses
    /\ \A a \in Addresses : Lower[a] \in Addresses /\ Lower[Lower[a]] = Lower[a]

Trim(text) ==
    LET words == {k \in DOMAIN text : text[k] # Blank}
    IN IF words = {} THEN <<>> ELSE SubSeq(text, Min(words), Max(words))
FirstOf(u, v) == IF u # <<>> THEN u ELSE v

\* Bank, type and label in one line; a label that repeats the others is left out.
Display(source) ==
    LET shown == Trim(source.bank) \o Trim(source.type)
        label == Trim(source.label)
    IN IF label = shown THEN shown ELSE shown \o label

AddSender(out, a) ==
    IF a = Blank \/ Contains(out, Lower[a]) THEN out ELSE Append(out, Lower[a])

\* In lower case, each once, no blank one.
normalizedHTTPSenders(senders) ==
    LET out[n \in 0..Len(senders)] == IF n = 0 THEN <<>> ELSE AddSender(out[n - 1], senders[n])
    IN out[Len(senders)]

TrimSource(source) ==
    [type |-> Trim(source.type), label |-> Trim(source.label), bank |-> Trim(source.bank)]

ruleMutationToRow(b) ==
    [name |-> Trim(b.name), senders |-> normalizedHTTPSenders(b.senders),
     amount |-> Trim(b.amount), merchant |-> Trim(b.merchant), source |-> TrimSource(b.source)]

\* What the statements store: a source without a label is given what it displays.
Row(t, r) ==
    [tenant |-> t, name |-> r.name, senders |-> r.senders, amount |-> r.amount,
     merchant |-> r.merchant,
     source |-> [r.source EXCEPT !.label = FirstOf(@, Display(r.source))]]

ruleDocumentEntryFromRow(r) ==
    [name |-> r.name, senders |-> normalizedHTTPSenders(r.senders), amount |-> r.amount,
     merchant |-> r.merchant, source |-> r.source, legacy |-> <<>>]

\* A legacy source is one line: a type and a bank around a dash, or any text.  Only a
\* dash with a space of its own on either side separates.
splitLegacySource(text) ==
    LET separates[k \in DOMAIN text] ==
            k > 1 /\ k < Len(text) /\ text[k] = Dash /\ ~separates[k - 1]
        dashes == {k \in DOMAIN text : separates[k]}
    IN IF Cardinality(dashes) = 1
       THEN LET k == CHOOSE d \in dashes : TRUE
            IN [type |-> Trim(SubSeq(text, 1, k - 1)), label |-> text,
                bank |-> Trim(SubSeq(text, k + 1, Len(text)))]
       ELSE [type |-> <<>>, label |-> text, bank |-> <<>>]

\* A rule needs a name, a sender and both expressions, which are compiled trimmed.
Compiles(e) ==
    /\ <<>> \notin {Trim(e.name), Trim(e.amount), Trim(e.merchant)}
    /\ {Trim(e.amount), Trim(e.merchant)} \subseteq Expressions
    /\ normalizedHTTPSenders(e.senders) # <<>>

compileRule(e) ==
    [name |-> Trim(e.name), senders |-> normalizedHTTPSenders(e.senders),
     amount |-> Trim(e.amount), merchant |-> Trim(e.merchant),
     source |-> IF e.source = NoSource
                THEN splitLegacySource(Trim(e.legacy)) ELSE e.source]

\* One rule that is not valid makes the whole document invalid.
Valid(doc) == \A k \in DOMAIN doc : Compiles(doc[k])
ParseDocument(doc) == [k \in DOMAIN doc |-> compileRule(doc[k])]

-----------------------------------------------------------------------------
\* What the inputs are.  RuleMutationRequest is validated before it is handled, and
\* before it is trimmed: expressions compile as they were sent, a name and
\* expressions may be blank, a sender may not.

ASSUME ExpressionAssumption == Expressions \subseteq Text

ASSUME BodyAssumption ==
    Bodies \subseteq [name : Text, senders : Seq(Addresses) \ {<<>>}, amount : Expressions,
                      merchant : Expressions, source : Source]

ASSUME DocumentAssumption ==
    \A doc \in Documents :
        doc \in Seq([name : Text, senders : Seq(Addresses \cup {Blank}), amount : Text,
                    merchant : Text, source : Source, legacy : Text])

TableRow ==
    [tenant : Owners, name : Text, senders : Seq(Addresses), amount : Text, merchant : Text,
     source : Source]
ASSUME NoneAssumption == None \notin TableRow

\* A build has one rule per name.
ASSUME EmbeddedAssumption ==
    /\ 1 \in DOMAIN Embedded
    /\ \A b \in DOMAIN Embedded :
         /\ Len(Embedded[b]) \in Nat /\ DOMAIN Embedded[b] = 1..Len(Embedded[b])
         /\ \A k \in DOMAIN Embedded[b] : Row(System, Embedded[b][k]) \in TableRow
         /\ \A j, k \in DOMAIN Embedded[b] : Embedded[b][j].name = Embedded[b][k].name => j = k

-----------------------------------------------------------------------------
\* Statements on a table

Rows(table) == {table[i] : i \in {j \in Ids : table[j] # None}}
Has(table, t, name) == \E r \in Rows(table) : r.tenant = t /\ r.name = name
KeyOf(table, t, name) ==
    CHOOSE i \in Ids : table[i] # None /\ table[i].tenant = t /\ table[i].name = name
FreeKey(table) == CHOOSE i \in Ids : table[i] = None
Full(table, n) == Cardinality({i \in Ids : table[i] = None}) < n

Insert(table, t, r) == [table EXCEPT ![FreeKey(table)] = Row(t, r)]

\* Fault: a rule that exists is left as it is.
UpsertNothing(table, t, r) == IF Has(table, t, r.name) THEN table ELSE Insert(table, t, r)

\* INSERT .. ON CONFLICT DO UPDATE
Upsert(table, t, r) ==
    IF Has(table, t, r.name) THEN [table EXCEPT ![KeyOf(table, t, r.name)] = Row(t, r)]
    ELSE Insert(table, t, r)

\* One statement per rule; after[n] is the table after n of them.
ImportUserRules(table, t, rs) ==
    LET after[n \in 0..Len(rs)] == IF n = 0 THEN table ELSE Upsert(after[n - 1], t, rs[n])
    IN after[Len(rs)]

\* INSERT .. ON CONFLICT DO NOTHING: what an older build stored stays.
InsertMissing(table, t, r) == IF Has(table, t, r.name) THEN table ELSE Insert(table, t, r)
SeedPredefinedRules(table, rs) ==
    LET after[n \in 0..Len(rs)] == IF n = 0 THEN table ELSE InsertMissing(after[n - 1], System, rs[n])
    IN after[Len(rs)]

ListRules(t) == {r \in Rows(rules) : r.tenant \in {t, System}}

\* ExportRules, as the document it writes.
ExportRules(t) ==
    SetToSeq({ruleDocumentEntryFromRow(r) : r \in {q \in ListRules(t) : q.tenant # System}})

-----------------------------------------------------------------------------
\* What a scan extracts with

Extract(r) == [name |-> r.name, senders |-> r.senders, amount |-> r.amount,
               merchant |-> r.merchant, source |-> r.source]

\* A row need not compile: what was validated was trimmed before it was stored, and
\* an escaped space at its end lost the space.
compilePersisted(r) == {r.amount, r.merchant} \subseteq Expressions

\* Fault: predefined rows are loaded too, and stand for the binary's rules.
LoadAllPersisted(t) == SetToSeq({Extract(r) : r \in {q \in ListRules(t) : compilePersisted(q)}})

\* Rows that do not compile are skipped.
LoadPersisted(t) ==
    SetToSeq({Extract(r) : r \in {q \in ListRules(t) : q.tenant # System /\ compilePersisted(q)}})

\* The user's own rules come in any order, as LoadPersisted lists them.
MergeRules(system, user) ==
    LET Named(r, q) == q.name = r.name
        Override(r) == IF \E k \in DOMAIN user : Named(r, user[k])
                       THEN user[CHOOSE k \in DOMAIN user : Named(r, user[k])] ELSE r
    IN [k \in DOMAIN system |-> Override(system[k])]
       \o SetToSeq({q \in ToSet(user) : \A k \in DOMAIN system : ~Named(q, system[k])})

\* LoadPersisted answers nothing when the rules cannot be listed.
ScanRules(t, listed) == MergeRules(Embedded[build], IF listed THEN LoadPersisted(t) ELSE <<>>)

-----------------------------------------------------------------------------
RulesInit ==
    /\ build = 1
    /\ rules = SeedPredefinedRules([i \in Ids |-> None], Embedded[1])
    /\ reader \in SUBSET Connecting
    /\ checkpoint \in SUBSET reader
    /\ scans = [s \in Scans |-> Idle]
    /\ queued = None
    /\ handler = Idle
    /\ owed = [t \in Tenants |-> {}]

\* A new build is installed: no scan and no request survives.
Upgrade ==
    /\ build + 1 \in DOMAIN Embedded
    /\ build' = build + 1
    /\ ~Full(rules, Len(Embedded[build']))
    /\ rules' = SeedPredefinedRules(rules, Embedded[build'])
    /\ scans' = [s \in Scans |-> Idle]
    /\ queued' = None
    /\ handler' = Idle
    /\ UNCHANGED <<reader, checkpoint, owed>>

\* A reader is connected or removed; its checkpoint stays.
SetReader(t) ==
    /\ t \in Connecting
    /\ reader' = IF t \in reader THEN reader \ {t} ELSE reader \cup {t}
    /\ UNCHANGED <<rules, build, checkpoint, scans, queued, handler, owed>>

-----------------------------------------------------------------------------
\* Requests

Handle(h) ==
    /\ handler' = h
    /\ UNCHANGED <<build, reader, queued>>

CreateRule(t, b) ==
    LET r == ruleMutationToRow(b)
    IN /\ handler = Idle
       /\ ~Has(rules, t, r.name) /\ ~Full(rules, 1)
       /\ rules' = Insert(rules, t, r)
       /\ Handle([pc |-> "state", tenant |-> t, id |-> FreeKey(rules)])
       /\ UNCHANGED <<checkpoint, scans, owed>>

\* clearActiveReaderCheckpointForNewRule
ReadActiveReader ==
    /\ handler.pc = "state"
    /\ Handle(IF handler.tenant \in reader THEN [handler EXCEPT !.pc = "clear"] ELSE Idle)
    /\ UNCHANGED <<rules, checkpoint, scans, owed>>

\* A scan under way will save its checkpoint over the cleared one.
ClearCheckpoint ==
    /\ handler.pc = "clear"
    /\ checkpoint' = checkpoint \ {handler.tenant}
    /\ Handle([handler EXCEPT !.pc = "restart"])
    /\ owed' = [owed EXCEPT ![handler.tenant] = @ \cup ({handler.id} \cap Stored)]
    /\ scans' = [s \in Scans |-> IF scans[s] # Idle /\ scans[s].tenant = handler.tenant
                                 THEN [scans[s] EXCEPT !.overtaken = @ \cup {handler.id}]
                                 ELSE scans[s]]
    /\ UNCHANGED rules

\* Either statement fails: the rule is created all the same.
ClearFails ==
    /\ handler.pc \in {"state", "clear"}
    /\ Handle(Idle)
    /\ UNCHANGED <<rules, checkpoint, scans, owed>>

\* The daemon is restarted for this tenant if it runs, for whomever it runs.
RestartDaemon ==
    /\ handler.pc = "restart"
    /\ handler' = Idle
    /\ IF scans[Daemon] = Idle THEN UNCHANGED <<scans, queued>>
       ELSE /\ scans' = [scans EXCEPT ![Daemon].live = FALSE]
            /\ queued' = handler.tenant
    /\ UNCHANGED <<rules, build, reader, checkpoint, owed>>

UpdateRule(t, i, b) ==
    LET r == ruleMutationToRow(b)
    IN /\ i \in Own(t)
       /\ r.name # rules[i].name => ~Has(rules, t, r.name)
       /\ rules' = [rules EXCEPT ![i] = Row(t, r)]
       /\ UNCHANGED <<build, reader, checkpoint, scans, queued, handler, owed>>

\* GetRule, which finds predefined rules too, then the statement that deletes.
DeleteRule(t, i) ==
    /\ handler = Idle
    /\ i \in Own(t)
    /\ Handle([pc |-> "delete", tenant |-> t, id |-> i])
    /\ UNCHANGED <<rules, checkpoint, scans, owed>>

Delete ==
    /\ handler.pc = "delete"
    /\ Handle(Idle)
    /\ rules' = [rules EXCEPT ![handler.id] = None]
    /\ owed' = [owed EXCEPT ![handler.tenant] = @ \ {handler.id}]
    /\ UNCHANGED <<checkpoint, scans>>

ImportRules(t, doc) ==
    LET rs == ParseDocument(doc)
    IN /\ Valid(doc)
       /\ ~Full(rules, Len(rs))
       /\ rules' = ImportUserRules(rules, t, rs)
       /\ UNCHANGED <<build, reader, checkpoint, scans, queued, handler, owed>>

-----------------------------------------------------------------------------
\* Scans

Scanning(s) == scans[s] # Idle

\* scanConfig reads the checkpoint before the rules are listed.
BeginScan(s, t, forced) ==
    /\ ~Scanning(s)
    /\ t \in reader
    /\ scans' = [scans EXCEPT ![s] = [pc |-> "rules", tenant |-> t, live |-> TRUE,
                                      full |-> forced \/ t \notin checkpoint,
                                      own |-> {}, listed |-> TRUE, overtaken |-> {}]]
    /\ UNCHANGED <<rules, build, reader, checkpoint, handler, owed>>

BeginScheduled(t) == BeginScan(t, t, FALSE) /\ UNCHANGED queued

\* Start and Rescan of the daemon, or the restart that was asked for.
BeginDaemon(t, forced) ==
    /\ queued \in {None, t}
    /\ BeginScan(Daemon, t, forced)
    /\ queued' = None

\* The scan extracts with ScanRules(t, listed); it records which rows it listed, those
\* it skips because they do not compile among them.
LoadRules(s) ==
    /\ scans[s].pc = "rules"
    /\ \E listed \in BOOLEAN :
         scans' = [scans EXCEPT ![s].pc = "reading", ![s].listed = listed,
                                ![s].own = IF listed THEN Own(scans[s].tenant) ELSE {}]
    /\ UNCHANGED <<rules, build, reader, checkpoint, queued, handler, owed>>

\* What a scan has made good: the rules it tried on all mail.  It leaves the rules
\* behind that overtook it, or that it could not list.
Settled(s) ==
    LET x == scans[s] IN x.overtaken \cup (IF ~x.listed THEN Ids ELSE IF x.full THEN x.own ELSE {})

\* Fault: a scan that was cancelled saves its checkpoint as well.
SaveAlways(s) ==
    /\ checkpoint' = checkpoint \cup {scans[s].tenant}
    /\ owed' = [owed EXCEPT ![scans[s].tenant] =
                  IF scans[s].live THEN @ \ Settled(s) ELSE @]

\* OnCheckpoint: a scan that was cancelled saves nothing.
OnCheckpoint(s) ==
    IF scans[s].live
    THEN /\ checkpoint' = checkpoint \cup {scans[s].tenant}
         /\ owed' = [owed EXCEPT ![scans[s].tenant] = @ \ Settled(s)]
    ELSE UNCHANGED <<checkpoint, owed>>

\* An iteration ends well: the daemon goes on with what arrives next.
Iterated(s) ==
    /\ scans[s].pc = "reading"
    /\ OnCheckpoint(s)
    /\ scans' = [scans EXCEPT ![s] = IF s = Daemon /\ @.live THEN [@ EXCEPT !.full = FALSE]
                                   ELSE Idle]
    /\ UNCHANGED <<rules, build, reader, queued, handler>>

\* A scan fails or is stopped.
EndScan(s) ==
    /\ Scanning(s)
    /\ scans' = [scans EXCEPT ![s] = Idle]
    /\ UNCHANGED <<rules, build, reader, checkpoint, queued, handler, owed>>

ScanStep ==
    \/ \E t \in Tenants : BeginScheduled(t)
    \/ \E t \in Tenants, forced \in BOOLEAN : BeginDaemon(t, forced)
    \/ \E s \in Scans : LoadRules(s) \/ Iterated(s) \/ EndScan(s)

HandlerStep == ReadActiveReader \/ ClearCheckpoint \/ ClearFails \/ RestartDaemon \/ Delete

RuleRequest ==
    \E t \in Tenants :
        \/ \E b \in Bodies : CreateRule(t, b)
        \/ \E i \in Ids, b \in Bodies : UpdateRule(t, i, b)
        \/ \E i \in Ids : DeleteRule(t, i)
        \/ \E doc \in Documents : ImportRules(t, doc)
        \/ SetReader(t)

RulesNext == ScanStep \/ HandlerStep \/ RuleRequest \/ Upgrade
RulesSpec == RulesInit /\ [][RulesNext]_ruleVars

-----------------------------------------------------------------------------
\* The rows of a tenant's rules that a scan can use.
Usable(t) == {i \in Own(t) : {rules[i].amount, rules[i].merchant} \subseteq Expressions}

\* A scan extracts with one rule per name: the tenant's own where it has one whose
\* expressions compile, else the one of the binary that runs, whatever an older
\* binary left among the predefined rows; never with another tenant's, and with the
\* binary's alone when the rules cannot be listed.  So a rule that overrides the
\* binary's gives way to it again when its stored expression does not compile.
ScansUseOwnRules ==
    \A t \in Tenants, listed \in BOOLEAN :
        LET used == ScanRules(t, listed)
            own == {Extract(rules[i]) : i \in IF listed THEN Usable(t) ELSE {}}
        IN /\ \A j, k \in DOMAIN used : used[j].name = used[k].name => j = k
           /\ ToSet(used) = own \cup {r \in ToSet(Embedded[build]) :
                                        r.name \notin {q.name : q \in own}}

\* A rule that was created while mail had been scanned is tried on all of it: until
\* a scan that was begun with the rule has read everything, no checkpoint makes
\* the next scan skip old mail.  Rules that a scan under way overtakes (it saves
\* its checkpoint after the rule's creation cleared it) and rules that a scan could
\* not list are not covered, nor those that it listed and skipped because they do
\* not compile.
NewRulesReachOldMail == \A t \in Tenants : owed[t] # {} => t \notin checkpoint

\* What a tenant exports can be imported, unless a request left a rule without a name
\* or with an expression that is blank or does not compile, which the trimming of
\* one that does may leave: where it came from it changes nothing, and where there
\* was nothing it leaves the same rules, sources included; of rules that exist
\* there, the imported ones win and the others stay.
ImportRestoresExport ==
    \A t \in Tenants :
        LET own == {rules[i] : i \in Own(t)}
            doc == ExportRules(t)
            rs == ParseDocument(doc)
            empty == [i \in Ids |-> None]
        IN /\ Valid(doc) <=> \A r \in own : /\ <<>> \notin {r.name, r.amount, r.merchant}
                                           /\ {r.amount, r.merchant} \subseteq Expressions
           /\ Valid(doc) =>
                /\ ImportUserRules(rules, t, rs) = rules
                /\ Rows(ImportUserRules(empty, t, rs)) = own
                /\ \A u \in Tenants \ {t} :
                     LET there == {rules[i] : i \in Own(u)}
                         merged == {r \in Rows(ImportUserRules(rules, u, rs)) : r.tenant = u}
                     IN ~Full(rules, Len(rs)) =>
                          merged = {[r EXCEPT !.tenant = u] : r \in own}
                                   \cup {r \in there : r.name \notin {q.name : q \in own}}
=============================================================================
