------------------------------- MODULE Community -------------------------------
(***************************************************************************)
(* Community content: internal/community/service.go, the tables it fills   *)
(* (store/postgres/community_repository.go) and the category resolver that *)
(* scans take from them (Controller.RefreshResolver).                      *)
(*                                                                         *)
(* One goroutine syncs at start and at every tick, others are spawned by   *)
(* requests; they may overlap.  A step is one fetch, one statement or one  *)
(* critical section.  An entry is reduced to the release it comes from:    *)
(* release 0 is the content bundled with the binary.                       *)
(*                                                                         *)
(* A definition whose comment begins with "Fault:" is a mistaken variant   *)
(* of the one after it, kept to show that a property notices the mistake.  *)
(***************************************************************************)
EXTENDS Naturals, FiniteSets

CONSTANTS
    Codes, Fragments,   \* keys of mcc_codes and of the global merchant_categories
    Periodic, Triggers,     \* the goroutine of Run, and those of Trigger
    MaxRelease,         \* bounds on the releases published upstream
    MaxFaults           \* and on fetches, statements and deadlines that fail

ASSUME KeyAssumption == Codes \cap Fragments = {}
ASSUME SyncAssumption == Periodic \notin Triggers
ASSUME BoundAssumption == {MaxRelease, MaxFaults} \subseteq Nat

Entries == Codes \cup Fragments
Syncs == Triggers \cup {Periodic}
Releases == 0 .. MaxRelease

VARIABLES
    upstream,   \* the release that the community URL serves
    content,    \* the release each stored entry comes from
    enabled,    \* community_auto_sync_enabled
    resolver,   \* the snapshot of content in ScanService.resolver
    sync,       \* the goroutines that sync
    closed,     \* Service.closed
    cancelled,  \* those whose parent context is cancelled
    faults,
    daemon      \* the controller, as far as syncs and shutdown see it

contentVars == <<content, resolver>>
vars == <<upstream, contentVars, enabled, sync, closed, cancelled, faults, daemon>>

Content == [Entries -> Releases]

Goroutine == [pc : {"none", "spawned", "idle", "settings", "mcc", "categories", "seed", "status",
                    "load", "set", "exited"},
              first : BOOLEAN,                   \* the sync at the start of Run
              cut : BOOLEAN,                     \* its context is done
              mcc : Releases, cat : Releases,    \* what it fetched
              todo : SUBSET Entries,             \* what it has still to store
              loaded : Content]                  \* the snapshot it read

Blank == [pc |-> "none", first |-> FALSE, cut |-> FALSE, mcc |-> 0, cat |-> 0,
          todo |-> {}, loaded |-> [e \in Entries |-> 0]]

Daemon == [closed : BOOLEAN,    \* Controller.closed
           active : BOOLEAN]    \* its worker has a command, or a run is alive

TypeOK ==
    /\ upstream \in Releases
    /\ content \in Content /\ resolver \in Content
    /\ enabled \in BOOLEAN /\ closed \in BOOLEAN
    /\ sync \in [Syncs -> Goroutine]
    /\ cancelled \subseteq Syncs
    /\ faults \in 0 .. MaxFaults
    /\ daemon \in Daemon

Bundled == [e \in Entries |-> 0]

CommunityInit ==
    /\ upstream \in Releases
    /\ \E r \in Releases : content = [e \in Entries |-> r]
    /\ resolver = Bundled
    /\ enabled = TRUE
    /\ sync = [p \in Syncs |-> Blank]
    /\ closed = FALSE
    /\ cancelled = {}
    /\ faults = 0
    /\ daemon = [closed |-> FALSE, active |-> FALSE]

-----------------------------------------------------------------------------
\* Outcomes of a call with the context of p

At(p, pc) == sync[p].pc = pc
Goto(p, pc) == sync' = [sync EXCEPT ![p].pc = pc]

Succeeds(p) == ~sync[p].cut /\ UNCHANGED faults

Fails(p) ==
    \/ sync[p].cut /\ UNCHANGED faults
    \/ ~sync[p].cut /\ faults < MaxFaults /\ faults' = faults + 1

\* The goroutine leaves sync and RefreshResolver: Run waits, Trigger returns.
Rest(p) ==
    sync' = [sync EXCEPT ![p] = [Blank EXCEPT !.pc = IF p = Periodic THEN "idle" ELSE "none"]]

\* What was fetched and is still to store is forgotten.
Leave(p, pc) ==
    sync' = [sync EXCEPT ![p] = [Blank EXCEPT !.pc = pc, !.first = sync[p].first, !.cut = sync[p].cut]]

\* Fault: only a manual sync refreshes the resolver.
RefreshManual(p) == IF p = Periodic THEN Rest(p) ELSE Goto(p, "load")

\* After sync: a refresh, except at the start of Run.
AfterSync(p) == IF sync[p].first THEN Rest(p) ELSE Goto(p, "load")

-----------------------------------------------------------------------------
\* Run and Trigger

Begin(p, pc, first) ==
    sync' = [sync EXCEPT ![p] = [Blank EXCEPT !.pc = pc, !.first = first, !.cut = p \in cancelled]]

Tick ==
    /\ At(Periodic, "idle")
    /\ Begin(Periodic, "settings", FALSE)
    /\ UNCHANGED <<upstream, contentVars, enabled, closed, cancelled, faults, daemon>>

RunReturns ==
    /\ At(Periodic, "idle")
    /\ Periodic \in cancelled
    /\ Goto(Periodic, "exited")
    /\ UNCHANGED <<upstream, contentVars, enabled, closed, cancelled, faults, daemon>>

\* Fault: closed is not looked at.
TriggerAlways(p) ==
    /\ At(p, "spawned")
    /\ Begin(p, "mcc", FALSE)
    /\ UNCHANGED <<upstream, contentVars, enabled, closed, cancelled, faults, daemon>>

\* Joins the manual wait group, unless the service is closed.
Trigger(p) ==
    /\ At(p, "spawned")
    /\ IF closed THEN Rest(p) ELSE Begin(p, "mcc", FALSE)
    /\ UNCHANGED <<upstream, contentVars, enabled, closed, cancelled, faults, daemon>>

\* The wait group of Close.
manual == {p \in Triggers : ~At(p, "none") /\ ~At(p, "spawned")}

\* Fault: the syncs under way are cut short, those to come are not.
CutSyncs(S) ==
    /\ sync' = [p \in Syncs |-> IF p \in S /\ ~At(p, "none") /\ ~At(p, "spawned") /\ ~At(p, "idle")
                                  THEN [sync[p] EXCEPT !.cut = TRUE] ELSE sync[p]]
    /\ UNCHANGED cancelled

CancelSyncs(S) ==
    /\ cancelled' = cancelled \cup S
    /\ sync' = [p \in Syncs |-> IF p \in S /\ ~At(p, "none") /\ ~At(p, "spawned") /\ ~At(p, "idle")
                                  THEN [sync[p] EXCEPT !.cut = TRUE] ELSE sync[p]]

\* SyncTimeout passes.
Deadline(p) ==
    /\ sync[p].pc \notin {"none", "spawned", "idle", "exited"}
    /\ ~sync[p].cut
    /\ faults < MaxFaults
    /\ faults' = faults + 1
    /\ sync' = [sync EXCEPT ![p].cut = TRUE]
    /\ UNCHANGED <<upstream, contentVars, enabled, closed, cancelled, daemon>>

-----------------------------------------------------------------------------
\* sync

ReadSettings ==
    /\ At(Periodic, "settings")
    /\ \/ Succeeds(Periodic) /\ IF enabled THEN Goto(Periodic, "mcc") ELSE AfterSync(Periodic)
       \/ Fails(Periodic) /\ AfterSync(Periodic)
    /\ UNCHANGED <<upstream, contentVars, enabled, closed, cancelled, daemon>>

FetchMCC(p) ==
    /\ At(p, "mcc")
    /\ \/ Succeeds(p) /\ sync' = [sync EXCEPT ![p].pc = "categories", ![p].mcc = upstream]
       \/ Fails(p) /\ Leave(p, "status")
    /\ UNCHANGED <<upstream, contentVars, enabled, closed, cancelled, daemon>>

FetchCategories(p) ==
    /\ At(p, "categories")
    /\ \/ /\ Succeeds(p)
          /\ sync' = [sync EXCEPT ![p].pc = "seed", ![p].cat = upstream, ![p].todo = Entries]
       \/ Fails(p) /\ Leave(p, "status")
    /\ UNCHANGED <<upstream, contentVars, enabled, closed, cancelled, daemon>>

\* SeedMCCCodes, then SeedMerchantCategories: each entry is a statement of its own.
Upsert(p, e) ==
    LET s == sync[p] IN
    /\ At(p, "seed")
    /\ e \in s.todo
    /\ s.todo \cap Codes # {} => e \in Codes
    /\ \/ /\ Succeeds(p)
          /\ content' = [content EXCEPT ![e] = IF e \in Codes THEN s.mcc ELSE s.cat]
          /\ IF s.todo = {e} THEN Leave(p, "status") ELSE sync' = [sync EXCEPT ![p].todo = @ \ {e}]
       \/ Fails(p) /\ Leave(p, "status") /\ UNCHANGED content
    /\ UNCHANGED <<upstream, enabled, resolver, closed, cancelled, daemon>>

\* SetSyncStatus and recordError: a status that cannot be written is only logged,
\* and only the status page reads it.
RecordStatus(p) ==
    /\ At(p, "status")
    /\ AfterSync(p)
    /\ UNCHANGED <<upstream, contentVars, enabled, closed, cancelled, faults, daemon>>

-----------------------------------------------------------------------------
\* RefreshResolver

LoadCategorySnapshot(p) ==
    /\ At(p, "load")
    /\ IF daemon.closed
         THEN Rest(p) /\ UNCHANGED faults
         ELSE \/ Succeeds(p) /\ sync' = [sync EXCEPT ![p].pc = "set", ![p].loaded = content]
              \/ Fails(p) /\ Rest(p)
    /\ UNCHANGED <<upstream, contentVars, enabled, closed, cancelled, daemon>>

\* The restart this asks of a daemon that runs only prolongs its activity.
SetResolver(p) ==
    /\ At(p, "set")
    /\ resolver' = sync[p].loaded
    /\ Rest(p)
    /\ UNCHANGED <<upstream, content, enabled, closed, cancelled, faults, daemon>>

-----------------------------------------------------------------------------

\* A new release appears at the community URL.
Publish ==
    /\ upstream < MaxRelease
    /\ upstream' = upstream + 1
    /\ UNCHANGED <<contentVars, enabled, sync, closed, cancelled, faults, daemon>>

SyncStep(p) ==
    \/ Trigger(p)
    \/ p = Periodic /\ ReadSettings
    \/ FetchMCC(p)
    \/ FetchCategories(p)
    \/ \E e \in Entries : Upsert(p, e)
    \/ RecordStatus(p)
    \/ LoadCategorySnapshot(p)
    \/ SetResolver(p)

CommunityNext ==
    \/ Publish
    \/ Tick
    \/ RunReturns
    \/ \E p \in Syncs : Deadline(p) \/ SyncStep(p)
=============================================================================
