--------------------------- MODULE ApplicationProofs ---------------------------
(***************************************************************************)
(* Theorems about the life of the server process, for every set of entries *)
(* and requests, any number of manual syncs, and all bounds.               *)
(***************************************************************************)
EXTENDS Application, TLAPS

Pc == {"none", "spawned", "idle", "settings", "mcc", "categories", "seed", "status",
       "load", "set", "exited"}

\* A step of the goroutine p alone, which ends at one of the positions in S.
Moves(p, S) ==
    /\ sync' \in [Syncs -> Goroutine]
    /\ sync'[p].pc \in S
    /\ \A q \in Syncs : q # p => sync'[q] = sync[q]

USE DEF contentVars, mainVars

-----------------------------------------------------------------------------
\* Positions of goroutines

LEMMA BlankType == Blank \in Goroutine /\ Bundled \in Content
<1>1. 0 \in Releases
  BY BoundAssumption DEF Releases
<1> QED
  BY <1>1 DEF Blank, Goroutine, Content, Bundled

\* Any update of one goroutine's record by another record.
LEMMA SetMoves ==
    ASSUME TypeOK, NEW p \in Syncs, NEW s \in Goroutine, sync' = [sync EXCEPT ![p] = s]
    PROVE  Moves(p, {s.pc})
BY DEF TypeOK, Moves

LEMMA GotoMoves ==
    ASSUME TypeOK, NEW p \in Syncs, NEW pc \in Pc, Goto(p, pc)
    PROVE  Moves(p, {pc})
<1>1. sync[p] \in Goroutine /\ sync' = [sync EXCEPT ![p] = [sync[p] EXCEPT !.pc = pc]]
  BY DEF TypeOK, Goto
<1>2. [sync[p] EXCEPT !.pc = pc] \in Goroutine /\ [sync[p] EXCEPT !.pc = pc].pc = pc
  BY <1>1 DEF Goroutine, Pc
<1> QED
  BY <1>1, <1>2, SetMoves

LEMMA RestMoves ==
    ASSUME TypeOK, NEW p \in Syncs, Rest(p)
    PROVE  Moves(p, {IF p = Periodic THEN "idle" ELSE "none"})
<1> DEFINE pc == IF p = Periodic THEN "idle" ELSE "none"
           s == [Blank EXCEPT !.pc = pc]
<1>0. pc \in {"idle", "none"}
  OBVIOUS
<1>2. sync' = [sync EXCEPT ![p] = s]
  BY DEF Rest
<1> HIDE DEF pc
<1>1. s \in Goroutine /\ s.pc = pc
  BY <1>0, BlankType DEF Goroutine
<1> HIDE DEF s
<1> QED
  BY <1>1, <1>2, SetMoves DEF pc

LEMMA LeaveMoves ==
    ASSUME TypeOK, NEW p \in Syncs, NEW pc \in Pc, Leave(p, pc)
    PROVE  Moves(p, {pc})
<1> DEFINE s == [Blank EXCEPT !.pc = pc, !.first = sync[p].first, !.cut = sync[p].cut]
<1>1. sync[p].first \in BOOLEAN /\ sync[p].cut \in BOOLEAN
  BY DEF TypeOK, Goroutine
<1>2. s \in Goroutine /\ s.pc = pc
  BY <1>1, BlankType DEF Goroutine, Pc
<1>3. sync' = [sync EXCEPT ![p] = s]
  BY DEF Leave
<1> HIDE DEF s
<1> QED
  BY <1>2, <1>3, SetMoves

LEMMA BeginMoves ==
    ASSUME TypeOK, NEW p \in Syncs, NEW pc \in Pc, NEW b \in BOOLEAN, Begin(p, pc, b)
    PROVE  Moves(p, {pc})
<1> DEFINE cut == p \in cancelled
           s == [Blank EXCEPT !.pc = pc, !.first = b, !.cut = cut]
<1>0. cut \in BOOLEAN
  OBVIOUS
<1>2. sync' = [sync EXCEPT ![p] = s]
  BY DEF Begin
<1> HIDE DEF cut
<1>1. s \in Goroutine /\ s.pc = pc
  BY <1>0, BlankType DEF Goroutine, Pc
<1> HIDE DEF s
<1> QED
  BY <1>1, <1>2, SetMoves

LEMMA AfterSyncMoves ==
    ASSUME TypeOK, NEW p \in Syncs, AfterSync(p)
    PROVE  Moves(p, {"load", IF p = Periodic THEN "idle" ELSE "none"})
<1>1. CASE Rest(p)
  BY <1>1, RestMoves DEF Moves
<1>2. CASE Goto(p, "load")
  BY <1>2, GotoMoves DEF Moves, Pc
<1> QED
  BY <1>1, <1>2 DEF AfterSync

\* Cancelling contexts and passing deadlines moves nobody.
LEMMA CutStays ==
    ASSUME TypeOK, NEW S, CancelSyncs(S)
    PROVE  /\ sync' \in [Syncs -> Goroutine]
           /\ \A p \in Syncs : sync'[p].pc = sync[p].pc
<1>1. \A p \in Syncs : /\ sync[p] \in Goroutine
                       /\ [sync[p] EXCEPT !.cut = TRUE] \in Goroutine
                       /\ [sync[p] EXCEPT !.cut = TRUE].pc = sync[p].pc
  BY DEF TypeOK, Goroutine
<1> QED
  BY <1>1 DEF CancelSyncs

-----------------------------------------------------------------------------
\* Steps of a sync

\* What a step of one sync may do.  A manual sync that is not under way joins
\* the wait group only while the service is open.
SyncEffect(p) ==
    /\ UNCHANGED <<upstream, enabled, closed, cancelled, daemon>>
    /\ content' \in Content /\ resolver' \in Content /\ faults' \in 0 .. MaxFaults
    /\ sync[p].pc \notin {"none", "exited"}
    /\ Moves(p, Pc \ {"spawned", "exited"})
    /\ p # Periodic /\ At(p, "spawned") /\ closed => sync'[p].pc = "none"

LEMMA CountFault ==
    ASSUME TypeOK, NEW p \in Syncs, Succeeds(p) \/ Fails(p)
    PROVE  faults' \in 0 .. MaxFaults
BY BoundAssumption DEF TypeOK, Succeeds, Fails

LEMMA MovesMore ==
    ASSUME NEW p, NEW S, NEW T, Moves(p, S), S \subseteq T
    PROVE  Moves(p, T)
BY DEF Moves

LEMMA SyncSteps ==
    ASSUME TypeOK, NEW p \in Syncs, SyncStep(p)
    PROVE  SyncEffect(p)
<1>0. /\ upstream \in Releases /\ content \in Content /\ resolver \in Content
      /\ faults \in 0 .. MaxFaults /\ sync[p] \in Goroutine /\ sync \in [Syncs -> Goroutine]
  BY DEF TypeOK
<1> DEFINE Active == Pc \ {"spawned", "exited"}
<1>a. ASSUME NEW pc \in Active, Goto(p, pc) \/ Leave(p, pc)
      PROVE  Moves(p, Active)
  BY <1>a, GotoMoves, LeaveMoves DEF Moves
<1>b. ASSUME Rest(p) \/ AfterSync(p)
      PROVE  Moves(p, Active)
  BY <1>b, RestMoves, AfterSyncMoves DEF Moves, Pc
<1>1. CASE Trigger(p)
  <2>1. CASE Rest(p)
    BY <1>0, <1>1, <1>b, <2>1, RestMoves DEF Trigger, SyncEffect, At, Moves
  <2>2. CASE Begin(p, "mcc", FALSE) /\ ~closed
    <3>1. Moves(p, Active)
      BY <2>2, BeginMoves, "mcc" \in Pc DEF Moves, Pc
    <3> QED
      BY <1>0, <1>1, <2>2, <3>1 DEF Trigger, SyncEffect, At
  <2> QED
    BY <1>1, <2>1, <2>2 DEF Trigger
<1>2. CASE p = Periodic /\ ReadSettings
  <2>1. Moves(p, Active)
    BY <1>2, <1>a, <1>b DEF ReadSettings, Pc
  <2>2. faults' \in 0 .. MaxFaults
    BY <1>2, CountFault DEF ReadSettings
  <2> QED
    BY <1>0, <1>2, <2>1, <2>2 DEF ReadSettings, SyncEffect, At
<1>3. CASE FetchMCC(p)
  <2>1. Moves(p, Active)
    <3>1. CASE Leave(p, "status")
      BY <1>a, <3>1 DEF Pc
    <3>2. CASE sync' = [sync EXCEPT ![p].pc = "categories", ![p].mcc = upstream]
      <4> DEFINE s == [sync[p] EXCEPT !.pc = "categories", !.mcc = upstream]
      <4>1. s \in Goroutine /\ s.pc = "categories" /\ sync' = [sync EXCEPT ![p] = s]
        BY <1>0, <3>2 DEF Goroutine
      <4> QED
        BY <4>1, SetMoves, MovesMore DEF Pc, Moves
    <3> QED
      BY <1>3, <3>1, <3>2 DEF FetchMCC
  <2>2. faults' \in 0 .. MaxFaults
    BY <1>3, CountFault DEF FetchMCC
  <2> QED
    BY <1>0, <1>3, <2>1, <2>2 DEF FetchMCC, SyncEffect, At
<1>4. CASE FetchCategories(p)
  <2>1. Moves(p, Active)
    <3>1. CASE Leave(p, "status")
      BY <1>a, <3>1 DEF Pc
    <3>2. CASE sync' = [sync EXCEPT ![p].pc = "seed", ![p].cat = upstream, ![p].todo = Entries]
      <4> DEFINE s == [sync[p] EXCEPT !.pc = "seed", !.cat = upstream, !.todo = Entries]
      <4>1. s \in Goroutine /\ s.pc = "seed" /\ sync' = [sync EXCEPT ![p] = s]
        BY <1>0, <3>2 DEF Goroutine
      <4> QED
        BY <4>1, SetMoves, MovesMore DEF Pc, Moves
    <3> QED
      BY <1>4, <3>1, <3>2 DEF FetchCategories
  <2>2. faults' \in 0 .. MaxFaults
    BY <1>4, CountFault DEF FetchCategories
  <2> QED
    BY <1>0, <1>4, <2>1, <2>2 DEF FetchCategories, SyncEffect, At
<1>5. ASSUME NEW e \in Entries, Upsert(p, e)
      PROVE  SyncEffect(p)
  <2>0. sync[p].mcc \in Releases /\ sync[p].cat \in Releases /\ sync[p].todo \subseteq Entries
    BY <1>0 DEF Goroutine
  <2>1. Moves(p, Active)
    <3>1. CASE Leave(p, "status")
      BY <1>a, <3>1 DEF Pc
    <3>2. CASE sync' = [sync EXCEPT ![p].todo = @ \ {e}]
      <4> DEFINE s == [sync[p] EXCEPT !.todo = sync[p].todo \ {e}]
      <4>1. s \in Goroutine /\ s.pc = "seed" /\ sync' = [sync EXCEPT ![p] = s]
        BY <1>0, <1>5, <2>0, <3>2 DEF Goroutine, Upsert, At
      <4> QED
        BY <4>1, SetMoves, MovesMore DEF Pc, Moves
    <3> QED
      BY <1>5, <3>1, <3>2 DEF Upsert
  <2>2. faults' \in 0 .. MaxFaults
    BY <1>5, CountFault DEF Upsert
  <2>3. content' \in Content
    BY <1>0, <1>5, <2>0 DEF Upsert, Content
  <2> QED
    BY <1>0, <1>5, <2>1, <2>2, <2>3 DEF Upsert, SyncEffect, At
<1>6. CASE RecordStatus(p)
  BY <1>0, <1>6, <1>b DEF RecordStatus, SyncEffect, At
<1>7. CASE LoadCategorySnapshot(p)
  <2>1. Moves(p, Active)
    <3>1. CASE Rest(p)
      BY <1>b, <3>1
    <3>2. CASE sync' = [sync EXCEPT ![p].pc = "set", ![p].loaded = content]
      <4> DEFINE s == [sync[p] EXCEPT !.pc = "set", !.loaded = content]
      <4>1. s \in Goroutine /\ s.pc = "set" /\ sync' = [sync EXCEPT ![p] = s]
        BY <1>0, <3>2 DEF Goroutine
      <4> QED
        BY <4>1, SetMoves, MovesMore DEF Pc, Moves
    <3> QED
      BY <1>7, <3>1, <3>2 DEF LoadCategorySnapshot
  <2>2. faults' \in 0 .. MaxFaults
    BY <1>0, <1>7, CountFault DEF LoadCategorySnapshot
  <2> QED
    BY <1>0, <1>7, <2>1, <2>2 DEF LoadCategorySnapshot, SyncEffect, At
<1>8. CASE SetResolver(p)
  <2>1. sync[p].loaded \in Content
    BY <1>0 DEF Goroutine
  <2> QED
    BY <1>0, <1>8, <1>b, <2>1 DEF SetResolver, SyncEffect, At
<1> QED
  BY <1>1, <1>2, <1>3, <1>4, <1>5, <1>6, <1>7, <1>8 DEF SyncStep

\* The other steps of CommunityNext, and what they have in common.
CommunityEffect ==
    /\ TypeOK'
    /\ UNCHANGED <<closed, cancelled, daemon>>
    /\ At(Periodic, "exited") => At(Periodic, "exited")'
    /\ closed /\ manual = {} => manual' = {}

LEMMA CommunitySteps ==
    ASSUME TypeOK, CommunityNext
    PROVE  CommunityEffect
<1>0. /\ Periodic \in Syncs /\ Periodic \notin Triggers /\ Triggers \subseteq Syncs
      /\ sync \in [Syncs -> Goroutine]
  BY SyncAssumption DEF TypeOK, Syncs
<1>1. CASE Publish
  BY <1>1, BoundAssumption DEF Publish, TypeOK, CommunityEffect, Releases, manual, At
<1>2. CASE Tick
  <2>1. Moves(Periodic, {"settings"}) /\ At(Periodic, "idle")
    BY <1>0, <1>2, BeginMoves DEF Tick, Pc
  <2>2. TypeOK'
    BY <1>2, <2>1 DEF Tick, TypeOK, Moves
  <2> QED
    BY <1>0, <1>2, <2>1, <2>2 DEF Tick, CommunityEffect, Moves, manual, At
<1>3. CASE RunReturns
  <2>1. Moves(Periodic, {"exited"}) /\ At(Periodic, "idle")
    BY <1>0, <1>3, GotoMoves DEF RunReturns, Pc
  <2>2. TypeOK'
    BY <1>3, <2>1 DEF RunReturns, TypeOK, Moves
  <2> QED
    BY <1>0, <1>3, <2>1, <2>2 DEF RunReturns, CommunityEffect, Moves, manual, At
<1>4. ASSUME NEW p \in Syncs, Deadline(p)
      PROVE  CommunityEffect
  <2> DEFINE s == [sync[p] EXCEPT !.cut = TRUE]
  <2>1. s \in Goroutine /\ s.pc = sync[p].pc /\ sync' = [sync EXCEPT ![p] = s]
    BY <1>0, <1>4 DEF Goroutine, Deadline
  <2>2. sync' \in [Syncs -> Goroutine] /\ \A q \in Syncs : sync'[q].pc = sync[q].pc
    BY <1>0, <2>1
  <2>3. TypeOK'
    BY <1>4, <2>2, BoundAssumption DEF Deadline, TypeOK
  <2> QED
    BY <1>0, <1>4, <2>2, <2>3 DEF Deadline, CommunityEffect, manual, At
<1>5. ASSUME NEW p \in Syncs, SyncStep(p)
      PROVE  CommunityEffect
  <2>1. SyncEffect(p)
    BY <1>5, SyncSteps
  <2>2. TypeOK'
    BY <2>1 DEF SyncEffect, Moves, TypeOK
  <2> QED
    BY <1>0, <2>1, <2>2 DEF SyncEffect, Moves, CommunityEffect, manual, At
<1> QED
  BY <1>1, <1>2, <1>3, <1>4, <1>5 DEF CommunityNext

-----------------------------------------------------------------------------
\* The process

\* What the phases of Close have established by the time they are over: closed
\* keeps new syncs away, the closed controller new commands, and whoever has
\* been waited for stays at rest.
CloseInv ==
    /\ phase \in {"manual", "controller", "daemon", "workers", "store", "exit"} => closed
    /\ phase \in {"daemon", "workers", "store", "exit"} => daemon.closed
    /\ ~expired =>
         /\ phase \in {"controller", "daemon", "workers", "store", "exit"} => manual = {}
         /\ phase \in {"workers", "store", "exit"} => ~daemon.active
         /\ phase \in {"store", "exit"} => At(Periodic, "exited") /\ scheduler = "exited"

AppInv == AppTypeOK /\ CloseInv

LEMMA AppInit == Init => AppInv
<1> SUFFICES ASSUME Init PROVE AppInv
  OBVIOUS
<1>1. TypeOK
  <2>1. content \in Content /\ resolver \in Content
    BY BlankType DEF Init, CommunityInit, Content
  <2>2. sync \in [Syncs -> Goroutine] /\ upstream \in Releases /\ faults \in 0 .. MaxFaults
    BY BlankType, BoundAssumption DEF Init, CommunityInit
  <2> QED
    BY <2>1, <2>2 DEF Init, CommunityInit, TypeOK, Daemon
<1>2. AppTypeOK
  <2>1. MaxBoots \in Nat /\ MaxChanges \in Nat
    BY ProcessAssumption
  <2>2. boots \in 0 .. MaxBoots /\ changes \in 0 .. MaxChanges
    BY <2>1 DEF Init
  <2>3. signal \in BOOLEAN /\ expired \in BOOLEAN /\ open \in BOOLEAN
    BY DEF Init
  <2> QED
    BY <1>1, <2>2, <2>3 DEF Init, AppTypeOK
<1>3. CloseInv
  BY DEF Init, CloseInv
<1> QED
  BY <1>2, <1>3 DEF AppInv

LEMMA StartKeeps == ASSUME AppInv, Boot \/ BootFails PROVE AppInv'
<1>1. CASE Boot
  <2> DEFINE s == [Blank EXCEPT !.pc = "settings", !.first = TRUE]
  <2>1. s \in Goroutine
    BY BlankType DEF Goroutine
  <2>2. sync' = [p \in Syncs |-> IF p = Periodic THEN s ELSE Blank]
    BY <1>1 DEF Boot
  <2> HIDE DEF s
  <2>3. sync' \in [Syncs -> Goroutine]
    BY <2>1, <2>2, BlankType
  <2>4. TypeOK'
    BY <1>1, <2>3, BlankType DEF Boot, Fresh, TypeOK, AppTypeOK, AppInv, Daemon
  <2>5. AppTypeOK'
    <3>1. boots' \in 0 .. MaxBoots
      BY <1>1, ProcessAssumption DEF Boot, AppInv, AppTypeOK
    <3>2. signal' \in BOOLEAN /\ expired' \in BOOLEAN /\ open' \in BOOLEAN
      BY <1>1 DEF Boot, Fresh
    <3> QED
      BY <1>1, <2>4, <3>1, <3>2 DEF Boot, Fresh, AppTypeOK, AppInv
  <2> QED
    BY <1>1, <2>5 DEF AppInv, CloseInv, Boot
<1>2. CASE BootFails
  <2>1. content' \in Content
    <3>1. 0 \in Releases /\ content \in Content
      BY BoundAssumption DEF Releases, AppInv, AppTypeOK, TypeOK
    <3> QED
      BY <1>2, <3>1 DEF BootFails, Content
  <2>2. AppTypeOK'
    BY <1>2, <2>1, BoundAssumption, ProcessAssumption DEF BootFails, AppTypeOK, TypeOK, AppInv
  <2> QED
    BY <1>2, <2>2 DEF AppInv, CloseInv, BootFails
<1> QED
  BY <1>1, <1>2

LEMMA CommunityKeeps ==
    ASSUME AppInv, CommunityNext, UNCHANGED <<mainVars, inflight, scheduler, changes>>
    PROVE  AppInv'
<1>1. CommunityEffect
  BY CommunitySteps DEF AppInv, AppTypeOK
<1>2. AppTypeOK'
  BY <1>1 DEF CommunityEffect, AppInv, AppTypeOK
<1>3. CloseInv'
  BY <1>1 DEF CommunityEffect, AppInv, CloseInv
<1> QED
  BY <1>2, <1>3 DEF AppInv

\* A step that leaves the goroutines, the service and the controller alone.
LEMMA QuietKeeps ==
    ASSUME AppInv, Quiet
    PROVE  TypeOK' /\ manual' = manual /\ closed' = closed /\ daemon' = daemon
                   /\ (At(Periodic, "exited") => At(Periodic, "exited")')
BY DEF AppInv, AppTypeOK, TypeOK, Quiet, manual, At

LEMMA RequestKeeps ==
    ASSUME AppInv, NEW r \in Requests, Request(r)
    PROVE  AppInv'
<1>0. changes \in 0 .. MaxChanges /\ inflight \subseteq Requests /\ TypeOK
  BY DEF AppInv, AppTypeOK
<1>1. ASSUME Handler(r)
      PROVE  changes' \in 0 .. MaxChanges /\ UNCHANGED <<mainVars, inflight, scheduler>>
  BY <1>0, <1>1, ProcessAssumption DEF Handler
<1>2. CASE Arrive(r) \/ Answer(r)
  <2>1. Quiet /\ UNCHANGED <<mainVars, scheduler, changes>> /\ inflight' \subseteq Requests
    BY <1>0, <1>2 DEF Arrive, Answer, Quiet, vars
  <2> QED
    BY <2>1, QuietKeeps DEF AppInv, AppTypeOK, CloseInv
<1>3. ASSUME NEW p \in Triggers, TriggerSync(r, p)
      PROVE  AppInv'
  <2>1. p \in Syncs /\ Periodic \in Syncs /\ p # Periodic /\ Triggers \subseteq Syncs
    BY SyncAssumption DEF Syncs
  <2>2. Moves(p, {"spawned"})
    BY <1>0, <1>3, <2>1, GotoMoves DEF TriggerSync, Pc
  <2>3. UNCHANGED <<upstream, content, resolver, enabled, closed, cancelled, faults, daemon>>
    BY <1>3 DEF TriggerSync
  <2>4. TypeOK'
    BY <1>0, <2>2, <2>3 DEF TypeOK, Moves
  <2>5. manual' = manual /\ (At(Periodic, "exited") => At(Periodic, "exited")')
    BY <1>3, <2>1, <2>2 DEF manual, At, Moves, TriggerSync
  <2>6. changes' \in 0 .. MaxChanges /\ UNCHANGED <<mainVars, inflight, scheduler>>
    BY <1>1, <1>3 DEF TriggerSync
  <2> QED
    BY <2>3, <2>4, <2>5, <2>6 DEF AppInv, AppTypeOK, CloseInv
<1>4. CASE PatchCommunitySyncSettings(r)
  <2>1. UNCHANGED <<upstream, content, resolver, sync, closed, cancelled, faults, daemon>>
        /\ enabled' \in BOOLEAN
    BY <1>4 DEF PatchCommunitySyncSettings
  <2>2. TypeOK' /\ manual' = manual /\ (At(Periodic, "exited") => At(Periodic, "exited")')
    BY <1>0, <2>1 DEF TypeOK, manual, At
  <2>3. changes' \in 0 .. MaxChanges /\ UNCHANGED <<mainVars, inflight, scheduler>>
    BY <1>1, <1>4 DEF PatchCommunitySyncSettings
  <2> QED
    BY <2>1, <2>2, <2>3 DEF AppInv, AppTypeOK, CloseInv
<1>5. CASE Command(r)
  <2>1. UNCHANGED <<upstream, content, resolver, enabled, sync, closed, cancelled, faults>>
        /\ ~daemon.closed /\ daemon' = [daemon EXCEPT !.active = TRUE]
    BY <1>5 DEF Command
  <2>2. daemon' \in Daemon
    BY <1>0, <2>1 DEF TypeOK, Daemon
  <2>3. TypeOK' /\ manual' = manual /\ (At(Periodic, "exited") => At(Periodic, "exited")')
    BY <1>0, <2>1, <2>2 DEF TypeOK, manual, At
  <2>4. changes' \in 0 .. MaxChanges /\ UNCHANGED <<mainVars, inflight, scheduler>>
    BY <1>1, <1>5 DEF Command
  <2>5. phase \notin {"daemon", "workers", "store", "exit"}
    BY <2>1 DEF AppInv, CloseInv
  <2> QED
    BY <2>1, <2>3, <2>4, <2>5 DEF AppInv, AppTypeOK, CloseInv
<1> QED
  BY <1>2, <1>3, <1>4, <1>5 DEF Request

LEMMA WorkersKeep == ASSUME AppInv, SchedulerReturns \/ DaemonRests PROVE AppInv'
<1>1. CASE SchedulerReturns
  <2>1. Quiet /\ UNCHANGED <<mainVars, inflight, changes>> /\ scheduler' = "exited"
    BY <1>1 DEF SchedulerReturns, Quiet, vars
  <2> QED
    BY <2>1, QuietKeeps DEF AppInv, AppTypeOK, CloseInv
<1>2. CASE DaemonRests
  <2>1. UNCHANGED <<upstream, content, resolver, enabled, sync, closed, cancelled, faults, mainVars,
                    inflight, scheduler, changes>>
        /\ daemon' = [daemon EXCEPT !.active = FALSE]
    BY <1>2 DEF DaemonRests
  <2>2. daemon' \in Daemon /\ daemon'.closed = daemon.closed /\ ~daemon'.active
    BY <2>1 DEF AppInv, AppTypeOK, TypeOK, Daemon
  <2>3. TypeOK' /\ manual' = manual /\ (At(Periodic, "exited") => At(Periodic, "exited")')
    BY <2>1, <2>2 DEF AppInv, AppTypeOK, TypeOK, manual, At
  <2> QED
    BY <2>1, <2>2, <2>3 DEF AppInv, AppTypeOK, CloseInv
<1> QED
  BY <1>1, <1>2

\* Steps that cancel contexts.
LEMMA CancelKeeps == ASSUME AppInv, Signal \/ ServerFails \/ CloseCommunity PROVE AppInv'
<1>1. PICK S \in SUBSET Syncs : CancelSyncs(S)
  BY DEF Signal, ServerFails, CloseCommunity, Syncs
<1>2. /\ sync' \in [Syncs -> Goroutine] /\ \A p \in Syncs : sync'[p].pc = sync[p].pc
      /\ cancelled' \subseteq Syncs
  <2>1. TypeOK /\ cancelled \subseteq Syncs
    BY DEF AppInv, AppTypeOK, TypeOK
  <2>2. cancelled' \subseteq Syncs
    BY <1>1, <2>1 DEF CancelSyncs
  <2> QED
    BY <1>1, <2>1, <2>2, CutStays
<1>3. UNCHANGED <<upstream, content, resolver, enabled, daemon, expired, open, boots,
                  inflight, scheduler, changes>>
  BY DEF Signal, ServerFails, CloseCommunity, Advance
<1>4. faults' \in 0 .. MaxFaults /\ closed' \in BOOLEAN /\ signal' \in BOOLEAN
  <2>1. faults \in 0 .. MaxFaults /\ closed \in BOOLEAN /\ signal \in BOOLEAN
    BY DEF AppInv, AppTypeOK, TypeOK
  <2>2. CASE Signal
    BY <2>1, <2>2 DEF Signal
  <2>3. CASE ServerFails
    BY <2>1, <2>3, BoundAssumption DEF ServerFails
  <2>4. CASE CloseCommunity
    BY <2>1, <2>4 DEF CloseCommunity, Advance
  <2> QED
    BY <2>2, <2>3, <2>4
<1>5. TypeOK'
  BY <1>2, <1>3, <1>4 DEF AppInv, AppTypeOK, TypeOK
<1>6. manual' = manual /\ (At(Periodic, "exited") => At(Periodic, "exited")')
  BY <1>2 DEF manual, At, Syncs
<1>7. \/ phase' = phase /\ closed' = closed
      \/ phase' = "community"
      \/ phase' = "manual" /\ closed'
  BY DEF Signal, ServerFails, CloseCommunity, Advance
<1>8. AppTypeOK'
  BY <1>3, <1>4, <1>5, <1>7 DEF AppInv, AppTypeOK
<1>9. CloseInv'
  BY <1>3, <1>6, <1>7 DEF AppInv, CloseInv
<1> QED
  BY <1>8, <1>9 DEF AppInv

\* The other phases of the shutdown.
LEMMA CloseKeeps ==
    ASSUME AppInv, (Close /\ ~CloseCommunity) \/ DrainTimeout \/ Expire \/ Crash
    PROVE  AppInv'
<1> USE DEF Advance
<1>1. CASE Drain \/ Drained \/ DrainTimeout
  <2>1. Quiet /\ UNCHANGED <<signal, expired, open, boots, inflight, scheduler, changes>>
        /\ phase' \in {"draining", "community"}
    BY <1>1 DEF Drain, Drained, DrainTimeout
  <2> QED
    BY <2>1, QuietKeeps DEF AppInv, AppTypeOK, CloseInv
<1>2. CASE Expire
  <2>1. Quiet /\ UNCHANGED <<phase, signal, open, boots, inflight, scheduler, changes>> /\ expired'
    BY <1>2 DEF Expire, Quiet, vars
  <2> QED
    BY <1>2, <2>1, QuietKeeps DEF Expire, AppInv, AppTypeOK, CloseInv
<1>3. CASE AwaitManual \/ AwaitDaemon \/ WaitWorkers \/ CloseStore
  <2>1. Quiet /\ UNCHANGED <<signal, expired, boots, inflight, scheduler, changes>>
        /\ open' \in BOOLEAN
    BY <1>3 DEF AwaitManual, AwaitDaemon, WaitWorkers, CloseStore, AppInv, AppTypeOK
  <2>2. \/ phase = "manual" /\ phase' = "controller" /\ (manual = {} \/ expired)
        \/ phase = "daemon" /\ phase' = "workers" /\ (~daemon.active \/ expired)
        \/ phase = "workers" /\ phase' = "store"
             /\ ((At(Periodic, "exited") /\ scheduler = "exited") \/ expired)
        \/ phase = "store" /\ phase' = "exit"
    BY <1>3 DEF AwaitManual, AwaitDaemon, WaitWorkers, CloseStore
  <2>3. AppTypeOK'
    BY <2>1, <2>2, QuietKeeps DEF AppInv, AppTypeOK
  <2>4. CloseInv'
    BY <2>1, <2>2, QuietKeeps DEF AppInv, CloseInv
  <2> QED
    BY <2>3, <2>4 DEF AppInv
<1>4. CASE CloseController
  <2>1. UNCHANGED <<upstream, content, resolver, enabled, sync, closed, cancelled, faults,
                    signal, expired, open, boots, inflight, scheduler, changes>>
        /\ daemon' = [daemon EXCEPT !.closed = TRUE] /\ phase = "controller" /\ phase' = "daemon"
    BY <1>4 DEF CloseController
  <2>2. daemon' \in Daemon /\ daemon'.closed
    BY <2>1 DEF AppInv, AppTypeOK, TypeOK, Daemon
  <2>3. TypeOK' /\ manual' = manual
    BY <2>1, <2>2 DEF AppInv, AppTypeOK, TypeOK, manual, At
  <2> QED
    BY <2>1, <2>2, <2>3 DEF AppInv, AppTypeOK, CloseInv
<1>5. CASE Exit \/ Crash
  <2>1. Gone
    BY <1>5 DEF Exit, Crash
  <2>2. TypeOK'
    BY <2>1, BlankType DEF Gone, Fresh, AppInv, AppTypeOK, TypeOK, Daemon
  <2>3. AppTypeOK'
    BY <2>1, <2>2 DEF Gone, Fresh, AppInv, AppTypeOK
  <2> QED
    BY <2>1, <2>3 DEF Gone, AppInv, CloseInv
<1> QED
  BY <1>1, <1>2, <1>3, <1>4, <1>5 DEF Close

LEMMA AppNext == AppInv /\ [Next]_appVars => AppInv'
<1>1. ASSUME AppInv, UNCHANGED appVars
      PROVE  AppInv'
  <2>1. Quiet /\ UNCHANGED <<mainVars, inflight, scheduler, changes>>
    BY <1>1 DEF appVars, vars, Quiet
  <2> QED
    BY <1>1, <2>1, QuietKeeps DEF AppInv, AppTypeOK, CloseInv
<1> QED
  BY <1>1, StartKeeps, CommunityKeeps, RequestKeeps, WorkersKeep, CancelKeeps, CloseKeeps
     DEF Next, Close

LEMMA AppInvariance == Spec => []AppInv
BY AppInit, AppNext, PTL DEF Spec

\* Every variable keeps its type: no sync ever holds a release that was not
\* published, and main is in a phase that Run and Close know.
THEOREM AppTypes == Spec => []AppTypeOK
<1>1. AppInv => AppTypeOK
  BY DEF AppInv
<1> QED
  BY <1>1, AppInvariance, PTL

\* App.Close closes the store after everything that uses it: manual syncs, the
\* periodic one, scheduler and controller are at rest unless a deadline passed.
THEOREM NothingUsesClosedStore == Spec => []StoreClosedLast
<1>1. AppInv => StoreClosedLast
  BY DEF AppInv, CloseInv, StoreClosedLast
<1> QED
  BY <1>1, AppInvariance, PTL
=============================================================================
