------------------------------ MODULE Application ------------------------------
(***************************************************************************)
(* The life of the server process, internal/app/app.go and                 *)
(* cmd/server/main.go: startup and seeding, the HTTP server's requests,    *)
(* the scheduler, the daemon controller and community sync side by side,   *)
(* and the shutdown that stops them and closes the store they use.         *)
(*                                                                         *)
(* The scheduler and the controller appear by what ScanScheduler and       *)
(* DaemonController show of them: when they use the store and when they    *)
(* are at rest.                                                            *)
(***************************************************************************)
EXTENDS Community

CONSTANTS
    Requests,   \* HTTP requests that may be in flight together
    MaxBoots,   \* bounds on the starts of the process
    MaxChanges  \* and on the requests that change something

ASSUME ProcessAssumption == {MaxBoots, MaxChanges} \subseteq Nat

VARIABLES
    phase,      \* where main is
    signal,     \* the process received SIGINT or SIGTERM
    expired,    \* ShutdownTimeout has passed
    inflight,   \* requests being handled
    scheduler,  \* the goroutine of Scheduler.Start and its runs
    open,       \* the store accepts calls
    boots, changes

mainVars == <<phase, signal, expired, open, boots>>
appVars == <<vars, mainVars, inflight, scheduler, changes>>

AppTypeOK ==
    /\ TypeOK
    /\ phase \in {"off", "serving", "draining", "community", "manual", "controller", "daemon",
                  "workers", "store", "exit"}
    /\ signal \in BOOLEAN /\ expired \in BOOLEAN /\ open \in BOOLEAN
    /\ inflight \subseteq Requests
    /\ scheduler \in {"none", "active", "exited"}
    /\ boots \in 0 .. MaxBoots /\ changes \in 0 .. MaxChanges

Init ==
    /\ CommunityInit
    /\ phase = "off" /\ signal = FALSE /\ expired = FALSE
    /\ inflight = {} /\ scheduler = "none"
    /\ open = FALSE
    /\ boots = 0 /\ changes = 0

-----------------------------------------------------------------------------
\* Startup

\* What the memory of a new process holds, in the store or not.
Fresh ==
    /\ closed' = FALSE /\ cancelled' = {}
    /\ daemon' = [closed |-> FALSE, active |-> FALSE]
    /\ signal' = FALSE /\ expired' = FALSE
    /\ inflight' = {}

\* app.New seeds the bundled content over what the last process left, and Run
\* starts the scheduler and the first sync.
Boot ==
    /\ phase = "off"
    /\ boots < MaxBoots /\ boots' = boots + 1
    /\ content' = Bundled /\ resolver' = Bundled
    /\ Fresh
    /\ sync' = [p \in Syncs |-> IF p = Periodic THEN [Blank EXCEPT !.pc = "settings", !.first = TRUE]
                                            ELSE Blank]
    /\ scheduler' = "active"
    /\ phase' = "serving" /\ open' = TRUE
    /\ UNCHANGED <<upstream, enabled, faults, changes>>

\* Seeding fails half way: the process closes the store and ends.
BootFails ==
    /\ phase = "off"
    /\ boots < MaxBoots /\ boots' = boots + 1
    /\ faults < MaxFaults /\ faults' = faults + 1
    /\ \E S \in SUBSET Entries : content' = [e \in Entries |-> IF e \in S THEN 0 ELSE content[e]]
    /\ UNCHANGED <<upstream, enabled, resolver, sync, closed, cancelled, daemon, phase,
                   signal, expired, open, inflight, scheduler, changes>>

-----------------------------------------------------------------------------
\* The HTTP server

Listening == phase = "serving" /\ ~signal

Arrive(r) ==
    /\ phase = "serving"
    /\ r \notin inflight
    /\ inflight' = inflight \cup {r}
    /\ UNCHANGED <<vars, mainVars, scheduler, changes>>

Answer(r) ==
    /\ r \in inflight
    /\ inflight' = inflight \ {r}
    /\ UNCHANGED <<vars, mainVars, scheduler, changes>>

Handler(r) ==
    /\ r \in inflight
    /\ changes < MaxChanges /\ changes' = changes + 1
    /\ UNCHANGED <<mainVars, inflight, scheduler>>

\* go h.community.Trigger()
TriggerSync(r, p) ==
    /\ Handler(r)
    /\ At(p, "none")
    /\ Goto(p, "spawned")
    /\ UNCHANGED <<upstream, contentVars, enabled, closed, cancelled, faults, daemon>>

PatchCommunitySyncSettings(r) ==
    /\ Handler(r)
    /\ open
    /\ enabled' = ~enabled
    /\ UNCHANGED <<upstream, contentVars, sync, closed, cancelled, faults, daemon>>

\* A handler queues a Start, Restart or Rescan.
Command(r) ==
    /\ Handler(r)
    /\ ~daemon.closed
    /\ daemon' = [daemon EXCEPT !.active = TRUE]
    /\ UNCHANGED <<upstream, contentVars, enabled, sync, closed, cancelled, faults>>

-----------------------------------------------------------------------------
\* Scheduler.Start and the controller's worker and run

runDone == Periodic \in cancelled   \* the context of App.Run

\* Cancelled, its scans end, and the goroutine with them.
SchedulerReturns ==
    /\ scheduler = "active"
    /\ runDone
    /\ scheduler' = "exited"
    /\ UNCHANGED <<vars, mainVars, inflight, changes>>

\* The last command is done, its run has ended.
DaemonRests ==
    /\ daemon.active
    /\ daemon' = [daemon EXCEPT !.active = FALSE]
    /\ UNCHANGED <<upstream, contentVars, enabled, sync, closed, cancelled, faults, mainVars,
                   inflight, scheduler, changes>>

-----------------------------------------------------------------------------
\* Shutdown: App.Run returns, main calls App.Close

Advance(to) ==
    /\ phase' = to
    /\ UNCHANGED <<signal, expired, open, boots, inflight, scheduler, changes>>

Quiet == UNCHANGED <<upstream, contentVars, enabled, sync, closed, cancelled, faults, daemon>>

Signal ==
    /\ phase # "off" /\ ~signal
    /\ signal' = TRUE
    /\ CancelSyncs(Syncs)
    /\ UNCHANGED <<upstream, contentVars, enabled, closed, faults, daemon, phase, expired,
                   open, boots, inflight, scheduler, changes>>

\* The server stops accepting and waits for the requests in flight,
Drain == phase = "serving" /\ signal /\ Advance("draining") /\ Quiet

Drained == phase = "draining" /\ inflight = {} /\ Advance("community") /\ Quiet

\* but no longer than ten seconds.
DrainTimeout ==
    /\ phase = "draining" /\ inflight # {}
    /\ Advance("community") /\ Quiet

\* ListenAndServe fails: Run returns at once and its deferred cancel runs.
ServerFails ==
    /\ phase = "serving"
    /\ faults < MaxFaults /\ faults' = faults + 1
    /\ phase' = "community"
    /\ CancelSyncs({Periodic})
    /\ UNCHANGED <<upstream, contentVars, enabled, closed, daemon, signal, expired, open, boots,
                   inflight, scheduler, changes>>

Expire ==
    /\ phase \in {"community", "manual", "controller", "daemon", "workers"}
    /\ ~expired /\ expired' = TRUE
    /\ UNCHANGED <<vars, phase, signal, open, boots, inflight, scheduler, changes>>

CloseCommunity ==
    /\ phase = "community"
    /\ closed' = TRUE
    /\ CancelSyncs(Triggers)
    /\ Advance("manual")
    /\ UNCHANGED <<upstream, contentVars, enabled, faults, daemon>>

AwaitManual == phase = "manual" /\ (manual = {} \/ expired) /\ Advance("controller") /\ Quiet

CloseController ==
    /\ phase = "controller"
    /\ daemon' = [daemon EXCEPT !.closed = TRUE]
    /\ Advance("daemon")
    /\ UNCHANGED <<upstream, contentVars, enabled, sync, closed, cancelled, faults>>

\* For the worker, then for the run.
AwaitDaemon == phase = "daemon" /\ (~daemon.active \/ expired) /\ Advance("workers") /\ Quiet

WaitWorkers ==
    /\ phase = "workers"
    /\ (At(Periodic, "exited") /\ scheduler = "exited") \/ expired
    /\ Advance("store")
    /\ Quiet

CloseStore ==
    /\ phase = "store"
    /\ phase' = "exit" /\ open' = FALSE
    /\ UNCHANGED <<signal, expired, boots, inflight, scheduler, changes>>
    /\ Quiet

\* The process is gone, and its goroutines with it.
Gone ==
    /\ phase' = "off" /\ open' = FALSE
    /\ sync' = [p \in Syncs |-> Blank] /\ scheduler' = "none"
    /\ Fresh
    /\ UNCHANGED <<upstream, contentVars, enabled, faults, boots, changes>>

Exit == phase = "exit" /\ Gone

Crash == phase \notin {"off", "exit"} /\ Gone

-----------------------------------------------------------------------------

Request(r) ==
    \/ Arrive(r)
    \/ Answer(r)
    \/ \E p \in Triggers : TriggerSync(r, p)
    \/ PatchCommunitySyncSettings(r)
    \/ Command(r)

Close ==
    \/ Drain \/ Drained \/ CloseCommunity \/ AwaitManual \/ CloseController \/ AwaitDaemon
    \/ WaitWorkers \/ CloseStore \/ Exit

Next ==
    \/ Boot \/ BootFails
    \/ CommunityNext /\ UNCHANGED <<mainVars, inflight, scheduler, changes>>
    \/ \E r \in Requests : Request(r)
    \/ SchedulerReturns \/ DaemonRests
    \/ Signal \/ DrainTimeout \/ ServerFails \/ Expire \/ Crash
    \/ Close

Spec == Init /\ [][Next]_appVars

-----------------------------------------------------------------------------
\* Goroutines go on when they can, requests are answered, runs end.  Of a select
\* that finds both a tick and a done context neither is taken for ever.  No
\* deadline has to pass, no release to appear and no failure to happen.

InProcess(A) == A /\ UNCHANGED <<mainVars, inflight, scheduler, changes>>

Fairness ==
    /\ \A p \in Syncs : WF_appVars(InProcess(SyncStep(p)))
    /\ WF_appVars(InProcess(Tick)) /\ SF_appVars(InProcess(RunReturns))
    /\ \A r \in Requests : WF_appVars(Answer(r))
    /\ WF_appVars(SchedulerReturns)
    /\ WF_appVars(DaemonRests)
    /\ WF_appVars(Close)

FairSpec == Spec /\ Fairness

-----------------------------------------------------------------------------
\* Properties

\* The store is closed last: syncs, scans and the daemon are at rest by then, the
\* manual syncs too that requests left behind by the HTTP server start during the
\* shutdown, unless the shutdown's deadline passed (App.Close, Service.Close).
StoreClosedLast ==
    phase = "exit" /\ ~expired =>
        manual = {} /\ At(Periodic, "exited") /\ scheduler = "exited" /\ ~daemon.active

\* Whatever overlapped, failed or was bundled by a restart, a process that goes
\* on serving ends up with the stored content in its resolver and, while
\* automatic sync is on, with the published release in the store.
CaughtUp ==
    Listening => /\ resolver = content
                 /\ enabled => content = [e \in Entries |-> upstream]

ResolverCatchesUp == <>[]CaughtUp

\* A process whose server failed or that was told to stop does so without a
\* deadline having to pass: all it waits for reacts to the cancelled contexts.
ShutdownReturns == (signal \/ phase = "community") ~> phase = "off"
=============================================================================
