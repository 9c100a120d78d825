---------------------------- MODULE ScanScheduler ----------------------------
(***************************************************************************)
(* Scheduled scanning: internal/daemon/scheduler/scheduler.go and the      *)
(* tenant_scanning_state rows of store/postgres/scanning_repository.go     *)
(* that it shares with the HTTP handlers.                                  *)
(*                                                                         *)
(* The loop goroutine polls the rows and starts a run goroutine for each   *)
(* runnable tenant while capacity lasts.  Loop, runs and handlers read and *)
(* overwrite the same rows without a lock or a version check.  A step is   *)
(* one store call, or one critical section of s.mu.                        *)
(*                                                                         *)
(* A definition whose comment begins with "Fault:" is a mistaken variant   *)
(* of the one after it, kept to show that a property notices the mistake.  *)
(***************************************************************************)
EXTENDS Integers, FiniteSets, Sequences

CONSTANTS
    Tenants,
    Readers,        \* the registered mail readers
    OAuthReaders,   \* those that need a token, the others need a configuration
    NoReader,       \* the empty reader name
    Limits,         \* values an administrator gives to max_concurrent_scans
    MaxRequests,    \* bounds on the requests begun, the store calls that fail,
    MaxFaults,      \* the process crashes, and
    MaxCrashes,
    MaxRetries      \* the consecutive temporary failures of a tenant

ASSUME ReaderAssumption == NoReader \notin Readers /\ OAuthReaders \subseteq Readers
ASSUME LimitAssumption == Limits \subseteq Nat \ {0}
ASSUME TenantAssumption == IsFiniteSet(Tenants)
ASSUME BoundAssumption == {MaxRequests, MaxFaults, MaxCrashes, MaxRetries} \subseteq Nat

VARIABLES
    row,        \* tenant_scanning_state
    older,      \* pairs of tenants: the first was updated_at before the second
    limit,      \* scheduler_config.max_concurrent_scans
    ready,      \* readers of each tenant whose credentials, token and config are good
    requests,   \* requests begun
    handlers,   \* store calls that handlers in progress have still to make
    pc,         \* the loop goroutine: where it is,
    limitRead,  \* the configured limit it read,
    capacity,   \* how many more runs it starts in this round,
    list,       \* and the rows it still has to consider, as it read them
    running,    \* the tenants in s.running
    runs,       \* run goroutines
    ctxDone,    \* the context of Start is cancelled
    faults,     \* store calls that failed
    crashes

rowVars  == <<row, older>>
userVars == <<limit, ready, requests, handlers>>
loopVars == <<pc, limitRead, capacity, list>>
runVars  == <<running, runs>>
procVars == <<ctxDone, crashes>>
vars == <<rowVars, userVars, loopVars, runVars, procVars, faults>>

Parked == {"needs_auth", "reader_not_configured", "paused"}

Row == [reader : Readers \cup {NoReader}, enabled : BOOLEAN,
        state : Parked \cup {"queued", "starting", "running", "backing_off", "stopped"},
        waiting : BOOLEAN,          \* next_retry_at is in the future
        retry : 0 .. MaxRetries]
NoRow == [state |-> "absent"]

Snapshot == [tenant : Tenants, reader : Readers, retry : 0 .. MaxRetries]

Run == [tenant : Tenants, reader : Readers, retry : 0 .. MaxRetries,
        at : {"mark", "scan", "write", "clear"},
        result : {"none", "done", "temporary", "needs_auth", "reader_not_configured"}]

Call == [op : {"queue", "clear", "check", "block"}, tenant : Tenants, reader : Readers]

TypeOK ==
    /\ row \in [Tenants -> Row \cup {NoRow}]
    /\ older \subseteq Tenants \X Tenants
    /\ limit \in Limits /\ ready \in [Tenants -> SUBSET Readers]
    /\ requests \in Nat /\ handlers \subseteq Call
    /\ pc \in {"poll", "config", "list", "capacity", "each", "draining", "exited"}
    /\ limitRead \in Limits \cup {0} /\ capacity \in Int /\ list \in Seq(Snapshot)
    /\ running \subseteq Tenants /\ runs \subseteq Run
    /\ ctxDone \in BOOLEAN /\ faults \in Nat /\ crashes \in Nat

QueuedRow(r) == [reader |-> r, enabled |-> TRUE,
                 state |-> IF r = NoReader THEN "stopped" ELSE "queued",
                 waiting |-> FALSE, retry |-> 0]

(* The database of a new installation, or as an earlier process left it.   *)
Init ==
    /\ row \in [Tenants -> {NoRow} \cup {QueuedRow(r) : r \in Readers}]
    /\ older = {} /\ limit \in Limits
    /\ ready \in [Tenants -> SUBSET Readers]
    /\ requests = 0 /\ handlers = {}
    /\ pc = "poll" /\ limitRead = 0 /\ capacity = 0 /\ list = <<>>
    /\ running = {} /\ runs = {}
    /\ ctxDone = FALSE /\ faults = 0 /\ crashes = 0

-----------------------------------------------------------------------------
(* The store.                                                              *)

Exists(t) == row[t] # NoRow

(* Fault: an update leaves updated_at alone.                               *)
Unmoved(t) == older
(* updated_at = now().                                                     *)
Touched(t) == {p \in older : t \notin {p[1], p[2]}} \cup ((Tenants \ {t}) \X {t})

Write(t, r) == row' = [row EXCEPT ![t] = r] /\ older' = Touched(t)

SetActiveReader(t, r) == Write(t, QueuedRow(r))

ClearActiveReader(t) == Write(t, [QueuedRow(NoReader) EXCEPT !.enabled = FALSE])

SetEnabled(t, b) ==
    IF Exists(t)
    THEN Write(t, [row[t] EXCEPT
                     !.enabled = b, !.waiting = FALSE,
                     !.state = IF ~b THEN "paused"
                               ELSE IF row[t].reader = NoReader THEN "stopped" ELSE "queued"])
    ELSE UNCHANGED rowVars

(* UpdateScanningState, but for the reader and the enabled switch.         *)
UpdateState(t, state, waiting, retry) ==
    IF Exists(t)
    THEN Write(t, [row[t] EXCEPT !.state = state, !.waiting = waiting, !.retry = retry])
    ELSE UNCHANGED rowVars

Retry(t) == IF Exists(t) THEN row[t].retry ELSE 0

(* Fault: the state of the row alone says that scanning is paused.         *)
NotParked(t) ==
    /\ Exists(t)
    /\ row[t].reader # NoReader
    /\ row[t].state \notin Parked
    /\ ~row[t].waiting

Runnable(t) ==
    /\ Exists(t)
    /\ row[t].enabled /\ row[t].reader # NoReader
    /\ row[t].state \notin Parked
    /\ ~row[t].waiting

(* ListRunnableScanningStates: ORDER BY updated_at.                        *)
RunnableLists ==
    LET R == {t \in Tenants : Runnable(t)}
        Orders == {s \in [1 .. Cardinality(R) -> R] :
                     \A i, j \in DOMAIN s : i < j => s[i] # s[j] /\ <<s[j], s[i]>> \notin older}
    IN  {[i \in DOMAIN s |-> [tenant |-> s[i], reader |-> row[s[i]].reader,
                              retry |-> row[s[i]].retry]] : s \in Orders}

(* A call fails on a cancelled context, or because the store does.         *)
StoreFails ==
    /\ faults < MaxFaults
    /\ faults' = faults + 1
CallWorks == ~ctxDone /\ UNCHANGED faults
CallFails == (ctxDone /\ UNCHANGED faults) \/ StoreFails

-----------------------------------------------------------------------------
(* HTTP handlers.                                                          *)

BeginRequest == requests < MaxRequests /\ requests' = requests + 1

(* PATCH /scanning/settings makes one store call for each setting given;   *)
(* the daemon persists the reader that it is started with.                 *)
PatchSettings ==
    /\ BeginRequest
    /\ \E t \in Tenants : \/ \E r \in Readers : SetActiveReader(t, r)
                          \/ ClearActiveReader(t)
                          \/ \E b \in BOOLEAN : SetEnabled(t, b)
    /\ UNCHANGED <<limit, ready, handlers, loopVars, runVars, procVars, faults>>

PatchLimit ==
    /\ BeginRequest
    /\ limit' \in Limits
    /\ UNCHANGED <<rowVars, ready, handlers, loopVars, runVars, procVars, faults>>

(* The first store call of a handler that makes several.                   *)
Begin(op, t, r) ==
    /\ BeginRequest
    /\ handlers' = handlers \cup {[op |-> op, tenant |-> t, reader |-> r]}
    /\ UNCHANGED <<rowVars, limit, loopVars, runVars, procVars, faults>>

(* An OAuth exchange or PUT config saves what the reader lacked ...        *)
ConnectReader(t, r) ==
    Begin("queue", t, r) /\ ready' = [ready EXCEPT ![t] = @ \cup {r}]

(* RevokeToken deletes the token ...                                       *)
RevokeToken(t, r) ==
    /\ r \in ready[t] \cap OAuthReaders
    /\ Begin("check", t, r)
    /\ ready' = [ready EXCEPT ![t] = @ \ {r}]

(* DisconnectReader reads the row, then deletes the reader's runtime ...   *)
DisconnectReader(t, r) ==
    /\ Exists(t) /\ row[t].reader = r
    /\ Begin("clear", t, r)
    /\ ready' = [ready EXCEPT ![t] = @ \ {r}]

(* ... and a later call changes the row.  One that fails is given up.      *)
FinishRequest(h) ==
    /\ \/ /\ UNCHANGED faults
          /\ \/ h.op = "queue" /\ SetActiveReader(h.tenant, h.reader) /\ handlers' = handlers \ {h}
             \/ h.op = "clear" /\ ClearActiveReader(h.tenant) /\ handlers' = handlers \ {h}
             \/ /\ h.op = "check" /\ UNCHANGED rowVars
                /\ handlers' = (handlers \ {h}) \cup
                      {k \in {[h EXCEPT !.op = "block"]} :
                         Exists(h.tenant) /\ row[h.tenant].reader = h.reader}
             \/ /\ h.op = "block" /\ UpdateState(h.tenant, "needs_auth", FALSE, 0)
                /\ handlers' = handlers \ {h}
       \/ StoreFails /\ UNCHANGED rowVars /\ handlers' = handlers \ {h}
    /\ UNCHANGED <<limit, ready, requests, loopVars, runVars, procVars>>

(* A token expires, a mailbox profile is moved away.                       *)
ReaderBreaks ==
    /\ BeginRequest
    /\ \E t \in Tenants : \E r \in ready[t] : ready' = [ready EXCEPT ![t] = @ \ {r}]
    /\ UNCHANGED <<rowVars, limit, handlers, loopVars, runVars, procVars, faults>>

Request ==
    \/ PatchSettings \/ PatchLimit \/ ReaderBreaks
    \/ \E t \in Tenants, r \in Readers :
          ConnectReader(t, r) \/ RevokeToken(t, r) \/ DisconnectReader(t, r)

-----------------------------------------------------------------------------
(* The loop goroutine.                                                     *)

(* Reconcile returns, at the end of the round or on an error.              *)
EndRound == pc' = "poll" /\ limitRead' = 0 /\ capacity' = 0 /\ list' = <<>>

(* A tick, or Start: Reconcile first seeds the missing rows.               *)
Poll ==
    /\ pc = "poll"
    /\ \/ /\ CallWorks
          /\ row' = [t \in Tenants |-> IF Exists(t) THEN row[t] ELSE QueuedRow(NoReader)]
          /\ older' = older \cup {t \in Tenants : Exists(t)} \X {t \in Tenants : ~Exists(t)}
          /\ pc' = "config"
       \/ CallFails /\ UNCHANGED <<rowVars, pc>>
    /\ UNCHANGED <<userVars, limitRead, capacity, list, runVars, procVars>>

ReadConfig ==
    /\ pc = "config"
    /\ \/ CallWorks /\ limitRead' = limit /\ pc' = "list" /\ UNCHANGED <<capacity, list>>
       \/ CallFails /\ EndRound
    /\ UNCHANGED <<rowVars, userVars, runVars, procVars>>

ListRunnable ==
    /\ pc = "list"
    /\ \/ CallWorks /\ list' \in RunnableLists /\ pc' = "capacity" /\ UNCHANGED <<limitRead, capacity>>
       \/ CallFails /\ EndRound
    /\ UNCHANGED <<rowVars, userVars, runVars, procVars>>

(* Fault: the runs under way are not counted.                              *)
WholeLimit == limitRead
AvailableCapacity == limitRead - Cardinality(running)

ComputeCapacity ==
    /\ pc = "capacity"
    /\ capacity' = AvailableCapacity
    /\ pc' = "each"
    /\ UNCHANGED <<rowVars, userVars, limitRead, list, runVars, procVars, faults>>

(* Fault: the row, not the scheduler, says whether a tenant is running.    *)
RowIsRunning(t) == Exists(t) /\ row[t].state \in {"starting", "running"}
IsRunning(t) == t \in running

FinishRound ==
    /\ pc = "each"
    /\ list = <<>> \/ capacity <= 0
    /\ EndRound
    /\ UNCHANGED <<rowVars, userVars, runVars, procVars, faults>>

SkipTenant ==
    /\ pc = "each" /\ list # <<>> /\ capacity > 0
    /\ IsRunning(Head(list).tenant)
    /\ list' = Tail(list)
    /\ UNCHANGED <<rowVars, userVars, pc, limitRead, capacity, runVars, procVars, faults>>

(* startTenant; a failed store call ends the whole round.                  *)
StartTenant ==
    /\ pc = "each" /\ list # <<>> /\ capacity > 0
    /\ ~IsRunning(Head(list).tenant)
    /\ LET s == Head(list)
       IN  \/ /\ CallWorks
              /\ UpdateState(s.tenant, "starting", FALSE, Retry(s.tenant))
              /\ running' = running \cup {s.tenant}
              /\ runs' = runs \cup {[tenant |-> s.tenant, reader |-> s.reader, retry |-> s.retry,
                                     at |-> "mark", result |-> "none"]}
              /\ list' = Tail(list) /\ capacity' = capacity - 1 /\ UNCHANGED <<pc, limitRead>>
           \/ CallFails /\ EndRound /\ UNCHANGED <<rowVars, runVars>>
    /\ UNCHANGED <<userVars, procVars>>

(* Start sees its context done: Stop, then wait for the runs.              *)
StopRuns ==
    /\ pc = "poll" /\ ctxDone
    /\ running' = {}
    /\ pc' = "draining"
    /\ UNCHANGED <<rowVars, userVars, limitRead, capacity, list, runs, procVars, faults>>

Exit ==
    /\ pc = "draining" /\ runs = {}
    /\ pc' = "exited"
    /\ UNCHANGED <<rowVars, userVars, limitRead, capacity, list, runVars, procVars, faults>>

Loop ==
    \/ Poll \/ ReadConfig \/ ListRunnable \/ ComputeCapacity
    \/ FinishRound \/ SkipTenant \/ StartTenant \/ StopRuns \/ Exit

-----------------------------------------------------------------------------
(* A run goroutine, runTenant.                                             *)

Move(g, at, result) == runs' = (runs \ {g}) \cup {[g EXCEPT !.at = at, !.result = result]}

(* Fault: a run that cannot mark its row tries again.                      *)
RetryMark == "mark"
AfterFailedMark == "clear"

MarkRunning(g) ==
    /\ g.at = "mark"
    /\ \/ CallWorks /\ UpdateState(g.tenant, "running", FALSE, Retry(g.tenant)) /\ Move(g, "scan", "none")
       \/ CallFails /\ UNCHANGED rowVars /\ Move(g, AfterFailedMark, "none")
    /\ UNCHANGED running

(* The scan finds the reader ready or not; how long it then takes to end,  *)
(* or to notice a cancelled context, is up to the run.                     *)
Scan(g) ==
    /\ g.at = "scan"
    /\ \/ Move(g, "write", "done") /\ (ctxDone \/ g.reader \in ready[g.tenant])
       \/ Move(g, "write", "temporary") /\ g.retry < MaxRetries
       \/ /\ g.reader \notin ready[g.tenant]
          /\ Move(g, "write", IF g.reader \in OAuthReaders THEN "needs_auth"
                              ELSE "reader_not_configured")
    /\ UNCHANGED <<rowVars, running, faults>>

NextRetry(n) == n + 1

(* The outcome overwrites whatever the row says by now.  Only the outcome  *)
(* of a completed or cancelled scan is lost with the context.              *)
WriteResult(g) ==
    /\ g.at = "write"
    /\ \/ /\ IF g.result = "done" THEN CallWorks ELSE UNCHANGED faults
          /\ CASE g.result = "done"      -> UpdateState(g.tenant, "queued", FALSE, 0)
               [] g.result = "temporary" ->
                     UpdateState(g.tenant, "backing_off", TRUE, NextRetry(g.retry))
               [] OTHER                  -> UpdateState(g.tenant, g.result, FALSE, 0)
       \/ /\ IF g.result = "done" THEN CallFails ELSE StoreFails
          /\ UNCHANGED rowVars
    /\ Move(g, "clear", "none")
    /\ UNCHANGED running

ClearRunning(g) ==
    /\ g.at = "clear"
    /\ running' = running \ {g.tenant}
    /\ runs' = runs \ {g}
    /\ UNCHANGED <<rowVars, faults>>

RunStep(g) ==
    /\ MarkRunning(g) \/ Scan(g) \/ WriteResult(g) \/ ClearRunning(g)
    /\ UNCHANGED <<userVars, loopVars, procVars>>

-----------------------------------------------------------------------------
(* Time and process.                                                       *)

RetryTimePasses(t) ==
    /\ Exists(t) /\ row[t].waiting
    /\ row' = [row EXCEPT ![t].waiting = FALSE]
    /\ UNCHANGED <<older, userVars, loopVars, runVars, procVars, faults>>

Shutdown ==
    /\ ~ctxDone /\ ctxDone' = TRUE
    /\ UNCHANGED <<rowVars, userVars, loopVars, runVars, crashes, faults>>

(* The process dies, or has shut down, and is started again.               *)
Restart ==
    /\ crashes < MaxCrashes
    /\ crashes' = crashes + 1
    /\ EndRound /\ running' = {} /\ runs' = {} /\ handlers' = {} /\ ctxDone' = FALSE
    /\ UNCHANGED <<rowVars, limit, ready, requests, faults>>

Next ==
    \/ Request \/ \E h \in handlers : FinishRequest(h)
    \/ Loop
    \/ \E g \in runs : RunStep(g)
    \/ \E t \in Tenants : RetryTimePasses(t)
    \/ Shutdown \/ Restart

(* Goroutines run, the poll ticker ticks, scans end and time passes.       *)
Fairness ==
    /\ WF_vars(Loop)
    /\ \A t \in Tenants : WF_vars(\E g \in runs : g.tenant = t /\ RunStep(g))
    /\ \A t \in Tenants : WF_vars(RetryTimePasses(t))
    /\ WF_vars(\E h \in handlers : FinishRequest(h))

Spec == Init /\ [][Next]_vars

FairSpec == Spec /\ Fairness

-----------------------------------------------------------------------------
(* Properties.                                                             *)

Scanning(t) == \E g \in runs : g.tenant = t

(* Never two scheduled scans of one tenant, whatever handlers do to its    *)
(* row while a scan is under way.                                          *)
OneRunPerTenant == \A g, h \in runs : g.tenant = h.tenant => g = h

(* A started scan never takes the number of scans alive past the limit the *)
(* round has read, although runs end and limits change during the round.   *)
LimitRespected ==
    [][runs' \ runs # {} /\ Cardinality(runs') > Cardinality(runs)
         => Cardinality(runs') <= limitRead]_vars

Off(t) == Exists(t) /\ ~row[t].enabled
Pending(t) == \E i \in DOMAIN list : list[i].tenant = t

(* A pause or a disconnection takes effect: a round that had listed the    *)
(* tenant before may still start it, once, and overwrite "paused" in its   *)
(* row; neither that run's outcome nor a restart gets it listed again      *)
(* while scanning stays off.                                               *)
PauseTakesEffect ==
    [][\A t \in Tenants :
          Off(t) /\ Off(t)' =>
             /\ Pending(t)' => Pending(t)
             /\ Scanning(t)' => Scanning(t) \/ (Pending(t) /\ ~Pending(t)')]_vars

Enabled(t) == Exists(t) /\ row[t].enabled /\ row[t].reader # NoReader

(* "Scheduler starts fair, bounded tenant scan runs": a tenant that stays  *)
(* enabled and not parked is scanned again and again, whatever state a     *)
(* crash left its row in and however few scans may run at a time.          *)
FairScans ==
    \A t \in Tenants :
       <>[](Enabled(t) /\ row[t].state \notin Parked /\ ~ctxDone) => []<>Scanning(t)

(* A shutdown is never held up for ever by runs.                           *)
ShutdownCompletes == ctxDone ~> (pc = "exited" \/ ~ctxDone)

(* "Reconnect your reader account to continue scanning": a tenant whose    *)
(* reader stays enabled and ready is scanned.                              *)
ReconnectContinues ==
    \A t \in Tenants :
       <>[](Enabled(t) /\ row[t].reader \in ready[t] /\ ~ctxDone) => []<>Scanning(t)
=============================================================================
