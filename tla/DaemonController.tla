--------------------------- MODULE DaemonController ---------------------------
(***************************************************************************)
(* The interactive scan daemon, internal/daemon/controller.go.             *)
(*                                                                         *)
(* HTTP handlers and the community sync submit commands to a queue; one    *)
(* worker goroutine executes them in turn and owns at most one scan run,   *)
(* itself a goroutine.  Close and a process signal cancel the context the  *)
(* worker, the runs and the waiting callers share.  A step is what one of  *)
(* these goroutines does between two points where another can observe it:  *)
(* a critical section of queueMu or mu, a channel operation, a store call. *)
(*                                                                         *)
(* A definition whose comment begins with "Fault:" is a mistaken variant   *)
(* of the one after it, kept to show that a property notices the mistake.  *)
(***************************************************************************)
EXTENDS Naturals, Sequences

CONSTANTS
    Requests,   \* the RunRequest values callers use: a tenant and a reader
    NoRequest,  \* RunRequest{}
    Callers,    \* goroutines that call the controller
    MaxCalls    \* bound on the number of calls in a behaviour

ASSUME RequestAssumption == NoRequest \notin Requests
ASSUME BoundAssumption == MaxCalls \in Nat

VARIABLES
    queue,      \* c.queue: the commands the worker has not taken
    closed,     \* c.closed
    wake,       \* c.wake holds a token (a channel of capacity one)
    ctxDone,    \* c.ctx is cancelled
    wpc,        \* the runActions goroutine: where it is,
    wcmd,       \* the command it executes,
    wtarget,    \* and the run whose end it awaits
    stopDone,   \* callers whose Stop command has closed its done channel
    runs,       \* the run goroutines that have not closed their done channel
    running,    \* c.running, and c.runCancel # nil: they are set together
    done,       \* the run whose end closes c.done, 0 for nil
    active,     \* c.activeTenant and c.activeReader
    lastError,  \* c.lastError is not empty
    launched,   \* number of runs launched so far, the id of the last one
    persisted,  \* the request of the last successful SetActiveScanningReader
    cpc,        \* each caller: where it is
    ccmd,       \* and the command it submits
    calls,      \* number of calls begun, at most MaxCalls
    xpc,        \* the goroutine that calls Close: where it is
    xtarget,    \* and the run whose end it awaits
    last        \* history: the last command the queue accepted

queueVars  == <<queue, closed, wake>>
workerVars == <<wpc, wcmd, wtarget>>
mu         == <<running, done, active, lastError>>     \* what c.mu guards
runVars    == <<runs, mu, launched, persisted>>
callVars   == <<cpc, ccmd, calls, last>>
closeVars  == <<xpc, xtarget>>
vars == <<queueVars, ctxDone, workerVars, stopDone, runVars, callVars, closeVars>>

Command == [op : {"start", "stop", "rescan", "restart"},
            req : Requests \cup {NoRequest}, by : Callers,
            refresh : BOOLEAN]      \* issued by RefreshResolver

NoCommand == [op |-> "none"]

Run == [id : Nat, req : Requests \cup {NoRequest}, mode : {"continuous", "rescan"},
        phase : {"launched", "scanning", "returned"},
        cancelled : BOOLEAN,        \* its own cancel function was called
        fresh : BOOLEAN,            \* it scans with the current resolver
        failed : BOOLEAN]           \* scanner.Run returned a reportable error

TypeOK ==
    /\ queue \in Seq(Command)
    /\ closed \in BOOLEAN /\ wake \in BOOLEAN /\ ctxDone \in BOOLEAN
    /\ wpc \in {"none", "loop", "wait", "decide", "stop", "await", "clear", "check",
                "persist", "launch", "exited"}
    /\ wcmd \in Command \cup {NoCommand} /\ wtarget \in Nat
    /\ stopDone \subseteq Callers
    /\ runs \subseteq Run
    /\ running \in BOOLEAN /\ lastError \in BOOLEAN
    /\ active \in Requests \cup {NoRequest}
    /\ done \in Nat /\ launched \in Nat
    /\ persisted \in Requests \cup {NoRequest}
    /\ cpc \in [Callers -> {"idle", "enqueue", "signal", "wait", "reload", "reloaded"}]
    /\ ccmd \in [Callers -> Command \cup {NoCommand}]
    /\ calls \in Nat
    /\ xpc \in {"open", "worker", "stop", "await", "closed", "timedOut"}
    /\ xtarget \in Nat
    /\ last \in Command \cup {NoCommand}

Init ==
    /\ queue = <<>> /\ closed = FALSE /\ wake = FALSE /\ ctxDone = FALSE
    /\ wpc = "none" /\ wcmd = NoCommand /\ wtarget = 0
    /\ stopDone = {} /\ runs = {} /\ launched = 0 /\ persisted = NoRequest
    /\ running = FALSE /\ done = 0 /\ active = NoRequest /\ lastError = FALSE
    /\ cpc = [c \in Callers |-> "idle"] /\ ccmd = [c \in Callers |-> NoCommand]
    /\ calls = 0 /\ last = NoCommand
    /\ xpc = "open" /\ xtarget = 0

-----------------------------------------------------------------------------
(* Callers.                                                                *)

BeginCall(c) ==
    /\ cpc[c] = "idle"
    /\ calls < MaxCalls
    /\ calls' = calls + 1

Goto(c, pc, cmd) == cpc' = [cpc EXCEPT ![c] = pc] /\ ccmd' = [ccmd EXCEPT ![c] = cmd]

Return(c) == Goto(c, "idle", NoCommand)

NewCommand(c, op, req, refresh) == [op |-> op, req |-> req, by |-> c, refresh |-> refresh]

(* enqueue: refused once closed; the first command starts the worker.      *)
Enqueue(c, cmd) ==
    /\ \/ closed /\ Return(c) /\ UNCHANGED <<queue, wpc, last>>
       \/ /\ ~closed
          /\ queue' = Append(queue, cmd)
          /\ last' = cmd
          /\ wpc' = IF wpc = "none" THEN "loop" ELSE wpc
          /\ Goto(c, "signal", cmd)
    /\ UNCHANGED <<closed, wake, ctxDone, wcmd, wtarget, stopDone, runVars, closeVars>>

(* POST /daemon/start.                                                     *)
Start(c) ==
    /\ BeginCall(c)
    /\ \E r \in Requests : Enqueue(c, NewCommand(c, "start", r, FALSE))

(* POST /daemon/rescan and /scanning/rescans.                              *)
Rescan(c) ==
    /\ BeginCall(c)
    /\ \E r \in Requests : Enqueue(c, NewCommand(c, "rescan", r, FALSE))

(* DisconnectReader stops the daemon if Status() shows it running.         *)
StopIfRunning(c) ==
    /\ BeginCall(c)
    /\ running
    /\ Goto(c, "enqueue", NewCommand(c, "stop", NoRequest, FALSE))
    /\ UNCHANGED <<queueVars, ctxDone, workerVars, stopDone, runVars, last, closeVars>>

(* A finished OAuth exchange restarts a running daemon, with the tenant    *)
(* and the reader that were authorised.                                    *)
RestartIfRunning(c) ==
    /\ BeginCall(c)
    /\ running
    /\ \E r \in Requests : Goto(c, "enqueue", NewCommand(c, "restart", r, FALSE))
    /\ UNCHANGED <<queueVars, ctxDone, workerVars, stopDone, runVars, last, closeVars>>

(* Stop and Restart reach enqueue.                                         *)
SubmitPending(c) ==
    /\ cpc[c] = "enqueue"
    /\ Enqueue(c, ccmd[c])
    /\ UNCHANGED calls

(* Fault: a queued command leaves the worker unsignalled.                  *)
Unsignalled == wake
Signalled == TRUE

(* signalWorker; Stop goes on to wait for its done channel.                *)
Signal(c) ==
    /\ cpc[c] = "signal"
    /\ wake' = Signalled
    /\ IF ccmd[c].op = "stop" THEN Goto(c, "wait", NoCommand) ELSE Return(c)
    /\ UNCHANGED <<queue, closed, ctxDone, workerVars, stopDone, runVars, calls, last, closeVars>>

StopReturns(c) ==
    /\ cpc[c] = "wait"
    /\ c \in stopDone \/ ctxDone
    /\ stopDone' = stopDone \ {c}
    /\ Return(c)
    /\ UNCHANGED <<queueVars, ctxDone, workerVars, runVars, calls, last, closeVars>>

(* RefreshResolver: nothing when closed, else reload the snapshot ...      *)
Refresh(c) ==
    /\ BeginCall(c)
    /\ ~closed
    /\ Goto(c, "reload", NoCommand)
    /\ UNCHANGED <<queueVars, ctxDone, workerVars, stopDone, runVars, last, closeVars>>

(* ... which can fail; a reload leaves every scanning run behind ...       *)
Reload(c) ==
    /\ cpc[c] = "reload"
    /\ \/ Return(c) /\ UNCHANGED runs
       \/ Goto(c, "reloaded", NoCommand) /\ runs' = {[g EXCEPT !.fresh = FALSE] : g \in runs}
    /\ UNCHANGED <<queueVars, ctxDone, workerVars, stopDone, mu, launched, persisted,
                   calls, last, closeVars>>

(* ... so restart what c.mu shows running; the lock is released before the *)
(* command is queued.                                                      *)
ReadActive(c) ==
    /\ cpc[c] = "reloaded"
    /\ IF running /\ active # NoRequest
       THEN Goto(c, "enqueue", NewCommand(c, "restart", active, TRUE))
       ELSE Return(c)
    /\ UNCHANGED <<queueVars, ctxDone, workerVars, stopDone, runVars, calls, last, closeVars>>

Caller(c) ==
    \/ Start(c) \/ Rescan(c) \/ StopIfRunning(c) \/ RestartIfRunning(c)
    \/ SubmitPending(c) \/ Signal(c) \/ StopReturns(c) \/ Refresh(c) \/ Reload(c) \/ ReadActive(c)

-----------------------------------------------------------------------------
(* The worker goroutine.                                                   *)

Work(pc) ==
    /\ wpc' = pc
    /\ wcmd' = IF pc = "loop" THEN NoCommand ELSE wcmd
    /\ wtarget' = 0

(* Fault: a Restart that, like Start, leaves an identical run alone.       *)
EntryLikeStart(cmd) == IF cmd.op \in {"start", "restart"} THEN "decide" ELSE "stop"
(* Fault: a Restart that does not stop the run.                            *)
EntryWithoutStop(cmd) ==
    IF cmd.op = "start" THEN "decide" ELSE IF cmd.op = "restart" THEN "check" ELSE "stop"
(* Where the execution of a command begins.                                *)
Entry(cmd) == IF cmd.op = "start" THEN "decide" ELSE "stop"

Exits == closed \/ ctxDone

(* The next command, or no more: run it, exit, or wait for a token.        *)
TakeCommand ==
    /\ wpc = "loop"
    /\ \/ /\ queue # <<>>
          /\ wpc' = Entry(Head(queue)) /\ wcmd' = Head(queue) /\ UNCHANGED wtarget
          /\ queue' = Tail(queue)
       \/ /\ queue = <<>>
          /\ Work(IF Exits THEN "exited" ELSE "wait")
          /\ UNCHANGED queue
    /\ UNCHANGED <<closed, wake, ctxDone, stopDone, runVars, callVars, closeVars>>

(* The select at the end of the loop; with both ready it may take either.  *)
WakeUp ==
    /\ wpc = "wait"
    /\ \/ wake /\ wake' = FALSE
       \/ ctxDone /\ UNCHANGED wake
    /\ Work("loop")
    /\ UNCHANGED <<queue, closed, ctxDone, stopDone, runVars, callVars, closeVars>>

(* Fault: any run counts as the same run.                                  *)
AnyRun(req) == running
SameRun(req) == running /\ active = req

(* transitionStart: nothing to do for the same run, stop any other.        *)
Decide ==
    /\ wpc = "decide"
    /\ Work(IF SameRun(wcmd.req) THEN "loop" ELSE IF running THEN "stop" ELSE "check")
    /\ UNCHANGED <<queueVars, ctxDone, stopDone, runVars, callVars, closeVars>>

(* Fault: the run's done channel is never waited for.                      *)
NoWait(id) == TRUE
Ended(id) == \A g \in runs : g.id # id

CancelRun == runs' = {[g EXCEPT !.cancelled = @ \/ g.id = done] : g \in runs}

AfterStop(cmd) == IF cmd.op = "stop" THEN "clear" ELSE "check"

(* stopCurrent, first half: cancel the current run.                        *)
StopCurrent ==
    /\ wpc = "stop"
    /\ \/ ~running /\ Work(AfterStop(wcmd)) /\ UNCHANGED runs
       \/ running /\ wpc' = "await" /\ wtarget' = done /\ UNCHANGED wcmd /\ CancelRun
    /\ UNCHANGED <<queueVars, ctxDone, stopDone, mu, launched, persisted, callVars,
                   closeVars>>

(* stopCurrent, second half: the run ends, or the context does, which      *)
(* abandons the command; an abandoned Stop still closes its done channel.  *)
AwaitRun ==
    /\ wpc = "await"
    /\ \/ Ended(wtarget) /\ Work(AfterStop(wcmd)) /\ UNCHANGED stopDone
       \/ /\ ctxDone
          /\ Work("loop")
          /\ stopDone' = stopDone \cup {c \in Callers : wcmd.op = "stop" /\ wcmd.by = c}
    /\ UNCHANGED <<queueVars, ctxDone, runVars, callVars, closeVars>>

(* The end of transitionStop.                                              *)
ClearActive ==
    /\ wpc = "clear"
    /\ active' = NoRequest
    /\ stopDone' = stopDone \cup {wcmd.by}
    /\ Work("loop")
    /\ UNCHANGED <<queueVars, ctxDone, runs, running, done, lastError,
                   launched, persisted, callVars, closeVars>>

(* A cancelled context abandons the launch; Restart does not persist.      *)
CheckContext ==
    /\ wpc = "check"
    /\ Work(IF ctxDone THEN "loop" ELSE IF wcmd.op = "restart" THEN "launch" ELSE "persist")
    /\ UNCHANGED <<queueVars, ctxDone, stopDone, runVars, callVars, closeVars>>

(* persistActiveReader: a failure is only logged.                          *)
PersistActiveReader ==
    /\ wpc = "persist"
    /\ persisted' \in {persisted, wcmd.req}
    /\ Work("launch")
    /\ UNCHANGED <<queueVars, ctxDone, stopDone, runs, mu, launched, callVars, closeVars>>

(* Fault: the name of the command is passed for the scan mode.             *)
ModeIsName(cmd) == cmd.op
ModeOf(cmd) == IF cmd.op = "rescan" THEN "rescan" ELSE "continuous"

Launch ==
    /\ wpc = "launch"
    /\ launched' = launched + 1
    /\ runs' = runs \cup {[id |-> launched + 1, req |-> wcmd.req,
                           mode |-> ModeOf(wcmd), phase |-> "launched",
                           cancelled |-> FALSE, fresh |-> FALSE, failed |-> FALSE]}
    /\ running' = TRUE /\ done' = launched + 1 /\ active' = wcmd.req
    /\ lastError' = FALSE
    /\ Work("loop")
    /\ UNCHANGED <<queueVars, ctxDone, stopDone, persisted, callVars, closeVars>>

Worker ==
    \/ TakeCommand \/ WakeUp \/ Decide \/ StopCurrent \/ AwaitRun \/ ClearActive
    \/ CheckContext \/ PersistActiveReader \/ Launch

-----------------------------------------------------------------------------
(* A run goroutine.                                                        *)

(* scanner.Run has passed its readiness checks and took the resolver.      *)
RunTakesResolver(g) ==
    /\ g.phase = "launched"
    /\ runs' = (runs \ {g}) \cup {[g EXCEPT !.phase = "scanning", !.fresh = TRUE]}
    /\ UNCHANGED mu

(* scanner.Run returns: a failure, a cancellation or a timeout.            *)
RunReturns(g) ==
    /\ g.phase # "returned"
    /\ \E failed \in BOOLEAN :
          runs' = (runs \ {g}) \cup {[g EXCEPT !.phase = "returned", !.failed = failed]}
    /\ UNCHANGED mu

(* Fault: the goroutine forgets to close its done channel.                 *)
RunEndsSilently(g) ==
    g.phase = "returned" /\ running' = FALSE /\ UNCHANGED <<runs, done, active, lastError>>

(* The goroutine's last critical section ends by closing its done channel. *)
RunEnds(g) ==
    /\ g.phase = "returned"
    /\ runs' = runs \ {g}
    /\ running' = (running /\ done # g.id)
    /\ lastError' = (lastError \/ (done = g.id /\ g.failed))
    /\ UNCHANGED <<done, active>>

otherVars == <<queueVars, ctxDone, workerVars, stopDone, launched, persisted, callVars,
               closeVars>>

RunStep ==
    /\ \E g \in runs : RunTakesResolver(g) \/ RunReturns(g) \/ RunEnds(g)
    /\ UNCHANGED otherVars

-----------------------------------------------------------------------------
(* Shutdown.                                                               *)

(* SIGINT or SIGTERM cancels the context the controller was built with.    *)
ProcessSignal ==
    /\ ~ctxDone
    /\ ctxDone' = TRUE
    /\ UNCHANGED <<queueVars, workerVars, stopDone, runVars, callVars, closeVars>>

(* Fault: Close does not wait for the worker.                              *)
StopAtOnce == "stop"
FirstWait == IF wpc = "none" THEN "stop" ELSE "worker"

(* Close drops the queue, cancels the context and signals the worker.      *)
BeginClose ==
    /\ xpc = "open"
    /\ closed' = TRUE /\ queue' = <<>> /\ ctxDone' = TRUE /\ wake' = TRUE
    /\ xpc' = FirstWait /\ UNCHANGED xtarget
    /\ UNCHANGED <<workerVars, stopDone, runVars, callVars>>

CloseSeesWorkerDone ==
    xpc = "worker" /\ wpc = "exited" /\ xpc' = "stop" /\ UNCHANGED <<xtarget, runs>>

CloseStopsRun ==
    /\ xpc = "stop"
    /\ \/ ~running /\ xpc' = "closed" /\ UNCHANGED <<xtarget, runs>>
       \/ running /\ xpc' = "await" /\ xtarget' = done /\ CancelRun

CloseSeesRunDone ==
    xpc = "await" /\ Ended(xtarget) /\ xpc' = "closed" /\ xtarget' = 0 /\ UNCHANGED runs

(* Close waits for the worker, then stops the run as the worker would.     *)
CloseStep ==
    /\ CloseSeesWorkerDone \/ CloseStopsRun \/ CloseSeesRunDone
    /\ UNCHANGED <<queueVars, ctxDone, workerVars, stopDone, mu, launched, persisted,
                   callVars>>

(* The shutdown deadline expires: Close gives up with an error.            *)
CloseTimesOut ==
    /\ xpc \in {"worker", "await"}
    /\ xpc' = "timedOut" /\ xtarget' = 0
    /\ UNCHANGED <<queueVars, ctxDone, workerVars, stopDone, runVars, callVars>>

-----------------------------------------------------------------------------
Next ==
    \/ \E c \in Callers : Caller(c)
    \/ Worker
    \/ RunStep
    \/ ProcessSignal \/ BeginClose \/ CloseStep \/ CloseTimesOut

Cancelled(g) == g.cancelled \/ ctxDone

(* Goroutines keep running; a call, a signal, Close and a run's own end    *)
(* need not happen, but a cancelled run returns.                           *)
Fairness ==
    /\ \A c \in Callers : /\ WF_vars(SubmitPending(c)) /\ WF_vars(Signal(c))
                          /\ WF_vars(StopReturns(c))
                          /\ WF_vars(Reload(c)) /\ WF_vars(ReadActive(c))
    /\ WF_vars(Worker)
    /\ WF_vars((\E g \in runs : Cancelled(g) /\ RunReturns(g)) /\ UNCHANGED otherVars)
    /\ WF_vars((\E g \in runs : RunEnds(g)) /\ UNCHANGED otherVars)
    /\ WF_vars(CloseStep)

Spec == Init /\ [][Next]_vars

FairSpec == Spec /\ Fairness

-----------------------------------------------------------------------------
(* Properties.                                                             *)

(* Every run goroutine that is alive is the one c.done stands for, Status  *)
(* reports and stopCurrent would cancel: no later run ever orphans it.     *)
NoOrphanRun == \A g \in runs : running /\ g.id = done

(* Stop "cancels and waits for the active daemon run": unless the process  *)
(* is shutting down, no run is alive when a Stop call is released.         *)
StopWaits == [][(stopDone' \ stopDone # {} /\ ~ctxDone) => runs = {}]_vars

(* The worker has executed everything the queue accepted.                  *)
Settled == wpc \in {"none", "wait"} /\ queue = <<>> /\ ~ctxDone

(* Once settled, the daemon is what the last accepted command asked for,   *)
(* whatever order the callers, the worker and the runs were scheduled in.  *)
LastCommandWins ==
    Settled =>
       /\ last.op \in {"none", "stop"} => runs = {} /\ active = NoRequest
       /\ last.op \in {"start", "rescan", "restart"} =>
             /\ active = last.req
             /\ \A g \in runs : g.req = last.req /\ (last.op # "start" => g.mode = ModeOf(last))

Refreshing(c) ==
    cpc[c] = "reloaded" \/ (cpc[c] = "enqueue" /\ ccmd[c].refresh)

(* Once RefreshResolver has returned and the worker has settled, no run    *)
(* scans with the category resolver that was replaced.                     *)
ResolverApplied ==
    Settled /\ (\A c \in Callers : ~Refreshing(c)) =>
       \A g \in runs : g.phase = "scanning" => g.fresh

(* The controller implements its abstract specification: runs follow one   *)
(* another, and none is alive or launched once Close has returned.         *)
Service == INSTANCE DaemonService
             WITH live <- {g.id : g \in runs}, count <- launched, open <- xpc # "closed"

ImplementsService == Service!Spec

(* Every Stop call returns, and Close, once it was called, does so without  *)
(* the help of its deadline: no wake-up is lost and no Stop is dropped.    *)
CallersReturn ==
    /\ \A c \in Callers : cpc[c] = "wait" ~> cpc[c] = "idle"
    /\ xpc # "open" ~> xpc \in {"closed", "timedOut"}

(* Every accepted command is executed, unless the process shuts down.      *)
CommandsExecuted == queue # <<>> ~> (Settled \/ ctxDone)
=============================================================================
