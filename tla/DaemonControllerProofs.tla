------------------------ MODULE DaemonControllerProofs ------------------------
(***************************************************************************)
(* Theorems about the daemon controller, for every set of requests and     *)
(* callers and any number of calls.                                        *)
(***************************************************************************)
EXTENDS DaemonController, TLAPS

(* A worker, or a caller, with work in hand has a command.                 *)
HoldsCommand ==
    /\ wpc \in {"decide", "stop", "await", "clear", "check", "persist", "launch"} =>
          wcmd \in Command
    /\ \A c \in Callers : cpc[c] \in {"enqueue", "signal"} => ccmd[c] \in Command

(* At most one run is alive, and it is the last one launched.              *)
OneRun ==
    /\ \A g, h \in runs : g = h
    /\ \A g \in runs : g.id = launched
    /\ done = launched
    /\ running <=> runs # {}

(* Between its stop and its launch the worker knows that no run is alive.  *)
WorkerView ==
    /\ wpc = "await" => wtarget = done
    /\ wpc \in {"clear", "check", "persist", "launch"} => runs = {}

(* Once Close has seen the worker exit, nobody launches a run any more.    *)
CloseView ==
    /\ xpc # "open" => closed
    /\ xpc \in {"stop", "await", "closed"} => wpc \in {"none", "exited"}
    /\ xpc = "await" => xtarget = done
    /\ xpc = "closed" => runs = {}

TypeInv == TypeOK /\ HoldsCommand

USE DEF queueVars, workerVars, mu, runVars, callVars, closeVars

-----------------------------------------------------------------------------
(* Queueing a well-formed command keeps the types.                         *)
LEMMA EnqueueType ==
    ASSUME NEW c \in Callers, NEW cmd \in Command, TypeInv, Enqueue(c, cmd), calls' \in Nat
    PROVE  TypeInv'
<1> USE DEF TypeInv, TypeOK, HoldsCommand, Enqueue, Return, Goto
<1>1. CASE closed
  BY <1>1
<1>2. CASE ~closed
  <2>1. queue' \in Seq(Command)
    BY <1>2
  <2> QED
    BY <1>2, <2>1
<1> QED
  BY <1>1, <1>2

(* The updates of a run record keep its type and its identity.             *)
LEMMA RunUpdate ==
    ASSUME NEW g \in Run, NEW b \in BOOLEAN
    PROVE  /\ [g EXCEPT !.fresh = b] \in Run /\ [g EXCEPT !.fresh = b].id = g.id
           /\ [g EXCEPT !.cancelled = b] \in Run /\ [g EXCEPT !.cancelled = b].id = g.id
           /\ LET h == [g EXCEPT !.phase = "scanning", !.fresh = TRUE]
              IN  h \in Run /\ h.id = g.id
           /\ LET h == [g EXCEPT !.phase = "returned", !.failed = b]
              IN  h \in Run /\ h.id = g.id
BY DEF Run

LEMMA NewCommandType ==
    ASSUME NEW c \in Callers, NEW op \in {"start", "stop", "rescan", "restart"},
           NEW r \in Requests \cup {NoRequest}, NEW b \in BOOLEAN
    PROVE  NewCommand(c, op, r, b) \in Command
BY DEF NewCommand, Command

(* A caller that moves on with a command, or with none.                    *)
LEMMA GotoType ==
    ASSUME NEW c \in Callers, NEW pc \in {"idle", "enqueue", "wait", "reload", "reloaded"},
           NEW cmd \in Command \cup {NoCommand},
           pc = "enqueue" => cmd \in Command,
           TypeInv, Goto(c, pc, cmd), calls' \in Nat, wake' \in BOOLEAN,
           runs' \subseteq Run, stopDone' \subseteq Callers,
           UNCHANGED <<queue, closed, ctxDone, workerVars, mu, launched, persisted,
                       last, closeVars>>
    PROVE  TypeInv'
BY DEF TypeInv, TypeOK, HoldsCommand, Goto

LEMMA CallerType ==
    ASSUME NEW c \in Callers, TypeInv, Caller(c)
    PROVE  TypeInv'
<1> USE DEF BeginCall, Return
<1>0. /\ calls \in Nat /\ wake \in BOOLEAN /\ runs \subseteq Run /\ stopDone \subseteq Callers
      /\ active \in Requests \cup {NoRequest}
      /\ cpc[c] \in {"enqueue", "signal"} => ccmd[c] \in Command
  BY DEF TypeInv, TypeOK, HoldsCommand
<1>1. CASE Start(c)
  <2>1. PICK r \in Requests : Enqueue(c, NewCommand(c, "start", r, FALSE))
    BY <1>1 DEF Start
  <2>2. calls' \in Nat
    BY <1>0, <1>1 DEF Start
  <2> QED
    BY <2>1, <2>2, NewCommandType, EnqueueType
<1>2. CASE Rescan(c)
  <2>1. PICK r \in Requests : Enqueue(c, NewCommand(c, "rescan", r, FALSE))
    BY <1>2 DEF Rescan
  <2>2. calls' \in Nat
    BY <1>0, <1>2 DEF Rescan
  <2> QED
    BY <2>1, <2>2, NewCommandType, EnqueueType
<1>3. CASE SubmitPending(c)
  BY <1>0, <1>3, EnqueueType DEF SubmitPending
<1>4. CASE StopIfRunning(c)
  <2>1. Goto(c, "enqueue", NewCommand(c, "stop", NoRequest, FALSE))
    BY <1>4 DEF StopIfRunning
  <2>2. NewCommand(c, "stop", NoRequest, FALSE) \in Command
    BY DEF NewCommand, Command
  <2>3. calls' \in Nat
    BY <1>0, <1>4 DEF StopIfRunning
  <2> QED
    BY <1>0, <1>4, <2>1, <2>2, <2>3, GotoType DEF StopIfRunning
<1>5. CASE RestartIfRunning(c)
  <2>1. PICK r \in Requests : Goto(c, "enqueue", NewCommand(c, "restart", r, FALSE))
    BY <1>5 DEF RestartIfRunning
  <2>2. NewCommand(c, "restart", r, FALSE) \in Command
    BY NewCommandType
  <2>3. calls' \in Nat
    BY <1>0, <1>5 DEF RestartIfRunning
  <2> QED
    BY <1>0, <1>5, <2>1, <2>2, <2>3, GotoType DEF RestartIfRunning
<1>6. CASE Signal(c)
  <2>1. Goto(c, "wait", NoCommand) \/ Goto(c, "idle", NoCommand)
    BY <1>6 DEF Signal
  <2> QED
    BY <1>0, <1>6, <2>1, GotoType DEF Signal, Signalled
<1>7. CASE StopReturns(c)
  BY <1>0, <1>7, GotoType DEF StopReturns
<1>8. CASE Refresh(c)
  BY <1>0, <1>8, GotoType DEF Refresh
<1>9. CASE Reload(c)
  <2>1. runs' \subseteq Run
    <3>1. runs' = runs \/ runs' = {[g EXCEPT !.fresh = FALSE] : g \in runs}
      BY <1>9 DEF Reload
    <3>2. \A g \in runs : [g EXCEPT !.fresh = FALSE] \in Run
      BY <1>0, RunUpdate
    <3> QED
      BY <1>0, <3>1, <3>2
  <2>2. Goto(c, "reloaded", NoCommand) \/ Goto(c, "idle", NoCommand)
    BY <1>9 DEF Reload
  <2> QED
    BY <1>0, <1>9, <2>1, <2>2, GotoType DEF Reload
<1>10. CASE ReadActive(c)
  <2>1. NewCommand(c, "restart", active, TRUE) \in Command
    BY <1>0 DEF NewCommand, Command
  <2>2. \/ Goto(c, "enqueue", NewCommand(c, "restart", active, TRUE))
        \/ Goto(c, "idle", NoCommand)
    BY <1>10 DEF ReadActive
  <2> QED
    BY <1>0, <1>10, <2>1, <2>2, GotoType DEF ReadActive
<1> QED
  BY <1>1, <1>2, <1>3, <1>4, <1>5, <1>6, <1>7, <1>8, <1>9, <1>10 DEF Caller

(* Cancelling the run c.done stands for touches no type.                   *)
LEMMA CancelRunType ==
    ASSUME TypeInv, CancelRun
    PROVE  runs' \subseteq Run
<1>1. runs \subseteq Run /\ runs' = {[g EXCEPT !.cancelled = g.cancelled \/ g.id = done] : g \in runs}
  BY DEF TypeInv, TypeOK, CancelRun
<1>2. ASSUME NEW g \in runs
      PROVE  [g EXCEPT !.cancelled = g.cancelled \/ g.id = done] \in Run
  <2>1. g \in Run
    BY <1>1
  <2>2. (g.cancelled \/ g.id = done) \in BOOLEAN
    OBVIOUS
  <2> QED
    BY <2>1, <2>2, RunUpdate, Zenon
<1> QED
  BY <1>1, <1>2

LEMMA WorkerType ==
    ASSUME TypeInv, Worker
    PROVE  TypeInv'
<1> USE DEF TypeInv, TypeOK, HoldsCommand, Work
<1>1. CASE TakeCommand
  <2>1. CASE queue # <<>> /\ queue' = Tail(queue)
    <3>1. Head(queue) \in Command /\ queue' \in Seq(Command)
      BY <2>1
    <3> QED
      BY <1>1, <2>1, <3>1 DEF TakeCommand, Entry
  <2>2. CASE queue' = queue /\ Work(IF Exits THEN "exited" ELSE "wait")
    BY <1>1, <2>2 DEF TakeCommand, Exits
  <2> QED
    BY <1>1, <2>1, <2>2 DEF TakeCommand
<1>2. CASE WakeUp
  BY <1>2 DEF WakeUp
<1>3. CASE Decide
  BY <1>3 DEF Decide
<1>4. CASE StopCurrent
  <2>1. runs' \subseteq Run
    BY <1>4, CancelRunType DEF StopCurrent
  <2> QED
    BY <1>4, <2>1 DEF StopCurrent, AfterStop
<1>5. CASE AwaitRun
  BY <1>5 DEF AwaitRun, AfterStop
<1>6. CASE ClearActive
  <2>1. wcmd.by \in Callers
    BY <1>6 DEF ClearActive, Command
  <2> QED
    BY <1>6, <2>1 DEF ClearActive
<1>7. CASE CheckContext
  BY <1>7 DEF CheckContext
<1>8. CASE PersistActiveReader
  <2>1. wcmd.req \in Requests \cup {NoRequest}
    BY <1>8 DEF PersistActiveReader, Command
  <2> QED
    BY <1>8, <2>1 DEF PersistActiveReader
<1>9. CASE Launch
  <2>1. wcmd.req \in Requests \cup {NoRequest}
    BY <1>9 DEF Launch, Command
  <2>2. launched + 1 \in Nat /\ ModeOf(wcmd) \in {"continuous", "rescan"}
    BY DEF ModeOf
  <2> DEFINE new == [id |-> launched + 1, req |-> wcmd.req,
                     mode |-> ModeOf(wcmd), phase |-> "launched",
                     cancelled |-> FALSE, fresh |-> FALSE, failed |-> FALSE]
  <2>3. new \in Run
    BY <2>1, <2>2 DEF Run
  <2>4. runs' \subseteq Run
    BY <1>9, <2>3 DEF Launch
  <2> HIDE DEF new
  <2> QED
    BY <1>9, <2>1, <2>2, <2>4 DEF Launch
<1> QED
  BY <1>1, <1>2, <1>3, <1>4, <1>5, <1>6, <1>7, <1>8, <1>9 DEF Worker

LEMMA RunType ==
    ASSUME TypeInv, RunStep
    PROVE  TypeInv'
<1>1. PICK g \in runs : RunTakesResolver(g) \/ RunReturns(g) \/ RunEnds(g)
  BY DEF RunStep
<1>2. g \in Run
  BY DEF TypeInv, TypeOK
<1>3. runs' \subseteq Run
  <2>1. CASE RunTakesResolver(g)
    BY <1>2, <2>1, RunUpdate DEF RunTakesResolver, TypeInv, TypeOK
  <2>2. CASE RunReturns(g)
    BY <1>2, <2>2, RunUpdate DEF RunReturns, TypeInv, TypeOK
  <2>3. CASE RunEnds(g)
    BY <2>3 DEF RunEnds, TypeInv, TypeOK
  <2> QED
    BY <1>1, <2>1, <2>2, <2>3
<1>4. running' \in BOOLEAN /\ lastError' \in BOOLEAN /\ UNCHANGED <<done, active>>
  BY <1>1 DEF RunTakesResolver, RunReturns, RunEnds, TypeInv, TypeOK
<1> QED
  BY <1>3, <1>4 DEF RunStep, otherVars, TypeInv, TypeOK, HoldsCommand

LEMMA ShutdownType ==
    ASSUME TypeInv, ProcessSignal \/ BeginClose \/ CloseStep \/ CloseTimesOut
    PROVE  TypeInv'
<1>1. runs' \subseteq Run
  BY CancelRunType DEF ProcessSignal, BeginClose, CloseStep, CloseTimesOut, CloseSeesWorkerDone,
     CloseStopsRun, CloseSeesRunDone, TypeInv, TypeOK
<1> USE DEF TypeInv, TypeOK, HoldsCommand
<1>2. CASE ProcessSignal
  BY <1>2 DEF ProcessSignal
<1>3. CASE BeginClose
  BY <1>3 DEF BeginClose, FirstWait
<1>4. CASE CloseStep
  BY <1>1, <1>4 DEF CloseStep, CloseSeesWorkerDone, CloseStopsRun, CloseSeesRunDone
<1>5. CASE CloseTimesOut
  BY <1>5 DEF CloseTimesOut
<1> QED
  BY <1>2, <1>3, <1>4, <1>5

LEMMA TypeInvInit == Init => TypeInv
<1> SUFFICES ASSUME Init PROVE TypeInv
  OBVIOUS
<1>1. queue \in Seq(Command) /\ stopDone \subseteq Callers /\ runs \subseteq Run
  BY DEF Init
<1>2. /\ cpc \in [Callers -> {"idle"}]
      /\ ccmd \in [Callers -> Command \cup {NoCommand}]
  BY DEF Init
<1>3. TypeOK
  BY <1>1, <1>2 DEF Init, TypeOK
<1>4. HoldsCommand
  BY DEF Init, HoldsCommand
<1> QED
  BY <1>3, <1>4 DEF TypeInv

LEMMA TypeInvNext == TypeInv /\ [Next]_vars => TypeInv'
<1>1. ASSUME TypeInv, UNCHANGED vars
      PROVE  TypeInv'
  BY <1>1 DEF vars, TypeInv, TypeOK, HoldsCommand
<1> QED
  BY <1>1, CallerType, WorkerType, RunType, ShutdownType DEF Next

(* Every variable keeps its type, and whoever acts on a command has one:   *)
(* the worker never executes, and no caller queues, an empty command.      *)
THEOREM TypeCorrect == Spec => []TypeOK
<1>1. TypeInv => TypeOK
  BY DEF TypeInv
<1> QED
  BY <1>1, TypeInvInit, TypeInvNext, PTL DEF Spec

-----------------------------------------------------------------------------
RunInv == OneRun /\ WorkerView /\ CloseView

(* Marking the runs, stale or cancelled, makes none and ends none.         *)
LEMMA MarkedRuns ==
    ASSUME TypeInv, OneRun, UNCHANGED <<running, done, launched>>,
           \/ runs' = runs
           \/ runs' = {[g EXCEPT !.fresh = FALSE] : g \in runs}
           \/ CancelRun
    PROVE  OneRun' /\ (runs' = {} <=> runs = {})
<1>1. runs \subseteq Run
  BY DEF TypeInv, TypeOK
<1>2. /\ \A g \in runs : [g EXCEPT !.fresh = FALSE].id = g.id
      /\ \A g \in runs : [g EXCEPT !.cancelled = g.cancelled \/ g.id = done].id = g.id
  BY <1>1 DEF Run
<1>3. CASE runs = {}
  BY <1>3 DEF OneRun, CancelRun
<1>4. ASSUME NEW g, runs = {g}
      PROVE  OneRun' /\ (runs' = {} <=> runs = {})
  <2>1. PICK h : runs' = {h} /\ h.id = g.id
    <3>1. CASE runs' = {[f EXCEPT !.fresh = FALSE] : f \in runs}
      <4>1. runs' = {[g EXCEPT !.fresh = FALSE]}
        BY <1>4, <3>1
      <4> QED
        BY <1>2, <1>4, <4>1
    <3>2. CASE CancelRun
      <4>1. runs' = {[g EXCEPT !.cancelled = g.cancelled \/ g.id = done]}
        BY <1>4, <3>2 DEF CancelRun
      <4> QED
        BY <1>2, <1>4, <4>1
    <3>3. CASE runs' = runs
      BY <1>4, <3>3
    <3> QED
      BY <3>1, <3>2, <3>3
  <2> QED
    BY <1>4, <2>1 DEF OneRun
<1>5. runs = {} \/ \E g : runs = {g}
  BY DEF OneRun
<1> QED
  BY <1>3, <1>4, <1>5

LEMMA CallerRuns ==
    ASSUME NEW c \in Callers, TypeInv, RunInv, Caller(c)
    PROVE  RunInv'
<1>1. /\ UNCHANGED <<running, done, launched, wtarget, closeVars>>
      /\ runs' = runs \/ runs' = {[g EXCEPT !.fresh = FALSE] : g \in runs}
  BY DEF Caller, Start, Rescan, StopIfRunning, RestartIfRunning, SubmitPending, Signal,
     StopReturns, Refresh, Reload, ReadActive, Enqueue
<1>2. OneRun' /\ (runs' = {} <=> runs = {})
  BY <1>1, MarkedRuns DEF RunInv
<1>3. /\ closed' = closed
      /\ wpc' = wpc \/ (~closed /\ wpc = "none" /\ wpc' = "loop")
  BY DEF Caller, Start, Rescan, StopIfRunning, RestartIfRunning, SubmitPending, Signal,
     StopReturns, Refresh, Reload, ReadActive, Enqueue
<1>4. WorkerView'
  BY <1>1, <1>2, <1>3 DEF RunInv, WorkerView
<1>5. CloseView'
  BY <1>1, <1>2, <1>3 DEF RunInv, CloseView
<1> QED
  BY <1>2, <1>4, <1>5 DEF RunInv

LEMMA WorkerRuns ==
    ASSUME TypeInv, RunInv, Worker
    PROVE  RunInv'
<1> USE DEF RunInv, Work
<1>1. wpc \notin {"none", "exited"} /\ UNCHANGED <<closed, closeVars>>
  BY DEF Worker, TakeCommand, WakeUp, Decide, StopCurrent, AwaitRun, ClearActive, CheckContext,
     PersistActiveReader, Launch
<1>2. xpc \notin {"stop", "await", "closed"} /\ CloseView'
  BY <1>1 DEF CloseView
<1>3. CASE Launch
  <2>1. runs = {}
    BY <1>3 DEF Launch, WorkerView
  <2> DEFINE new == [id |-> launched + 1, req |-> wcmd.req, mode |-> ModeOf(wcmd),
                     phase |-> "launched", cancelled |-> FALSE, fresh |-> FALSE,
                     failed |-> FALSE]
  <2>2. runs' = {new} /\ new.id = launched + 1
    BY <1>3, <2>1 DEF Launch
  <2> HIDE DEF new
  <2>3. OneRun'
    BY <1>3, <2>2 DEF Launch, OneRun
  <2>4. WorkerView'
    BY <1>3 DEF Launch, WorkerView
  <2> QED
    BY <1>2, <2>3, <2>4
<1>4. CASE StopCurrent
  <2>1. OneRun' /\ (runs' = {} <=> runs = {})
    BY <1>4, MarkedRuns DEF StopCurrent
  <2>2. WorkerView'
    BY <1>4, <2>1 DEF StopCurrent, AfterStop, OneRun, WorkerView
  <2> QED
    BY <1>2, <2>1, <2>2
<1>5. CASE AwaitRun
  <2>1. Ended(wtarget) => runs = {}
    BY <1>5 DEF AwaitRun, Ended, OneRun, WorkerView
  <2>2. WorkerView' /\ OneRun'
    BY <1>5, <2>1 DEF AwaitRun, AfterStop, OneRun, WorkerView
  <2> QED
    BY <1>2, <2>2
<1>6. CASE Decide \/ TakeCommand \/ WakeUp \/ ClearActive \/ CheckContext \/ PersistActiveReader
  <2>1. UNCHANGED <<runs, running, done, launched>>
    BY <1>6 DEF Decide, TakeCommand, WakeUp, ClearActive, CheckContext, PersistActiveReader
  <2>2. wpc' \in {"clear", "check", "persist", "launch"} => runs = {}
    BY <1>6 DEF Decide, TakeCommand, WakeUp, ClearActive, CheckContext, PersistActiveReader,
       Entry, OneRun, WorkerView
  <2>3. wpc' # "await"
    BY <1>6 DEF Decide, TakeCommand, WakeUp, ClearActive, CheckContext, PersistActiveReader, Entry
  <2> QED
    BY <1>2, <2>1, <2>2, <2>3 DEF OneRun, WorkerView
<1> QED
  BY <1>3, <1>4, <1>5, <1>6 DEF Worker

LEMMA RunRuns ==
    ASSUME TypeInv, RunInv, RunStep
    PROVE  RunInv'
<1>1. PICK g \in runs : RunTakesResolver(g) \/ RunReturns(g) \/ RunEnds(g)
  BY DEF RunStep
<1>2. g \in Run /\ runs = {g} /\ g.id = done /\ running
  BY DEF TypeInv, TypeOK, RunInv, OneRun
<1>3. UNCHANGED <<launched, closed, wpc, wtarget, closeVars, done>>
  BY <1>1 DEF RunStep, otherVars, RunTakesResolver, RunReturns, RunEnds
<1>4. CASE RunTakesResolver(g) \/ RunReturns(g)
  <2>1. PICK h \in Run : runs' = {h} /\ h.id = g.id
    <3>1. CASE RunTakesResolver(g)
      <4>1. runs' = {[g EXCEPT !.phase = "scanning", !.fresh = TRUE]}
        BY <1>2, <3>1 DEF RunTakesResolver
      <4> QED
        BY <1>2, <4>1, RunUpdate
    <3>2. CASE RunReturns(g)
      <4>1. PICK b \in BOOLEAN : runs' = {[g EXCEPT !.phase = "returned", !.failed = b]}
        BY <1>2, <3>2 DEF RunReturns
      <4> QED
        BY <1>2, <4>1, RunUpdate
    <3> QED
      BY <1>4, <3>1, <3>2
  <2>2. running' = running
    BY <1>4 DEF RunTakesResolver, RunReturns
  <2> QED
    BY <1>2, <1>3, <2>1, <2>2 DEF RunInv, OneRun, WorkerView, CloseView
<1>5. CASE RunEnds(g)
  BY <1>2, <1>3, <1>5 DEF RunEnds, RunInv, OneRun, WorkerView, CloseView
<1> QED
  BY <1>1, <1>4, <1>5

LEMMA ShutdownRuns ==
    ASSUME TypeInv, RunInv, ProcessSignal \/ BeginClose \/ CloseStep \/ CloseTimesOut
    PROVE  RunInv'
<1> USE DEF RunInv
<1>1. UNCHANGED <<running, done, launched, wpc, wtarget>>
  BY DEF ProcessSignal, BeginClose, CloseStep, CloseTimesOut, CloseSeesWorkerDone,
     CloseStopsRun, CloseSeesRunDone
<1>2. OneRun' /\ (runs' = {} <=> runs = {})
  BY <1>1, MarkedRuns DEF ProcessSignal, BeginClose, CloseStep, CloseTimesOut,
     CloseSeesWorkerDone, CloseStopsRun, CloseSeesRunDone
<1>3. WorkerView'
  BY <1>1, <1>2 DEF WorkerView
<1>4. CloseView'
  <2>1. CASE ProcessSignal
    BY <1>1, <1>2, <2>1 DEF ProcessSignal, CloseView
  <2>2. CASE BeginClose
    BY <1>1, <1>2, <2>2 DEF BeginClose, CloseView, FirstWait
  <2>3. CASE CloseStep
    BY <1>1, <1>2, <2>3 DEF CloseStep, CloseSeesWorkerDone, CloseStopsRun, CloseSeesRunDone,
       Ended, CloseView, OneRun
  <2>4. CASE CloseTimesOut
    BY <1>1, <1>2, <2>4 DEF CloseTimesOut, CloseView
  <2> QED
    BY <2>1, <2>2, <2>3, <2>4
<1> QED
  BY <1>2, <1>3, <1>4

LEMMA Inductive == TypeInv /\ RunInv /\ [Next]_vars => RunInv'
<1>1. ASSUME RunInv, UNCHANGED vars
      PROVE  RunInv'
  BY <1>1 DEF vars, RunInv, OneRun, WorkerView, CloseView
<1> QED
  BY <1>1, CallerRuns, WorkerRuns, RunRuns, ShutdownRuns DEF Next

LEMMA Invariance == Spec => [](TypeInv /\ RunInv)
<1>1. Init => RunInv
  BY DEF Init, RunInv, OneRun, WorkerView, CloseView
<1> QED
  BY <1>1, TypeInvInit, TypeInvNext, Inductive, PTL DEF Spec

(* At most one run is alive, Status reports it, and the next Stop, Rescan, *)
(* Restart or Close would cancel it and wait for it.                       *)
THEOREM NoRunIsOrphaned == Spec => []NoOrphanRun
<1>1. RunInv => NoOrphanRun
  BY DEF RunInv, OneRun, NoOrphanRun
<1> QED
  BY <1>1, Invariance, PTL

(* Stop returns its caller only when no run is alive, unless the process   *)
(* is being shut down.                                                     *)
THEOREM StopWaitsForRun == Spec => StopWaits
<1> DEFINE A == (stopDone' \ stopDone # {} /\ ~ctxDone) => runs = {}
<1>1. ASSUME TypeInv, RunInv, [Next]_vars
      PROVE  A
  <2>1. CASE ClearActive
    BY <1>1, <2>1 DEF ClearActive, RunInv, WorkerView
  <2>2. CASE AwaitRun
    BY <2>2 DEF AwaitRun
  <2>3. ASSUME NEW c \in Callers, Caller(c)
        PROVE  stopDone' \subseteq stopDone
    BY <2>3 DEF Caller, Start, Rescan, StopIfRunning, RestartIfRunning, SubmitPending, Signal,
       StopReturns, Refresh, Reload, ReadActive, Enqueue
  <2>4. CASE UNCHANGED stopDone
    BY <2>4
  <2>5. ASSUME Worker
        PROVE  ClearActive \/ AwaitRun \/ UNCHANGED stopDone
    BY <2>5 DEF Worker, TakeCommand, WakeUp, Decide, StopCurrent, CheckContext,
       PersistActiveReader, Launch
  <2>6. ASSUME RunStep \/ ProcessSignal \/ BeginClose \/ CloseStep \/ CloseTimesOut
        PROVE  UNCHANGED stopDone
    BY <2>6 DEF RunStep, otherVars, ProcessSignal, BeginClose, CloseStep, CloseTimesOut
  <2> QED
    BY <1>1, <2>1, <2>2, <2>3, <2>4, <2>5, <2>6 DEF Next, vars
<1>2. TypeInv /\ RunInv /\ [Next]_vars => [A]_vars
  BY <1>1
<1> QED
  BY <1>2, Invariance, PTL DEF Spec, StopWaits

-----------------------------------------------------------------------------
(* The refinement.  What DaemonService sees of a step.                     *)
live == {g.id : g \in runs}

LEMMA LiveRuns ==
    ASSUME RunInv
    PROVE  live = IF runs = {} THEN {} ELSE {launched}
BY DEF RunInv, OneRun, live

(* A step that launches nothing ends the run, or leaves it, or is Close's. *)
LEMMA ServiceStep ==
    ASSUME TypeInv, RunInv, RunInv', launched' = launched,
           runs = {} => runs' = {},
           xpc' = "closed" <=> xpc = "closed"
    PROVE  [Service!Next]_(Service!vars)
<1>1. live = (IF runs = {} THEN {} ELSE {launched}) /\ live' = IF runs' = {} THEN {} ELSE {launched}
  BY LiveRuns DEF RunInv, OneRun, live
<1> QED
  BY <1>1 DEF Service!Next, Service!vars, Service!End, live

THEOREM ServiceImplemented == Spec => ImplementsService
<1>1. Init => Service!Init
  BY DEF Init, Service!Init
<1>2. ASSUME TypeInv, RunInv, RunInv', [Next]_vars
      PROVE  [Service!Next]_(Service!vars)
  <2>1. ASSUME NEW c \in Callers, Caller(c)
        PROVE  launched' = launched /\ UNCHANGED xpc /\ (runs = {} => runs' = {})
    BY <2>1 DEF Caller, Start, Rescan, StopIfRunning, RestartIfRunning, SubmitPending, Signal,
       StopReturns, Refresh, Reload, ReadActive, Enqueue
  <2>2. ASSUME Worker, ~Launch
        PROVE  launched' = launched /\ UNCHANGED xpc /\ (runs = {} => runs' = {})
    BY <2>2 DEF Worker, TakeCommand, WakeUp, Decide, StopCurrent, AwaitRun, ClearActive,
       CheckContext, PersistActiveReader, CancelRun
  <2>3. ASSUME RunStep
        PROVE  launched' = launched /\ UNCHANGED xpc /\ (runs = {} => runs' = {})
    BY <2>3 DEF RunStep, otherVars
  <2>4. ASSUME ProcessSignal \/ BeginClose \/ CloseTimesOut
        PROVE  launched' = launched /\ (xpc' = "closed" <=> xpc = "closed")
               /\ (runs = {} => runs' = {})
    BY <2>4 DEF ProcessSignal, BeginClose, CloseTimesOut, FirstWait
  <2>5. CASE UNCHANGED vars
    BY <1>2, <2>5, ServiceStep DEF vars
  <2>6. CASE CloseStep
    <3>1. launched' = launched /\ (runs = {} => runs' = {}) /\ xpc # "closed"
      BY <2>6 DEF CloseStep, CloseSeesWorkerDone, CloseStopsRun, CloseSeesRunDone, CancelRun
    <3>2. CASE xpc' # "closed"
      BY <1>2, <3>1, <3>2, ServiceStep
    <3>3. CASE xpc' = "closed"
      <4>1. runs = {} /\ runs' = {}
        BY <1>2, <2>6, <3>1, <3>3 DEF CloseStep, CloseSeesWorkerDone, CloseStopsRun,
           CloseSeesRunDone, Ended, RunInv, OneRun, CloseView
      <4> QED
        BY <3>1, <3>3, <4>1 DEF Service!Next, Service!Close
    <3> QED
      BY <3>2, <3>3
  <2>7. CASE Launch
    <3>1. runs = {} /\ launched' = launched + 1 /\ runs' # {} /\ UNCHANGED xpc /\ xpc # "closed"
      BY <1>2, <2>7 DEF Launch, RunInv, WorkerView, CloseView
    <3>2. \A g \in runs' : g.id = launched'
      BY <1>2 DEF RunInv, OneRun
    <3> QED
      BY <3>1, <3>2 DEF Service!Next, Service!Launch
  <2> QED
    BY <1>2, <2>1, <2>2, <2>3, <2>4, <2>5, <2>6, <2>7, ServiceStep DEF Next
<1>3. TypeInv /\ RunInv /\ [Next]_vars => RunInv'
  BY Inductive
<1> QED
  BY <1>1, <1>2, <1>3, Invariance, PTL DEF Spec, ImplementsService, Service!Spec

-----------------------------------------------------------------------------
(* What the commands amount to.  Only Stop comes without a request, and    *)
(* only a Restart is issued by RefreshResolver.                            *)
Sensible(cmd) == (cmd.op # "stop" => cmd.req # NoRequest) /\ (cmd.refresh => cmd.op = "restart")

Working == {"decide", "stop", "await", "clear", "check", "persist", "launch"}

CommandsSensible ==
    /\ \A i \in 1 .. Len(queue) : Sensible(queue[i])
    /\ \A c \in Callers : cpc[c] \in {"enqueue", "signal"} => Sensible(ccmd[c])
    /\ wpc \in Working => Sensible(wcmd)

(* Where the worker is says which commands it may be executing, and a run  *)
(* is always for the request that c.active holds.                          *)
Executing ==
    /\ wpc = "decide" => wcmd.op = "start"
    /\ wpc = "clear" => wcmd.op = "stop"
    /\ wpc \in {"check", "persist", "launch"} => wcmd.op # "stop"
    /\ \A g \in runs : g.req = active /\ g.req # NoRequest
    /\ closed => ctxDone

CommandInv == CommandsSensible /\ Executing

Obeyed(cmd) ==
    /\ cmd.op \in {"none", "stop"} => runs = {} /\ active = NoRequest
    /\ cmd.op \in {"start", "rescan", "restart"} =>
          /\ active = cmd.req
          /\ \A g \in runs : g.req = cmd.req /\ (cmd.op # "start" => g.mode = ModeOf(cmd))

(* The last accepted command is the last one queued, or the one that the   *)
(* worker executes, or it has been obeyed.                                 *)
LastInv ==
    ~ctxDone =>
       /\ queue # <<>> => last = queue[Len(queue)]
       /\ queue = <<>> /\ wpc \in Working => last = wcmd
       /\ queue = <<>> /\ wpc \notin Working => Obeyed(last)

(* A run that scans with a replaced resolver is about to be stopped: its   *)
(* restart is due, queued, or under way.                                   *)
StaleInv ==
    ~ctxDone /\ (\E g \in runs : g.phase = "scanning" /\ ~g.fresh) =>
       \/ \E c \in Callers : Refreshing(c)
       \/ \E i \in 1 .. Len(queue) : queue[i].op = "restart"
       \/ wpc \in {"stop", "await"}

LastWins == CommandInv /\ LastInv /\ StaleInv

(* What a step may do to the runs: leave none that is for something else,  *)
(* and none that scans with an older resolver than it did.                 *)
RunsFor == \A h \in runs' : \E g \in runs : h.req = g.req /\ h.mode = g.mode

StaleBefore ==
    \A h \in runs' : h.phase = "scanning" /\ ~h.fresh =>
        \E g \in runs : g.phase = "scanning" /\ ~g.fresh

LEMMA AppendIndex ==
    ASSUME NEW q \in Seq(Command), NEW cmd \in Command
    PROVE  /\ Append(q, cmd) # <<>> /\ Len(Append(q, cmd)) = Len(q) + 1
           /\ Len(q) \in Nat
           /\ Append(q, cmd)[Len(q) + 1] = cmd
           /\ \A i \in 1 .. Len(q) : Append(q, cmd)[i] = q[i]
OBVIOUS

LEMMA TailIndex ==
    ASSUME NEW q \in Seq(Command), q # <<>>
    PROVE  /\ Head(q) = q[1] /\ Len(q) \in Nat \ {0} /\ Len(Tail(q)) = Len(q) - 1
           /\ \A i \in 1 .. Len(q) - 1 : Tail(q)[i] = q[i + 1]
           /\ Tail(q) = <<>> => Len(q) = 1
<1>1. Head(q) = q[1] /\ Len(q) \in Nat \ {0} /\ Len(Tail(q)) = Len(q) - 1
  OBVIOUS
<1>2. \A i \in 1 .. Len(q) - 1 : Tail(q)[i] = q[i + 1]
  OBVIOUS
<1>3. ASSUME Tail(q) = <<>>
      PROVE  Len(q) = 1
  <2>1. Len(<<>>) = 0
    OBVIOUS
  <2>2. Len(q) - 1 = 0 /\ Len(q) \in Nat
    <3>1. Len(q) - 1 = Len(Tail(q))
      BY <1>1
    <3>2. Len(Tail(q)) = 0
      BY <1>3, <2>1, Zenon
    <3> QED
      BY <1>1, <3>1, <3>2, Zenon
  <2> QED
    BY <2>2
<1> QED
  BY <1>1, <1>2, <1>3

(* Queueing a command: it becomes the last one.                            *)
LEMMA EnqueueKeeps ==
    ASSUME NEW c \in Callers, NEW cmd \in Command, Sensible(cmd), TypeInv, LastWins,
           Enqueue(c, cmd), cpc[c] # "reloaded", cpc[c] = "enqueue" => cmd = ccmd[c]
    PROVE  LastWins'
<1>0. /\ queue \in Seq(Command)
      /\ cpc \in [Callers -> {"idle", "enqueue", "signal", "wait", "reload", "reloaded"}]
      /\ ccmd \in [Callers -> Command \cup {NoCommand}]
      /\ UNCHANGED <<closed, ctxDone, wcmd, active, runs>>
      /\ closed => ctxDone
      /\ CommandsSensible /\ Executing
  BY DEF TypeInv, TypeOK, Enqueue, LastWins, CommandInv, Executing
<1>1. CASE closed
  <2>1. UNCHANGED <<queue, wpc, last>> /\ Goto(c, "idle", NoCommand)
    BY <1>1 DEF Enqueue, Return
  <2>2. CommandInv'
    BY <1>0, <2>1 DEF CommandInv, CommandsSensible, Executing, Goto
  <2>3. ctxDone'
    BY <1>0, <1>1
  <2> QED
    BY <2>2, <2>3 DEF LastWins, LastInv, StaleInv
<1>2. CASE ~closed
  <2>1. /\ queue' = Append(queue, cmd) /\ last' = cmd
        /\ wpc' = IF wpc = "none" THEN "loop" ELSE wpc
        /\ cpc' = [cpc EXCEPT ![c] = "signal"] /\ ccmd' = [ccmd EXCEPT ![c] = cmd]
    BY <1>2 DEF Enqueue, Goto
  <2>2. /\ queue' # <<>> /\ Len(queue') = Len(queue) + 1 /\ Len(queue) \in Nat
        /\ queue'[Len(queue) + 1] = cmd
        /\ \A i \in 1 .. Len(queue) : queue'[i] = queue[i]
    BY <1>0, <2>1, AppendIndex
  <2>3. CommandsSensible'
    <3>1. \A i \in 1 .. Len(queue') : Sensible(queue'[i])
      BY <1>0, <2>2 DEF CommandsSensible
    <3>2. \A d \in Callers : cpc'[d] \in {"enqueue", "signal"} => Sensible(ccmd'[d])
      BY <1>0, <2>1 DEF CommandsSensible
    <3>3. wpc' \in Working => Sensible(wcmd')
      BY <1>0, <2>1 DEF CommandsSensible, Working
    <3> QED
      BY <3>1, <3>2, <3>3 DEF CommandsSensible, Sensible
  <2>4. Executing'
    BY <1>0, <2>1 DEF Executing
  <2>5. LastInv'
    BY <2>1, <2>2 DEF LastInv
  <2>6. StaleInv'
    <3> SUFFICES ASSUME ~ctxDone', \E g \in runs' : g.phase = "scanning" /\ ~g.fresh
                 PROVE  \/ \E d \in Callers : Refreshing(d)'
                        \/ \E i \in 1 .. Len(queue') : queue'[i].op = "restart"
                        \/ wpc' \in {"stop", "await"}
      BY DEF StaleInv
    <3>1. \/ \E d \in Callers : Refreshing(d)
          \/ \E i \in 1 .. Len(queue) : queue[i].op = "restart"
          \/ wpc \in {"stop", "await"}
      BY <1>0 DEF LastWins, StaleInv
    <3>2. CASE \E d \in Callers : Refreshing(d)
      <4>1. PICK d \in Callers : Refreshing(d)
        BY <3>2
      <4>2. CASE d = c
        <5>1. cmd.op = "restart"
          BY <4>1, <4>2 DEF Refreshing, Sensible
        <5> QED
          BY <2>2, <5>1
      <4>3. CASE d # c
        BY <1>0, <2>1, <4>1, <4>3 DEF Refreshing
      <4> QED
        BY <4>2, <4>3
    <3>3. CASE \E i \in 1 .. Len(queue) : queue[i].op = "restart"
      BY <2>2, <3>3
    <3>4. CASE wpc \in {"stop", "await"}
      BY <2>1, <3>4
    <3> QED
      BY <3>1, <3>2, <3>3, <3>4
  <2> QED
    BY <2>3, <2>4, <2>5, <2>6 DEF LastWins, CommandInv
<1> QED
  BY <1>1, <1>2

(* A caller that moves on without touching the queue.                      *)
LEMMA GotoKeeps ==
    ASSUME NEW c \in Callers, NEW pc, NEW cmd, TypeInv, LastWins, Goto(c, pc, cmd),
           pc \in {"enqueue", "signal"} => Sensible(cmd),
           UNCHANGED <<queue, closed, ctxDone, wpc, wcmd, active, last>>, RunsFor,
           \/ pc = "reloaded"
           \/ pc = "enqueue" /\ cmd.refresh /\ StaleBefore
           \/ ~Refreshing(c) /\ StaleBefore
           \/ \A g \in runs' : g.phase = "scanning" => g.fresh
    PROVE  LastWins'
<1>0. /\ cpc \in [Callers -> {"idle", "enqueue", "signal", "wait", "reload", "reloaded"}]
      /\ ccmd \in [Callers -> Command \cup {NoCommand}]
      /\ CommandsSensible /\ Executing
      /\ cpc' = [cpc EXCEPT ![c] = pc] /\ ccmd' = [ccmd EXCEPT ![c] = cmd]
  BY DEF TypeInv, TypeOK, Goto, LastWins, CommandInv
<1>1. CommandsSensible'
  <2>1. \A d \in Callers : cpc'[d] \in {"enqueue", "signal"} => Sensible(ccmd'[d])
    BY <1>0 DEF CommandsSensible
  <2> QED
    BY <1>0, <2>1 DEF CommandsSensible, Sensible
<1>2. Executing'
  BY <1>0 DEF Executing, RunsFor
<1>3. LastInv'
  <2>1. Obeyed(last) => Obeyed(last)'
    BY DEF Obeyed, RunsFor, ModeOf
  <2> QED
    BY <2>1 DEF LastWins, LastInv
<1>4. StaleInv'
  <2> SUFFICES ASSUME ~ctxDone', \E g \in runs' : g.phase = "scanning" /\ ~g.fresh
               PROVE  \/ \E d \in Callers : Refreshing(d)'
                      \/ \E i \in 1 .. Len(queue') : queue'[i].op = "restart"
                      \/ wpc' \in {"stop", "await"}
    BY DEF StaleInv
  <2>1. CASE pc = "reloaded" \/ (pc = "enqueue" /\ cmd.refresh)
    <3>1. Refreshing(c)'
      BY <1>0, <2>1 DEF Refreshing
    <3> QED
      BY <3>1
  <2>2. CASE ~Refreshing(c) /\ StaleBefore
    <3>1. \/ \E d \in Callers : Refreshing(d)
          \/ \E i \in 1 .. Len(queue) : queue[i].op = "restart"
          \/ wpc \in {"stop", "await"}
      BY <2>2 DEF LastWins, StaleInv, StaleBefore
    <3>2. \A d \in Callers : Refreshing(d) => Refreshing(d)'
      BY <1>0, <2>2 DEF Refreshing
    <3> QED
      BY <3>1, <3>2
  <2> QED
    BY <2>1, <2>2
<1> QED
  BY <1>1, <1>2, <1>3, <1>4 DEF LastWins, CommandInv

LEMMA SameRunsKept == ASSUME runs' = runs PROVE RunsFor /\ StaleBefore
BY DEF RunsFor, StaleBefore

(* Each kind of step keeps the last command the one that wins: of callers, *)
(* of the worker, and of the shutdown.                                     *)
LEMMA CallerKeeps ==
    ASSUME NEW c \in Callers, TypeInv, RunInv, LastWins, Caller(c)
    PROVE  LastWins'
<1>0. /\ active \in Requests \cup {NoRequest} /\ running \in BOOLEAN /\ runs \subseteq Run
      /\ cpc[c] \in {"enqueue", "signal"} => ccmd[c] \in Command /\ Sensible(ccmd[c])
  BY DEF TypeInv, TypeOK, HoldsCommand, LastWins, CommandInv, CommandsSensible
<1>1. ASSUME NEW r \in Requests, NEW op \in {"start", "rescan"}, cpc[c] = "idle",
             Enqueue(c, NewCommand(c, op, r, FALSE))
      PROVE  LastWins'
  <2>1. /\ NewCommand(c, op, r, FALSE) \in Command
        /\ Sensible(NewCommand(c, op, r, FALSE))
    BY NewCommandType, RequestAssumption DEF Sensible, NewCommand
  <2> QED
    BY <1>1, <2>1, EnqueueKeeps
<1>2. CASE Start(c) \/ Rescan(c)
  BY <1>1, <1>2 DEF Start, Rescan, BeginCall
<1>3. CASE SubmitPending(c)
  BY <1>0, <1>3, EnqueueKeeps DEF SubmitPending
<1>4. CASE StopIfRunning(c)
  <2>1. /\ Goto(c, "enqueue", NewCommand(c, "stop", NoRequest, FALSE)) /\ cpc[c] = "idle"
        /\ UNCHANGED <<queue, closed, ctxDone, wpc, wcmd, active, last, runs>>
    BY <1>4 DEF StopIfRunning, BeginCall
  <2>2. Sensible(NewCommand(c, "stop", NoRequest, FALSE)) /\ ~Refreshing(c)
    BY <2>1 DEF Sensible, Refreshing, NewCommand
  <2> QED
    BY <2>1, <2>2, GotoKeeps, SameRunsKept
<1>5. CASE RestartIfRunning(c)
  <2>1. PICK r \in Requests : Goto(c, "enqueue", NewCommand(c, "restart", r, FALSE))
    BY <1>5 DEF RestartIfRunning
  <2>2. /\ cpc[c] = "idle"
        /\ UNCHANGED <<queue, closed, ctxDone, wpc, wcmd, active, last, runs>>
    BY <1>5 DEF RestartIfRunning, BeginCall
  <2>3. Sensible(NewCommand(c, "restart", r, FALSE)) /\ ~Refreshing(c)
    BY <2>2, RequestAssumption DEF Sensible, Refreshing, NewCommand
  <2> QED
    BY <2>1, <2>2, <2>3, GotoKeeps, SameRunsKept
<1>6. CASE Signal(c) \/ StopReturns(c) \/ Refresh(c)
  <2>1. /\ \E pc \in {"wait", "idle", "reload"} : Goto(c, pc, NoCommand)
        /\ cpc[c] \in {"signal", "wait", "idle"}
        /\ UNCHANGED <<queue, closed, ctxDone, wpc, wcmd, active, last, runs>>
    BY <1>6 DEF Signal, StopReturns, Refresh, BeginCall, Return
  <2>2. ~Refreshing(c)
    BY <2>1 DEF Refreshing
  <2> QED
    BY <2>1, <2>2, GotoKeeps, SameRunsKept
<1>7. CASE Reload(c)
  <2>1. UNCHANGED <<queue, closed, ctxDone, wpc, wcmd, active, last>> /\ ~Refreshing(c)
    BY <1>7 DEF Reload, Refreshing
  <2>2. CASE Goto(c, "idle", NoCommand) /\ runs' = runs
    BY <2>1, <2>2, GotoKeeps, SameRunsKept
  <2>3. CASE Goto(c, "reloaded", NoCommand) /\ runs' = {[g EXCEPT !.fresh = FALSE] : g \in runs}
    <3>1. \A g \in runs : [g EXCEPT !.fresh = FALSE].req = g.req /\ [g EXCEPT !.fresh = FALSE].mode = g.mode
      BY <1>0 DEF Run
    <3>2. RunsFor
      BY <2>3, <3>1 DEF RunsFor
    <3> QED
      BY <2>1, <2>3, <3>2, GotoKeeps
  <2> QED
    BY <1>7, <2>2, <2>3 DEF Reload, Return
<1>8. CASE ReadActive(c)
  <2>1. UNCHANGED <<queue, closed, ctxDone, wpc, wcmd, active, last, runs>>
    BY <1>8 DEF ReadActive
  <2>2. CASE running /\ active # NoRequest
    <3>1. Goto(c, "enqueue", NewCommand(c, "restart", active, TRUE))
      BY <1>8, <2>2 DEF ReadActive
    <3>2. /\ Sensible(NewCommand(c, "restart", active, TRUE))
          /\ NewCommand(c, "restart", active, TRUE).refresh
      BY <2>2 DEF Sensible, NewCommand
    <3> QED
      BY <2>1, <3>1, <3>2, GotoKeeps, SameRunsKept
  <2>3. CASE ~(running /\ active # NoRequest)
    <3>1. Goto(c, "idle", NoCommand)
      BY <1>8, <2>3 DEF ReadActive, Return
    <3>2. runs' = {}
      BY <2>1, <2>3 DEF RunInv, OneRun, LastWins, CommandInv, Executing
    <3> QED
      BY <2>1, <3>1, <3>2, GotoKeeps, SameRunsKept
  <2> QED
    BY <2>2, <2>3
<1> QED
  BY <1>2, <1>3, <1>4, <1>5, <1>6, <1>7, <1>8 DEF Caller

(* What the worker and the runs do to the runs.                            *)
LEMMA CancelRunKeeps ==
    ASSUME TypeInv, CancelRun
    PROVE  RunsFor /\ StaleBefore
<1>1. runs' = {[g EXCEPT !.cancelled = g.cancelled \/ g.id = done] : g \in runs} /\ runs \subseteq Run
  BY DEF CancelRun, TypeInv, TypeOK
<1>2. ASSUME NEW g \in runs
      PROVE  LET h == [g EXCEPT !.cancelled = g.cancelled \/ g.id = done]
             IN  h.req = g.req /\ h.mode = g.mode /\ h.phase = g.phase /\ h.fresh = g.fresh
  BY <1>1 DEF Run
<1>3. ASSUME NEW h \in runs'
      PROVE  \E g \in runs : /\ h.req = g.req /\ h.mode = g.mode
                            /\ h.phase = g.phase /\ h.fresh = g.fresh
  <2>1. PICK g \in runs : h = [g EXCEPT !.cancelled = g.cancelled \/ g.id = done]
    BY <1>1
  <2> QED
    BY <1>2, <2>1
<1> QED
  BY <1>3 DEF RunsFor, StaleBefore

LEMMA RunStepKeeps ==
    ASSUME TypeInv, RunStep
    PROVE  RunsFor /\ StaleBefore
<1>1. PICK g \in runs : RunTakesResolver(g) \/ RunReturns(g) \/ RunEnds(g)
  BY DEF RunStep
<1>2. g \in Run
  BY DEF TypeInv, TypeOK
<1>3. CASE RunTakesResolver(g)
  <2>1. LET h == [g EXCEPT !.phase = "scanning", !.fresh = TRUE]
        IN  h.req = g.req /\ h.mode = g.mode /\ h.fresh
    BY <1>2 DEF Run
  <2> QED
    BY <1>3, <2>1 DEF RunTakesResolver, RunsFor, StaleBefore
<1>4. CASE RunReturns(g)
  <2>1. PICK b \in BOOLEAN : runs' = (runs \ {g}) \cup {[g EXCEPT !.phase = "returned", !.failed = b]}
    BY <1>4 DEF RunReturns
  <2>2. LET h == [g EXCEPT !.phase = "returned", !.failed = b]
        IN  h.req = g.req /\ h.mode = g.mode /\ h.phase = "returned"
    BY <1>2 DEF Run
  <2> QED
    BY <2>1, <2>2 DEF RunsFor, StaleBefore
<1>5. CASE RunEnds(g)
  BY <1>5 DEF RunEnds, RunsFor, StaleBefore
<1> QED
  BY <1>1, <1>3, <1>4, <1>5

(* A step of anyone that leaves callers, queue and worker alone.           *)
LEMMA RunsMove ==
    ASSUME LastWins, RunsFor, StaleBefore, closed' => ctxDone', ctxDone => ctxDone',
           UNCHANGED <<queue, wpc, wcmd, active, last, cpc, ccmd>>
    PROVE  LastWins'
<1>1. CommandsSensible'
  BY DEF LastWins, CommandInv, CommandsSensible, Sensible
<1>2. Executing'
  BY DEF LastWins, CommandInv, Executing, RunsFor
<1>3. LastInv'
  <2>1. Obeyed(last) => Obeyed(last)'
    BY DEF Obeyed, RunsFor, ModeOf
  <2> QED
    BY <2>1 DEF LastWins, LastInv
<1>4. StaleInv'
  BY DEF LastWins, StaleInv, StaleBefore, Refreshing
<1> QED
  BY <1>1, <1>2, <1>3, <1>4 DEF LastWins, CommandInv

(* The worker takes the next command: the last one stays the last.         *)
LEMMA TakeKeeps ==
    ASSUME TypeInv, LastWins, TakeCommand, queue # <<>>, queue' = Tail(queue),
           wpc' = Entry(Head(queue)), wcmd' = Head(queue)
    PROVE  LastWins'
<1>0. /\ queue \in Seq(Command) /\ wpc = "loop"
      /\ UNCHANGED <<closed, ctxDone, active, runs, last, cpc, ccmd>>
      /\ CommandsSensible /\ Executing
  BY DEF TypeInv, TypeOK, TakeCommand, LastWins, CommandInv
<1>1. /\ Head(queue) = queue[1] /\ Len(queue) \in Nat \ {0} /\ Len(queue') = Len(queue) - 1
      /\ \A i \in 1 .. Len(queue) - 1 : queue'[i] = queue[i + 1]
      /\ queue' = <<>> => Len(queue) = 1
  BY <1>0, TailIndex
<1>2. wcmd' = queue[1] /\ Sensible(queue[1]) /\ wpc' = Entry(queue[1])
  BY <1>0, <1>1 DEF CommandsSensible
<1>3. CommandsSensible'
  <2>1. \A i \in 1 .. Len(queue') : Sensible(queue'[i])
    BY <1>0, <1>1 DEF CommandsSensible
  <2>2. \A c \in Callers : cpc'[c] \in {"enqueue", "signal"} => Sensible(ccmd'[c])
    BY <1>0 DEF CommandsSensible
  <2> QED
    BY <1>2, <2>1, <2>2 DEF CommandsSensible, Sensible
<1>4. Executing'
  BY <1>0, <1>2 DEF Executing, Entry
<1>5. LastInv'
  <2>1. CASE ctxDone'
    BY <2>1 DEF LastInv
  <2>2. CASE ~ctxDone'
    <3>1. last' = queue[Len(queue)]
      BY <1>0, <2>2 DEF LastWins, LastInv
    <3>2. wpc' \in Working
      BY <1>2 DEF Entry, Working
    <3>3. CASE queue' = <<>>
      BY <1>1, <1>2, <3>1, <3>2, <3>3 DEF LastInv
    <3>4. CASE queue' # <<>>
      <4>1. Len(queue) # 1
        BY <1>1, <1>0, <3>4
      <4>2. queue'[Len(queue')] = queue[Len(queue)]
        BY <1>1, <4>1
      <4> QED
        BY <3>1, <3>4, <4>2 DEF LastInv
    <3> QED
      BY <3>3, <3>4
  <2> QED
    BY <2>1, <2>2
<1>6. StaleInv'
  <2> SUFFICES ASSUME ~ctxDone', \E g \in runs' : g.phase = "scanning" /\ ~g.fresh
               PROVE  \/ \E c \in Callers : Refreshing(c)'
                      \/ \E i \in 1 .. Len(queue') : queue'[i].op = "restart"
                      \/ wpc' \in {"stop", "await"}
    BY DEF StaleInv
  <2>1. \/ \E c \in Callers : Refreshing(c)
        \/ \E i \in 1 .. Len(queue) : queue[i].op = "restart"
    BY <1>0 DEF LastWins, StaleInv
  <2>2. CASE \E c \in Callers : Refreshing(c)
    BY <1>0, <2>2 DEF Refreshing
  <2>3. CASE \E i \in 1 .. Len(queue) : queue[i].op = "restart"
    <3>1. PICK i \in 1 .. Len(queue) : queue[i].op = "restart"
      BY <2>3
    <3>2. CASE i = 1
      BY <1>2, <3>1, <3>2 DEF Entry
    <3>3. CASE i # 1
      <4>1. i - 1 \in 1 .. Len(queue') /\ queue'[i - 1].op = "restart"
        BY <1>1, <3>1, <3>3
      <4> QED
        BY <4>1
    <3> QED
      BY <3>2, <3>3
  <2> QED
    BY <2>1, <2>2, <2>3
<1> QED
  BY <1>3, <1>4, <1>5, <1>6 DEF LastWins, CommandInv

(* The step ends with the command obeyed.                                  *)
ObeyedNext(cmd) ==
    /\ cmd.op \in {"none", "stop"} => runs' = {} /\ active' = NoRequest
    /\ cmd.op \in {"start", "rescan", "restart"} =>
          /\ active' = cmd.req
          /\ \A g \in runs' : g.req = cmd.req /\ (cmd.op # "start" => g.mode = ModeOf(cmd))

(* Any other step of the worker: the queue and the callers stay as they    *)
(* are, and the worker leaves its command when it has been obeyed.         *)
LEMMA WorkKeeps ==
    ASSUME TypeInv, LastWins, Executing', wpc' \in Working => wpc \in Working /\ wcmd' = wcmd,
           UNCHANGED <<queue, ctxDone, last, cpc, ccmd>>,
           ~ctxDone /\ wpc' \notin Working /\ wpc \in Working => ObeyedNext(wcmd),
           ~ctxDone /\ wpc \notin Working => active' = active /\ runs' = runs,
           ~ctxDone /\ wpc' \notin {"stop", "await"} =>
              IF wpc \in {"stop", "await"}
              THEN \A g \in runs' : g.phase = "scanning" => g.fresh
              ELSE StaleBefore
    PROVE  LastWins'
<1>1. CommandsSensible'
  <2>1. wpc' \in Working => Sensible(wcmd')
    BY DEF LastWins, CommandInv, CommandsSensible
  <2> QED
    BY <2>1 DEF LastWins, CommandInv, CommandsSensible, Sensible
<1>2. LastInv'
  <2> SUFFICES ASSUME ~ctxDone
               PROVE  /\ queue' # <<>> => last' = queue'[Len(queue')]
                      /\ queue' = <<>> /\ wpc' \in Working => last' = wcmd'
                      /\ queue' = <<>> /\ wpc' \notin Working => Obeyed(last)'
    BY DEF LastInv
  <2>1. queue = <<>> /\ wpc \in Working => last = wcmd
    BY DEF LastWins, LastInv
  <2>2. queue = <<>> /\ wpc' \notin Working => Obeyed(last)'
    <3>1. CASE wpc \in Working
      BY <2>1, <3>1 DEF Obeyed, ObeyedNext, ModeOf
    <3>2. CASE wpc \notin Working
      BY <3>2 DEF LastWins, LastInv, Obeyed, ModeOf
    <3> QED
      BY <3>1, <3>2
  <2> QED
    BY <2>1, <2>2 DEF LastWins, LastInv
<1>3. StaleInv'
  BY DEF LastWins, StaleInv, StaleBefore, Refreshing
<1> QED
  BY <1>1, <1>2, <1>3 DEF LastWins, CommandInv

LEMMA WorkerKeeps ==
    ASSUME TypeInv, RunInv, LastWins, Worker
    PROVE  LastWins'
<1>0. /\ Executing /\ CommandsSensible /\ WorkerView /\ OneRun
      /\ wpc \in Working => wcmd \in Command /\ Sensible(wcmd)
      /\ runs \subseteq Run
  BY DEF LastWins, CommandInv, CommandsSensible, RunInv, TypeInv, TypeOK, HoldsCommand, Working
<1>1. CASE TakeCommand
  <2>1. CASE queue # <<>>
    BY <1>1, <2>1, TakeKeeps DEF TakeCommand
  <2>2. CASE queue = <<>>
    <3>1. /\ UNCHANGED <<queue, ctxDone, closed, last, cpc, ccmd, active, runs>>
          /\ wpc = "loop" /\ wpc' \in {"exited", "wait"}
      BY <1>1, <2>2 DEF TakeCommand, Work
    <3>2. Executing'
      BY <1>0, <3>1 DEF Executing
    <3> QED
      BY <3>1, <3>2, WorkKeeps, SameRunsKept DEF Working
  <2> QED
    BY <2>1, <2>2
<1>2. CASE WakeUp
  <2>1. /\ UNCHANGED <<queue, ctxDone, closed, last, cpc, ccmd, active, runs>>
        /\ wpc = "wait" /\ wpc' = "loop"
    BY <1>2 DEF WakeUp, Work
  <2>2. Executing'
    BY <1>0, <2>1 DEF Executing
  <2> QED
    BY <2>1, <2>2, WorkKeeps, SameRunsKept DEF Working
<1>3. CASE Decide
  <2>1. /\ UNCHANGED <<queue, ctxDone, closed, last, cpc, ccmd, active, runs>>
        /\ wpc = "decide" /\ wpc' \in {"loop", "stop", "check"}
        /\ wpc' # "loop" => wcmd' = wcmd
        /\ wpc' = "loop" => active = wcmd.req
        /\ wcmd.op = "start"
    BY <1>0, <1>3 DEF Decide, Work, SameRun, Executing
  <2>2. Executing'
    BY <1>0, <2>1 DEF Executing
  <2>3. wpc' = "loop" => ObeyedNext(wcmd)
    BY <1>0, <2>1 DEF ObeyedNext, Executing
  <2> QED
    BY <2>1, <2>2, <2>3, WorkKeeps, SameRunsKept DEF Working
<1>4. CASE StopCurrent
  <2>1. /\ UNCHANGED <<queue, ctxDone, closed, last, cpc, ccmd, active>>
        /\ wpc = "stop" /\ wpc' \in {"await", AfterStop(wcmd)} /\ wcmd' = wcmd
        /\ wpc' # "await" => runs' = {}
    BY <1>0, <1>4 DEF StopCurrent, Work, AfterStop, OneRun
  <2>2. RunsFor
    BY <1>4, CancelRunKeeps, SameRunsKept DEF StopCurrent
  <2>3. Executing'
    BY <1>0, <2>1, <2>2 DEF Executing, AfterStop, RunsFor
  <2> QED
    BY <2>1, <2>3, WorkKeeps DEF Working, AfterStop
<1>5. CASE AwaitRun
  <2>1. /\ UNCHANGED <<queue, ctxDone, closed, last, cpc, ccmd, active, runs>>
        /\ wpc = "await"
        /\ \/ wpc' = AfterStop(wcmd) /\ wcmd' = wcmd /\ runs' = {}
           \/ wpc' = "loop" /\ ctxDone
    BY <1>0, <1>5 DEF AwaitRun, Work, AfterStop, Ended, OneRun, WorkerView
  <2>2. Executing'
    BY <1>0, <2>1 DEF Executing, AfterStop
  <2> QED
    BY <2>1, <2>2, WorkKeeps DEF Working, AfterStop
<1>6. CASE ClearActive
  <2>1. /\ UNCHANGED <<queue, ctxDone, closed, last, cpc, ccmd, runs>>
        /\ wpc = "clear" /\ wpc' = "loop" /\ active' = NoRequest /\ runs' = {}
        /\ wcmd.op = "stop"
    BY <1>0, <1>6 DEF ClearActive, Work, WorkerView, Executing
  <2>2. Executing'
    BY <1>0, <2>1 DEF Executing
  <2>3. ObeyedNext(wcmd)
    BY <2>1 DEF ObeyedNext
  <2> QED
    BY <2>1, <2>2, <2>3, WorkKeeps, SameRunsKept DEF Working
<1>7. CASE CheckContext \/ PersistActiveReader
  <2>1. /\ UNCHANGED <<queue, ctxDone, closed, last, cpc, ccmd, active, runs>>
        /\ wpc \in {"check", "persist"}
        /\ \/ wpc' \in {"launch", "persist"} /\ wcmd' = wcmd
           \/ wpc' = "loop" /\ ctxDone
    BY <1>7 DEF CheckContext, PersistActiveReader, Work
  <2>2. Executing'
    BY <1>0, <2>1 DEF Executing
  <2> QED
    BY <2>1, <2>2, WorkKeeps, SameRunsKept DEF Working
<1>8. CASE Launch
  <2> DEFINE new == [id |-> launched + 1, req |-> wcmd.req,
                     mode |-> ModeOf(wcmd), phase |-> "launched",
                     cancelled |-> FALSE, fresh |-> FALSE, failed |-> FALSE]
  <2>1. /\ UNCHANGED <<queue, ctxDone, closed, last, cpc, ccmd>>
        /\ wpc = "launch" /\ wpc' = "loop" /\ active' = wcmd.req /\ runs' = {new}
    BY <1>0, <1>8 DEF Launch, Work, WorkerView
  <2>2. /\ new.req = wcmd.req /\ new.mode = ModeOf(wcmd) /\ new.phase = "launched"
        /\ wcmd.op \in {"start", "rescan", "restart"} /\ wcmd.req # NoRequest
    BY <1>0, <2>1 DEF Command, Sensible, Executing, Working
  <2> HIDE DEF new
  <2>3. Executing'
    BY <1>0, <2>1, <2>2 DEF Executing
  <2>4. ObeyedNext(wcmd)
    BY <2>1, <2>2 DEF ObeyedNext
  <2>5. StaleBefore
    BY <2>1, <2>2 DEF StaleBefore
  <2> QED
    BY <2>1, <2>3, <2>4, <2>5, WorkKeeps DEF Working
<1> QED
  BY <1>1, <1>2, <1>3, <1>4, <1>5, <1>6, <1>7, <1>8 DEF Worker

LEMMA ShutdownKeeps ==
    ASSUME TypeInv, RunInv, LastWins, ProcessSignal \/ BeginClose \/ CloseStep \/ CloseTimesOut
    PROVE  LastWins'
<1>0. CloseView /\ Executing /\ CommandsSensible
  BY DEF RunInv, LastWins, CommandInv
<1>1. CASE ProcessSignal
  BY <1>0, <1>1, RunsMove, SameRunsKept DEF ProcessSignal
<1>2. CASE BeginClose
  <2>1. CommandsSensible'
    <3>1. queue' = <<>> /\ UNCHANGED <<wpc, wcmd, cpc, ccmd>> /\ Len(queue') = 0
      BY <1>2 DEF BeginClose
    <3> QED
      BY <1>0, <3>1 DEF CommandsSensible, Sensible
  <2>2. Executing' /\ ctxDone'
    BY <1>0, <1>2 DEF BeginClose, Executing
  <2> QED
    BY <2>1, <2>2 DEF LastWins, CommandInv, LastInv, StaleInv
<1>3. CASE CloseStep
  <2>1. RunsFor /\ StaleBefore
    BY <1>3, CancelRunKeeps, SameRunsKept DEF CloseStep, CloseSeesWorkerDone, CloseStopsRun,
       CloseSeesRunDone
  <2> QED
    BY <1>0, <1>3, <2>1, RunsMove DEF CloseStep, Executing
<1>4. CASE CloseTimesOut
  BY <1>0, <1>4, RunsMove, SameRunsKept DEF CloseTimesOut, Executing
<1> QED
  BY <1>1, <1>2, <1>3, <1>4

LEMMA LastWinsInit == Init => LastWins
<1> SUFFICES ASSUME Init PROVE LastWins
  OBVIOUS
<1>1. CommandsSensible
  <2>1. queue = <<>> /\ Len(queue) = 0
    BY DEF Init
  <2> QED
    BY <2>1 DEF Init, CommandsSensible, Working
<1>2. Executing
  BY DEF Init, Executing
<1>3. LastInv
  BY DEF Init, LastInv, Obeyed, NoCommand, Working
<1>4. StaleInv
  BY DEF Init, StaleInv
<1> QED
  BY <1>1, <1>2, <1>3, <1>4 DEF LastWins, CommandInv

LEMMA LastWinsNext == TypeInv /\ RunInv /\ LastWins /\ [Next]_vars => LastWins'
<1>1. ASSUME TypeInv, LastWins, RunStep
      PROVE  LastWins'
  <2>1. RunsFor /\ StaleBefore
    BY <1>1, RunStepKeeps
  <2>2. UNCHANGED <<queue, closed, ctxDone, wpc, wcmd, active, last, cpc, ccmd>>
    BY <1>1 DEF RunStep, otherVars, RunTakesResolver, RunReturns, RunEnds
  <2> QED
    BY <1>1, <2>1, <2>2, RunsMove DEF LastWins, CommandInv, Executing
<1>2. ASSUME LastWins, UNCHANGED vars
      PROVE  LastWins'
  BY <1>2, RunsMove, SameRunsKept DEF vars, LastWins, CommandInv, Executing
<1> QED
  BY <1>1, <1>2, CallerKeeps, WorkerKeeps, ShutdownKeeps DEF Next

LEMMA LastWinsInvariance == Spec => [](TypeInv /\ RunInv /\ LastWins)
BY Invariance, LastWinsInit, LastWinsNext, PTL DEF Spec

(* Whatever order callers, worker and runs were scheduled in, a settled    *)
(* daemon is what the last command accepted by enqueue asked for.          *)
THEOREM LastCommandIsObeyed == Spec => []LastCommandWins
<1>1. LastWins => LastCommandWins
  BY DEF LastWins, LastInv, LastCommandWins, Settled, Obeyed, Working
<1> QED
  BY <1>1, LastWinsInvariance, PTL

(* When RefreshResolver has returned and the daemon has settled, no run    *)
(* scans with the snapshot of the resolver that was replaced.              *)
THEOREM ResolverIsApplied == Spec => []ResolverApplied
<1>1. TypeInv /\ LastWins => ResolverApplied
  <2> SUFFICES ASSUME TypeInv, LastWins, Settled, \A c \in Callers : ~Refreshing(c)
               PROVE  \A g \in runs : g.phase = "scanning" => g.fresh
    BY DEF ResolverApplied
  <2>1. queue = <<>> /\ Len(queue) = 0 /\ wpc \notin {"stop", "await"} /\ ~ctxDone
    BY DEF Settled
  <2> QED
    BY <2>1 DEF LastWins, StaleInv
<1> QED
  BY <1>1, LastWinsInvariance, PTL
=============================================================================
