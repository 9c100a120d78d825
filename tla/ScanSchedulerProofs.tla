------------------------- MODULE ScanSchedulerProofs -------------------------
(***************************************************************************)
(* Theorems about the scheduler, for any finite set of tenants, any        *)
(* readers and limits, and any number of requests, failures and crashes.   *)
(***************************************************************************)
EXTENDS ScanScheduler, FiniteSetTheorems, TLAPS

(* A run about to write its result has one, and one that will count one    *)
(* more temporary failure is below the bound.                              *)
HasResult(g) ==
    /\ g.at = "write" => g.result # "none"
    /\ g.result = "temporary" => g.retry < MaxRetries
ResultsKnown == \A g \in runs : HasResult(g)

(* Until the loop drains, s.running knows the tenant of every run.         *)
Tracked == pc \notin {"draining", "exited"} => \A g \in runs : g.tenant \in running

(* The rest of a round fits under the limit it has read.                   *)
CapacityFits == pc = "each" => capacity + Cardinality(running) <= limitRead

TypeInv == TypeOK /\ ResultsKnown
(* Start returns only when no run can touch the store any more.            *)
Drained == pc = "exited" => runs = {}

(* A round considers each tenant once.                                     *)
ListedOnce == \A i, j \in DOMAIN list : list[i].tenant = list[j].tenant => i = j

RunInv == OneRunPerTenant /\ Tracked /\ Drained

RowType ==
    /\ row \in [Tenants -> Row \cup {NoRow}]
    /\ older \subseteq Tenants \X Tenants

USE DEF rowVars, userVars, loopVars, runVars, procVars

-----------------------------------------------------------------------------
(* The store keeps the types of the rows.                                  *)

LEMMA RowFields ==
    ASSUME NEW t \in Tenants, RowType, Exists(t)
    PROVE  row[t] \in Row
BY DEF RowType, Exists

LEMMA WriteType ==
    ASSUME NEW t \in Tenants, NEW r \in Row, RowType, Write(t, r)
    PROVE  RowType'
<1>1. row' \in [Tenants -> Row \cup {NoRow}]
  BY DEF Write, RowType
<1>2. older' \subseteq Tenants \X Tenants
  BY DEF Write, RowType, Touched
<1> QED
  BY <1>1, <1>2 DEF RowType

LEMMA QueuedRowType ==
    ASSUME NEW r \in Readers \cup {NoReader}
    PROVE  QueuedRow(r) \in Row
BY BoundAssumption DEF QueuedRow, Row, Parked

LEMMA ClearType ==
    ASSUME NEW t \in Tenants, RowType, ClearActiveReader(t)
    PROVE  RowType'
<1> DEFINE q == QueuedRow(NoReader)
<1>1. q \in Row
  BY QueuedRowType
<1>2. Write(t, [q EXCEPT !.enabled = FALSE])
  BY DEF ClearActiveReader
<1> HIDE DEF q
<1>3. [q EXCEPT !.enabled = FALSE] \in Row
  BY <1>1 DEF Row
<1> QED
  BY <1>2, <1>3, WriteType

LEMMA EnabledType ==
    ASSUME NEW t \in Tenants, NEW b \in BOOLEAN, RowType, SetEnabled(t, b)
    PROVE  RowType'
<1>1. CASE Exists(t)
  <2> DEFINE r == [row[t] EXCEPT
                     !.enabled = b, !.waiting = FALSE,
                     !.state = IF ~b THEN "paused"
                               ELSE IF row[t].reader = NoReader THEN "stopped" ELSE "queued"]
  <2>1. r \in Row
    BY <1>1, RowFields DEF Row, Parked
  <2>2. Write(t, r)
    BY <1>1 DEF SetEnabled
  <2> HIDE DEF r
  <2> QED
    BY <2>1, <2>2, WriteType
<1>2. CASE ~Exists(t)
  BY <1>2 DEF SetEnabled, RowType
<1> QED
  BY <1>1, <1>2

States == Parked \cup {"queued", "starting", "running", "backing_off", "stopped"}

LEMMA UpdateType ==
    ASSUME NEW t \in Tenants, NEW state \in States, NEW waiting \in BOOLEAN,
           NEW retry \in 0 .. MaxRetries, RowType, UpdateState(t, state, waiting, retry)
    PROVE  RowType'
<1>1. CASE Exists(t)
  <2> DEFINE r == [row[t] EXCEPT !.state = state, !.waiting = waiting, !.retry = retry]
  <2>1. r \in Row
    BY <1>1, RowFields DEF Row, States
  <2>2. Write(t, r)
    BY <1>1 DEF UpdateState
  <2> HIDE DEF r
  <2> QED
    BY <2>1, <2>2, WriteType
<1>2. CASE ~Exists(t)
  BY <1>2 DEF UpdateState, RowType
<1> QED
  BY <1>1, <1>2

LEMMA RetryType ==
    ASSUME NEW t \in Tenants, RowType
    PROVE  Retry(t) \in 0 .. MaxRetries
BY BoundAssumption, RowFields DEF Retry, Row

(* A list holds a snapshot of each runnable row.                           *)
LEMMA ListType ==
    ASSUME RowType, NEW l \in RunnableLists
    PROVE  l \in Seq(Snapshot)
<1> DEFINE R == {t \in Tenants : Runnable(t)}
<1>1. Cardinality(R) \in Nat
  BY TenantAssumption, FS_Subset, FS_CardinalityType
<1>2. PICK s \in [1 .. Cardinality(R) -> R] :
         l = [i \in DOMAIN s |-> [tenant |-> s[i], reader |-> row[s[i]].reader,
                                  retry |-> row[s[i]].retry]]
  BY DEF RunnableLists
<1>3. ASSUME NEW t \in R
      PROVE  [tenant |-> t, reader |-> row[t].reader, retry |-> row[t].retry] \in Snapshot
  BY RowFields DEF Runnable, Row, Snapshot
<1> DEFINE n == Cardinality(R)
<1> HIDE DEF R, n
<1>4. \A i \in 1 .. n : s[i] \in R
  BY <1>2 DEF n
<1>5. \A i \in 1 .. n : [tenant |-> s[i], reader |-> row[s[i]].reader, retry |-> row[s[i]].retry]
                          \in Snapshot
  BY <1>3, <1>4
<1>6. DOMAIN s = 1 .. n
  BY <1>2 DEF n
<1>7. l \in [1 .. n -> Snapshot]
  BY <1>2, <1>5, <1>6
<1> QED
  BY <1>1, <1>7 DEF n

-----------------------------------------------------------------------------
(* Types, one lemma for each kind of step.                                 *)

LEMMA InitType == Init => TypeInv
<1> SUFFICES ASSUME Init PROVE TypeInv
  OBVIOUS
<1>1. row \in [Tenants -> Row \cup {NoRow}]
  BY QueuedRowType DEF Init
<1>2. list \in Seq(Snapshot) /\ runs \subseteq Run /\ handlers \subseteq Call /\ running \subseteq Tenants
  BY DEF Init
<1>3. /\ older = {} /\ limit \in Limits /\ ready \in [Tenants -> SUBSET Readers]
      /\ requests = 0 /\ faults = 0 /\ crashes = 0 /\ ctxDone = FALSE
      /\ limitRead = 0 /\ capacity = 0 /\ pc = "poll"
  BY DEF Init
<1>4. ResultsKnown
  BY DEF Init, ResultsKnown
<1>5. /\ older \subseteq Tenants \X Tenants /\ ctxDone \in BOOLEAN
      /\ pc \in {"poll", "config", "list", "capacity", "each", "draining", "exited"}
  BY <1>3
<1>6. /\ requests \in Nat /\ faults \in Nat /\ crashes \in Nat
      /\ limitRead \in Limits \cup {0} /\ capacity \in Int
  BY <1>3
<1>7. TypeOK
  BY <1>1, <1>2, <1>3, <1>5, <1>6 DEF TypeOK
<1> QED
  BY <1>4, <1>7 DEF TypeInv

(* Of a handler's state only rows, limit, readiness and calls change.      *)
LEMMA HandlerType ==
    ASSUME TypeInv, RowType', limit' \in Limits, ready' \in [Tenants -> SUBSET Readers],
           requests' \in Nat, handlers' \subseteq Call, faults' \in Nat,
           UNCHANGED <<loopVars, runVars, procVars>>
    PROVE  TypeInv'
BY DEF TypeInv, TypeOK, RowType, ResultsKnown

LEMMA RequestType ==
    ASSUME TypeInv, Request
    PROVE  TypeInv'
<1>0. /\ RowType /\ limit \in Limits /\ ready \in [Tenants -> SUBSET Readers]
      /\ requests \in Nat /\ handlers \subseteq Call /\ faults \in Nat
  BY DEF TypeInv, TypeOK, RowType
<1>1. CASE PatchSettings
  <2>1. PICK t \in Tenants : \/ \E r \in Readers : SetActiveReader(t, r)
                             \/ ClearActiveReader(t)
                             \/ \E b \in BOOLEAN : SetEnabled(t, b)
    BY <1>1 DEF PatchSettings
  <2>2. RowType'
    <3>1. CASE \E r \in Readers : SetActiveReader(t, r)
      BY <1>0, <3>1, QueuedRowType, WriteType DEF SetActiveReader
    <3> QED
      BY <1>0, <2>1, <3>1, ClearType, EnabledType
  <2> QED
    BY <1>0, <1>1, <2>2, HandlerType DEF PatchSettings, BeginRequest
<1>2. CASE PatchLimit
  BY <1>0, <1>2, HandlerType DEF PatchLimit, BeginRequest, RowType
<1>3. CASE ReaderBreaks
  BY <1>0, <1>3, HandlerType DEF ReaderBreaks, BeginRequest, RowType
<1>4. ASSUME NEW t \in Tenants, NEW r \in Readers,
             ConnectReader(t, r) \/ RevokeToken(t, r) \/ DisconnectReader(t, r)
      PROVE  TypeInv'
  <2>1. PICK op \in {"queue", "check", "clear"} : Begin(op, t, r)
    BY <1>4 DEF ConnectReader, RevokeToken, DisconnectReader
  <2>2. ready' \in [Tenants -> SUBSET Readers]
    BY <1>0, <1>4 DEF ConnectReader, RevokeToken, DisconnectReader
  <2>3. handlers' \subseteq Call
    BY <1>0, <2>1 DEF Begin, Call
  <2> QED
    BY <1>0, <2>1, <2>2, <2>3, HandlerType DEF Begin, BeginRequest, RowType
<1> QED
  BY <1>1, <1>2, <1>3, <1>4 DEF Request

LEMMA FinishType ==
    ASSUME TypeInv, NEW h \in handlers, FinishRequest(h)
    PROVE  TypeInv'
<1>0. /\ RowType /\ limit \in Limits /\ ready \in [Tenants -> SUBSET Readers]
      /\ requests \in Nat /\ handlers \subseteq Call /\ faults \in Nat
      /\ h.tenant \in Tenants /\ h.reader \in Readers
  BY DEF TypeInv, TypeOK, RowType, Call
<1>1. RowType'
  <2>1. CASE SetActiveReader(h.tenant, h.reader)
    BY <1>0, <2>1, QueuedRowType, WriteType DEF SetActiveReader
  <2>2. CASE ClearActiveReader(h.tenant)
    BY <1>0, <2>2, ClearType
  <2>3. CASE UpdateState(h.tenant, "needs_auth", FALSE, 0)
    <3>1. "needs_auth" \in States
      BY DEF States, Parked
    <3>2. 0 \in 0 .. MaxRetries
      BY BoundAssumption
    <3> QED
      BY <1>0, <2>3, <3>1, <3>2, UpdateType
  <2>4. CASE UNCHANGED rowVars
    BY <1>0, <2>4 DEF RowType
  <2> QED
    BY <2>1, <2>2, <2>3, <2>4 DEF FinishRequest
<1>2. [h EXCEPT !.op = "block"] \in Call
  BY <1>0 DEF Call
<1>3. handlers' \subseteq handlers \cup {[h EXCEPT !.op = "block"]}
  BY DEF FinishRequest
<1>4. faults' \in Nat
  <2>1. UNCHANGED faults \/ StoreFails
    BY DEF FinishRequest
  <2> QED
    BY <1>0, <2>1 DEF StoreFails
<1> QED
  BY <1>0, <1>1, <1>2, <1>3, <1>4, HandlerType DEF FinishRequest

(* The loop changes rows, its own variables and the runs.                  *)
LEMMA LoopVarsType ==
    ASSUME TypeInv, RowType',
           pc' \in {"poll", "config", "list", "capacity", "each", "draining", "exited"},
           limitRead' \in Limits \cup {0}, capacity' \in Int, list' \in Seq(Snapshot),
           running' \subseteq Tenants, runs' \subseteq Run,
           \A g \in runs' \ runs : HasResult(g),
           faults' \in Nat,
           UNCHANGED <<userVars, procVars>>
    PROVE  TypeInv'
<1>1. TypeOK'
  BY DEF TypeInv, TypeOK, RowType
<1>2. ResultsKnown'
  BY DEF TypeInv, ResultsKnown
<1> QED
  BY <1>1, <1>2 DEF TypeInv

LEMMA FaultsType ==
    ASSUME TypeInv, CallWorks \/ CallFails \/ StoreFails \/ UNCHANGED faults
    PROVE  faults' \in Nat
BY DEF TypeInv, TypeOK, CallWorks, CallFails, StoreFails

LEMMA EndRoundType ==
    ASSUME EndRound
    PROVE  /\ pc' = "poll" /\ limitRead' \in Limits \cup {0} /\ capacity' \in Int
           /\ list' \in Seq(Snapshot)
BY DEF EndRound

LEMMA StartTenantType ==
    ASSUME TypeInv, StartTenant
    PROVE  TypeInv'
<1>0. /\ RowType /\ list \in Seq(Snapshot) /\ list # <<>>
      /\ running \subseteq Tenants /\ runs \subseteq Run /\ capacity \in Int
      /\ pc = "each" /\ limitRead \in Limits \cup {0}
  BY DEF TypeInv, TypeOK, RowType, StartTenant
<1> DEFINE s == Head(list)
           g == [tenant |-> s.tenant, reader |-> s.reader, retry |-> s.retry,
                 at |-> "mark", result |-> "none"]
<1>1. s \in Snapshot /\ Tail(list) \in Seq(Snapshot)
  BY <1>0
<1> HIDE DEF s
<1>2. g \in Run /\ s.tenant \in Tenants /\ HasResult(g)
  BY <1>1 DEF Snapshot, Run, HasResult
<1>3. faults' \in Nat
  BY FaultsType DEF StartTenant
<1>4. UNCHANGED <<userVars, procVars>>
  BY DEF StartTenant
<1>5. CASE /\ UpdateState(s.tenant, "starting", FALSE, Retry(s.tenant))
           /\ running' = running \cup {s.tenant} /\ runs' = runs \cup {g}
           /\ list' = Tail(list) /\ capacity' = capacity - 1 /\ UNCHANGED <<pc, limitRead>>
  <2>1. "starting" \in States
    BY DEF States
  <2>2. RowType'
    BY <1>0, <1>2, <1>5, <2>1, RetryType, UpdateType
  <2> HIDE DEF g
  <2>3. \A h \in runs' \ runs : HasResult(h)
    BY <1>2, <1>5
  <2> QED
    BY <1>0, <1>1, <1>2, <1>3, <1>4, <1>5, <2>2, <2>3, LoopVarsType
<1>6. CASE EndRound /\ UNCHANGED <<rowVars, runVars>>
  <2>1. RowType' /\ (\A h \in runs' \ runs : HasResult(h))
    BY <1>0, <1>6 DEF RowType
  <2> QED
    BY <1>0, <1>3, <1>4, <1>6, <2>1, EndRoundType, LoopVarsType
<1> QED
  BY <1>5, <1>6 DEF StartTenant, s, g

LEMMA LoopType ==
    ASSUME TypeInv, Loop
    PROVE  TypeInv'
<1>0. /\ RowType /\ list \in Seq(Snapshot) /\ limit \in Limits
      /\ running \subseteq Tenants /\ runs \subseteq Run /\ capacity \in Int
      /\ limitRead \in Limits \cup {0} /\ limitRead \in Int
      /\ pc \in {"poll", "config", "list", "capacity", "each", "draining", "exited"}
  BY LimitAssumption DEF TypeInv, TypeOK, RowType
<1>1. CASE Poll
  <2>1. RowType'
    <3>1. QueuedRow(NoReader) \in Row
      BY QueuedRowType
    <3>2. CASE UNCHANGED rowVars
      BY <1>0, <3>2 DEF RowType
    <3>3. CASE /\ row' = [t \in Tenants |-> IF Exists(t) THEN row[t] ELSE QueuedRow(NoReader)]
               /\ older' = older \cup {t \in Tenants : Exists(t)} \X {t \in Tenants : ~Exists(t)}
      BY <1>0, <3>1, <3>3 DEF RowType
    <3> QED
      BY <1>1, <3>2, <3>3 DEF Poll
  <2>2. faults' \in Nat
    BY <1>1, FaultsType DEF Poll
  <2>3. /\ pc' \in {"poll", "config"}
        /\ UNCHANGED <<userVars, limitRead, capacity, list, runVars, procVars>>
    BY <1>0, <1>1 DEF Poll
  <2> QED
    BY <1>0, <2>1, <2>2, <2>3, LoopVarsType
<1>2. CASE ReadConfig \/ ListRunnable
  <2>1. faults' \in Nat
    BY <1>2, FaultsType DEF ReadConfig, ListRunnable
  <2>2. RowType' /\ UNCHANGED <<rowVars, userVars, runVars, procVars>>
    BY <1>0, <1>2 DEF ReadConfig, ListRunnable, RowType
  <2>3. /\ pc' \in {"list", "capacity", "poll"} /\ limitRead' \in Limits \cup {0}
        /\ capacity' \in Int /\ list' \in Seq(Snapshot)
    BY <1>0, <1>2, EndRoundType, ListType DEF ReadConfig, ListRunnable
  <2> QED
    BY <1>0, <2>1, <2>2, <2>3, LoopVarsType
<1>3. CASE ComputeCapacity
  <2>1. capacity' \in Int
    <3>1. Cardinality(running) \in Nat
      BY <1>0, TenantAssumption, FS_Subset, FS_CardinalityType
    <3> QED
      BY <1>0, <1>3, <3>1 DEF ComputeCapacity, AvailableCapacity
  <2> QED
    BY <1>0, <1>3, <2>1, LoopVarsType, FaultsType DEF ComputeCapacity, RowType
<1>4. CASE FinishRound
  BY <1>0, <1>4, EndRoundType, LoopVarsType, FaultsType DEF FinishRound, RowType
<1>5. CASE SkipTenant
  <2>1. list' \in Seq(Snapshot)
    BY <1>0, <1>5 DEF SkipTenant
  <2> QED
    BY <1>0, <1>5, <2>1, LoopVarsType, FaultsType DEF SkipTenant, RowType
<1>6. CASE StopRuns
  BY <1>0, <1>6, LoopVarsType, FaultsType DEF StopRuns, RowType
<1>7. CASE Exit
  BY <1>0, <1>7, LoopVarsType, FaultsType DEF Exit, RowType
<1> QED
  BY <1>1, <1>2, <1>3, <1>4, <1>5, <1>6, <1>7, StartTenantType DEF Loop

(* A run changes its row, its place and s.running.                         *)
LEMMA RunVarsType ==
    ASSUME TypeInv, RowType', running' \subseteq running, runs' \subseteq Run,
           \A g \in runs' \ runs : HasResult(g),
           faults' \in Nat,
           UNCHANGED <<userVars, loopVars, procVars>>
    PROVE  TypeInv'
<1>1. TypeOK'
  BY DEF TypeInv, TypeOK, RowType
<1>2. ResultsKnown'
  BY DEF TypeInv, ResultsKnown
<1> QED
  BY <1>1, <1>2 DEF TypeInv

LEMMA MoveType ==
    ASSUME NEW g \in Run, NEW at \in {"mark", "scan", "write", "clear"},
           NEW result \in {"none", "done", "temporary", "needs_auth", "reader_not_configured"},
           runs \subseteq Run, Move(g, at, result)
    PROVE  /\ runs' \subseteq Run
           /\ \A h \in runs' \ runs : /\ h.tenant = g.tenant /\ h.retry = g.retry
                                      /\ h.at = at /\ h.result = result
<1> DEFINE h == [g EXCEPT !.at = at, !.result = result]
<1>1. h \in Run /\ h.tenant = g.tenant /\ h.retry = g.retry
      /\ h.at = at /\ h.result = result
  BY DEF Run
<1>2. runs' = (runs \ {g}) \cup {h}
  BY DEF Move
<1> HIDE DEF h
<1> QED
  BY <1>1, <1>2

LEMMA RunType ==
    ASSUME TypeInv, NEW g \in runs, RunStep(g)
    PROVE  TypeInv'
<1>0. /\ RowType /\ runs \subseteq Run /\ g \in Run /\ running \subseteq Tenants
      /\ g.tenant \in Tenants /\ g.retry \in 0 .. MaxRetries /\ MaxRetries \in Nat
      /\ 0 \in 0 .. MaxRetries
      /\ g.result \in {"none", "done", "temporary", "needs_auth", "reader_not_configured"}
      /\ HasResult(g)
  BY BoundAssumption DEF TypeInv, TypeOK, RowType, Run, ResultsKnown
<1>1. UNCHANGED <<userVars, loopVars, procVars>>
  BY DEF RunStep
<1>2. CASE MarkRunning(g)
  <2>1. "running" \in States
    BY DEF States
  <2>2. RowType'
    BY <1>0, <1>2, <2>1, RetryType, UpdateType DEF MarkRunning, RowType
  <2>3. faults' \in Nat /\ running' = running
    BY <1>2, FaultsType DEF MarkRunning
  <2>4. PICK at \in {"mark", "scan", "clear"} : Move(g, at, "none")
    BY <1>2 DEF MarkRunning, AfterFailedMark
  <2> QED
    BY <1>0, <1>1, <2>2, <2>3, <2>4, MoveType, RunVarsType DEF HasResult
<1>3. CASE Scan(g)
  <2>1. PICK result \in {"done", "temporary", "needs_auth", "reader_not_configured"} :
           Move(g, "write", result) /\ (result = "temporary" => g.retry < MaxRetries)
    BY <1>3 DEF Scan
  <2>2. RowType' /\ faults' \in Nat /\ running' = running
    BY <1>0, <1>3, FaultsType DEF Scan, RowType
  <2>3. /\ runs' \subseteq Run
        /\ \A h \in runs' \ runs : h.retry = g.retry /\ h.at = "write" /\ h.result = result
    BY <1>0, <2>1, MoveType
  <2> QED
    BY <1>1, <2>1, <2>2, <2>3, RunVarsType DEF HasResult
<1>4. CASE WriteResult(g)
  <2>1. g.result \in States \/ g.result \in {"done", "temporary"}
    BY <1>0, <1>4 DEF States, Parked, HasResult, WriteResult
  <2>2. "queued" \in States /\ "backing_off" \in States
    BY DEF States
  <2>3. NextRetry(g.retry) \in 0 .. MaxRetries \/ g.result # "temporary"
    BY <1>0 DEF NextRetry, HasResult
  <2>4. faults' \in Nat /\ running' = running /\ Move(g, "clear", "none")
    BY <1>4, FaultsType DEF WriteResult
  <2>5. RowType'
    BY <1>0, <1>4, <2>1, <2>2, <2>3, UpdateType DEF WriteResult, RowType
  <2> QED
    BY <1>0, <1>1, <2>4, <2>5, MoveType, RunVarsType DEF HasResult
<1>5. CASE ClearRunning(g)
  BY <1>0, <1>1, <1>5, RunVarsType, FaultsType DEF ClearRunning, RowType
<1> QED
  BY <1>2, <1>3, <1>4, <1>5 DEF RunStep

LEMMA StepType == TypeInv /\ [Next]_vars => TypeInv'
<1> SUFFICES ASSUME TypeInv, [Next]_vars PROVE TypeInv'
  OBVIOUS
<1>1. CASE \E t \in Tenants : RetryTimePasses(t)
  <2>1. PICK t \in Tenants : RetryTimePasses(t)
    BY <1>1
  <2>2. row \in [Tenants -> Row \cup {NoRow}] /\ row[t] \in Row
    BY <2>1 DEF TypeInv, TypeOK, RetryTimePasses, Exists
  <2>3. [row[t] EXCEPT !.waiting = FALSE] \in Row
    BY <2>2 DEF Row
  <2>4. row' \in [Tenants -> Row \cup {NoRow}]
    <3>1. row' = [row EXCEPT ![t] = [row[t] EXCEPT !.waiting = FALSE]]
      BY <2>1, <2>2 DEF RetryTimePasses
    <3> QED
      BY <2>2, <2>3, <3>1
  <2> QED
    BY <2>1, <2>4 DEF RetryTimePasses, TypeInv, TypeOK, ResultsKnown
<1>2. CASE Shutdown
  BY <1>2 DEF Shutdown, TypeInv, TypeOK, ResultsKnown
<1>3. CASE Restart
  <2>1. crashes' \in Nat /\ ctxDone' \in BOOLEAN
    <3>1. crashes \in Nat /\ crashes' = crashes + 1
      BY <1>3 DEF Restart, TypeInv, TypeOK
    <3>2. ctxDone' = FALSE
      BY <1>3 DEF Restart
    <3>3. crashes' \in Nat
      BY <3>1
    <3> QED
      BY <3>2, <3>3
  <2>2. handlers' \subseteq Call /\ running' \subseteq Tenants /\ runs' \subseteq Run
    BY <1>3 DEF Restart
  <2>3. UNCHANGED <<rowVars, limit, ready, requests, faults>> /\ EndRound
    BY <1>3 DEF Restart
  <2>4. TypeOK'
    BY <2>1, <2>2, <2>3, EndRoundType DEF TypeInv, TypeOK
  <2> QED
    BY <1>3, <2>4 DEF Restart, TypeInv, ResultsKnown
<1>4. CASE UNCHANGED vars
  BY <1>4 DEF vars, TypeInv, TypeOK, ResultsKnown
<1> QED
  BY <1>1, <1>2, <1>3, <1>4, RequestType, FinishType, LoopType, RunType DEF Next

(* The scheduler keeps its types: no row, snapshot, run or call is ever    *)
(* ill-formed, and a back-off never counts more failures than the bound.   *)
THEOREM TypeCorrect == Spec => []TypeOK
<1>1. Spec => []TypeInv
  BY InitType, StepType, PTL DEF Spec
<1>2. TypeInv => TypeOK
  BY DEF TypeInv
<1> QED
  BY <1>1, <1>2, PTL

-----------------------------------------------------------------------------
(* Who scans whom.                                                         *)


LEMMA InitRuns == Init => RunInv
BY DEF Init, RunInv, OneRunPerTenant, Tracked, Drained

(* A run that moves on stays the run of its tenant.                        *)
LEMMA MoveRuns ==
    ASSUME TypeInv, RunInv, NEW g \in runs, NEW at \in {"mark", "scan", "write", "clear"},
           NEW result \in {"none", "done", "temporary", "needs_auth", "reader_not_configured"},
           Move(g, at, result), UNCHANGED <<pc, running>>
    PROVE  RunInv'
<1> DEFINE h == [g EXCEPT !.at = at, !.result = result]
<1>1. h.tenant = g.tenant /\ runs' = (runs \ {g}) \cup {h}
  BY DEF TypeInv, TypeOK, Run, Move
<1> HIDE DEF h
<1>2. OneRunPerTenant'
  BY <1>1 DEF RunInv, OneRunPerTenant
<1>3. Tracked'
  BY <1>1 DEF RunInv, Tracked
<1>4. Drained'
  BY <1>1 DEF RunInv, Drained
<1> QED
  BY <1>2, <1>3, <1>4 DEF RunInv

LEMMA StepRuns == TypeInv /\ RunInv /\ [Next]_vars => RunInv'
<1> SUFFICES ASSUME TypeInv, RunInv, [Next]_vars PROVE RunInv'
  OBVIOUS
<1> USE DEF RunInv, OneRunPerTenant, Tracked, Drained
<1>1. CASE UNCHANGED <<pc, running, runs>>
  BY <1>1
<1>2. CASE Poll \/ ReadConfig \/ ListRunnable \/ ComputeCapacity \/ FinishRound \/ SkipTenant
  <2>1. pc' \notin {"draining", "exited"} /\ pc \notin {"draining", "exited"}
    BY <1>2 DEF Poll, ReadConfig, ListRunnable, ComputeCapacity, FinishRound, SkipTenant, EndRound
  <2>2. UNCHANGED runVars
    BY <1>2 DEF Poll, ReadConfig, ListRunnable, ComputeCapacity, FinishRound, SkipTenant
  <2> QED
    BY <2>1, <2>2
<1>3. CASE StartTenant
  <2> DEFINE s == Head(list)
             g == [tenant |-> s.tenant, reader |-> s.reader, retry |-> s.retry,
                   at |-> "mark", result |-> "none"]
  <2>1. pc = "each" /\ pc' \in {"each", "poll"} /\ s.tenant \notin running
    BY <1>3 DEF StartTenant, EndRound, IsRunning
  <2>2. \/ running' = running \cup {s.tenant} /\ runs' = runs \cup {g}
        \/ UNCHANGED runVars
    BY <1>3 DEF StartTenant
  <2>3. g.tenant = s.tenant
    OBVIOUS
  <2> HIDE DEF g, s
  <2> QED
    BY <2>1, <2>2, <2>3
<1>4. CASE StopRuns \/ Exit
  BY <1>4 DEF StopRuns, Exit
<1>5. ASSUME NEW g \in runs, RunStep(g)
      PROVE  RunInv'
  <2>1. UNCHANGED pc
    BY <1>5 DEF RunStep
  <2>2. CASE ClearRunning(g)
    BY <2>1, <2>2 DEF ClearRunning
  <2>3. CASE UNCHANGED running /\
             \E at \in {"mark", "scan", "write", "clear"},
                result \in {"none", "done", "temporary", "needs_auth", "reader_not_configured"} :
                Move(g, at, result)
    BY <2>1, <2>3, MoveRuns
  <2>4. MarkRunning(g) \/ Scan(g) \/ WriteResult(g) => UNCHANGED running
    BY DEF MarkRunning, Scan, WriteResult
  <2>5. MarkRunning(g) \/ Scan(g) \/ WriteResult(g) =>
             \E at \in {"mark", "scan", "write", "clear"},
                result \in {"none", "done", "temporary", "needs_auth", "reader_not_configured"} :
                Move(g, at, result)
    BY DEF MarkRunning, Scan, WriteResult, AfterFailedMark
  <2> QED
    BY <1>5, <2>2, <2>3, <2>4, <2>5 DEF RunStep
<1>6. CASE Restart
  BY <1>6 DEF Restart, EndRound
<1>7. Request => UNCHANGED <<pc, running, runs>>
  BY DEF Request, PatchSettings, PatchLimit, ReaderBreaks, ConnectReader, RevokeToken,
         DisconnectReader, Begin
<1>8. (\E h \in handlers : FinishRequest(h)) \/ (\E t \in Tenants : RetryTimePasses(t)) \/ Shutdown
         \/ UNCHANGED vars => UNCHANGED <<pc, running, runs>>
  BY DEF FinishRequest, RetryTimePasses, Shutdown, vars
<1> QED
  BY <1>1, <1>2, <1>3, <1>4, <1>5, <1>6, <1>7, <1>8 DEF Next, Loop

LEMMA Invariant == Spec => [](TypeInv /\ RunInv)
BY InitType, InitRuns, StepType, StepRuns, PTL DEF Spec

(* Never two scheduled scans of one tenant: s.running is enough to keep    *)
(* them apart, whatever the handlers write to the row meanwhile.           *)
THEOREM OneRun == Spec => []OneRunPerTenant
<1>1. TypeInv /\ RunInv => OneRunPerTenant
  BY DEF RunInv
<1> QED
  BY <1>1, Invariant, PTL

-----------------------------------------------------------------------------
(* How many scans.                                                         *)

LEMMA RunningFinite ==
    ASSUME TypeInv
    PROVE  /\ IsFiniteSet(running) /\ Cardinality(running) \in Nat
           /\ limitRead \in Int /\ capacity \in Int
BY TenantAssumption, LimitAssumption, FS_Subset, FS_CardinalityType DEF TypeInv, TypeOK

LEMMA StepCapacity == TypeInv /\ CapacityFits /\ [Next]_vars => CapacityFits'
<1> SUFFICES ASSUME TypeInv, CapacityFits, [Next]_vars PROVE CapacityFits'
  OBVIOUS
<1> USE DEF CapacityFits
<1>0. /\ IsFiniteSet(running) /\ Cardinality(running) \in Nat
      /\ limitRead \in Int /\ capacity \in Int
  BY RunningFinite
<1>1. CASE UNCHANGED <<pc, limitRead, capacity, running>>
  BY <1>1
<1>2. CASE Poll \/ ReadConfig \/ ListRunnable \/ FinishRound \/ StopRuns \/ Exit
  BY <1>2 DEF Poll, ReadConfig, ListRunnable, FinishRound, StopRuns, Exit, EndRound
<1>3. CASE ComputeCapacity
  BY <1>0, <1>3 DEF ComputeCapacity, AvailableCapacity
<1>4. CASE StartTenant
  <2> DEFINE t == Head(list).tenant
  <2>1. t \notin running /\ pc = "each"
    BY <1>4 DEF StartTenant, IsRunning
  <2>2. Cardinality(running \cup {t}) = Cardinality(running) + 1
    BY <1>0, <2>1, FS_AddElement
  <2>3. CASE running' = running \cup {t} /\ capacity' = capacity - 1 /\ UNCHANGED <<pc, limitRead>>
    BY <1>0, <2>1, <2>2, <2>3
  <2>4. CASE EndRound
    BY <2>4 DEF EndRound
  <2> QED
    BY <1>4, <2>3, <2>4 DEF StartTenant
<1>5. ASSUME NEW g \in runs, RunStep(g)
      PROVE  CapacityFits'
  <2>1. UNCHANGED loopVars
    BY <1>5 DEF RunStep
  <2>2. running' = running \/ running' = running \ {g.tenant}
    BY <1>5 DEF RunStep, MarkRunning, Scan, WriteResult, ClearRunning
  <2>3. /\ Cardinality(running \ {g.tenant}) <= Cardinality(running)
        /\ Cardinality(running \ {g.tenant}) \in Int
    <3>1. Cardinality(running \ {g.tenant}) =
            IF g.tenant \in running THEN Cardinality(running) - 1 ELSE Cardinality(running)
      BY <1>0, FS_RemoveElement
    <3> QED
      BY <1>0, <3>1
  <2> QED
    BY <1>0, <2>1, <2>2, <2>3
<1>6. CASE Restart
  BY <1>6 DEF Restart, EndRound
<1>7. Request => UNCHANGED <<loopVars, runVars>>
  BY DEF Request, PatchSettings, PatchLimit, ReaderBreaks, ConnectReader, RevokeToken,
         DisconnectReader, Begin
<1>8. (\E h \in handlers : FinishRequest(h)) \/ (\E t \in Tenants : RetryTimePasses(t)) \/ Shutdown
         \/ SkipTenant \/ UNCHANGED vars => UNCHANGED <<pc, limitRead, capacity, running>>
  BY DEF FinishRequest, RetryTimePasses, Shutdown, SkipTenant, vars
<1> QED
  BY <1>1, <1>2, <1>3, <1>4, <1>5, <1>6, <1>7, <1>8 DEF Next, Loop

(* Runs of distinct tenants are no more numerous than the tenants.         *)
LEMMA RunsPerTenant ==
    ASSUME TypeInv, OneRunPerTenant, NEW T \in SUBSET Tenants,
           \A g \in runs : g.tenant \in T
    PROVE  /\ IsFiniteSet(runs) /\ Cardinality(runs) \in Nat
           /\ Cardinality(runs) <= Cardinality(T)
<1> DEFINE f == [g \in runs |-> g.tenant]
<1>1. f \in Injection(runs, T)
  BY DEF OneRunPerTenant, Injection, IsInjective
<1>2. IsFiniteSet(T)
  BY TenantAssumption, FS_Subset
<1> HIDE DEF f
<1> QED
  BY <1>1, <1>2, FS_Injection, FS_CardinalityType

LEMMA StartWithinLimit ==
    ASSUME TypeInv, RunInv, CapacityFits, StartTenant
    PROVE  Cardinality(runs') > Cardinality(runs) => Cardinality(runs') <= limitRead
<1>0. /\ Cardinality(running) \in Nat /\ limitRead \in Int /\ capacity \in Int
      /\ pc = "each" /\ capacity > 0
  BY RunningFinite DEF StartTenant
<1>1. /\ IsFiniteSet(runs) /\ Cardinality(runs) \in Nat
      /\ Cardinality(runs) <= Cardinality(running)
  <2>1. running \in SUBSET Tenants /\ \A g \in runs : g.tenant \in running
    BY <1>0 DEF TypeInv, TypeOK, RunInv, Tracked
  <2> QED
    BY <2>1, RunsPerTenant DEF RunInv
<1>2. PICK g : runs' = runs \cup {g} \/ runs' = runs
  BY DEF StartTenant
<1>3. /\ Cardinality(runs \cup {g}) <= Cardinality(runs) + 1
      /\ Cardinality(runs \cup {g}) \in Int
  BY <1>1, FS_AddElement
<1>4. capacity + Cardinality(running) <= limitRead
  BY <1>0 DEF CapacityFits
<1> QED
  BY <1>0, <1>1, <1>2, <1>3, <1>4

LEMMA MoveKeepsCount ==
    ASSUME TypeInv, RunInv, NEW g \in runs, NEW at, NEW result, Move(g, at, result)
    PROVE  ~(Cardinality(runs') > Cardinality(runs))
<1> DEFINE h == [g EXCEPT !.at = at, !.result = result]
<1>1. IsFiniteSet(runs) /\ Cardinality(runs) \in Nat
  <2>1. \A k \in runs : k.tenant \in Tenants
    BY DEF TypeInv, TypeOK, Run
  <2> QED
    BY <2>1, RunsPerTenant DEF RunInv
<1>2. IsFiniteSet(runs \ {g}) /\ Cardinality(runs \ {g}) = Cardinality(runs) - 1
  BY <1>1, FS_RemoveElement
<1>3. runs' = (runs \ {g}) \cup {h}
  BY DEF Move
<1> HIDE DEF h
<1>4. Cardinality(runs') = Cardinality(runs) - 1 \/ Cardinality(runs') = Cardinality(runs)
  <2> DEFINE S == runs \ {g}
  <2>1. IsFiniteSet(S) /\ Cardinality(S) = Cardinality(runs) - 1 /\ runs' = S \cup {h}
    BY <1>2, <1>3
  <2> HIDE DEF S
  <2>2. Cardinality(S \cup {h}) = IF h \in S THEN Cardinality(S) ELSE Cardinality(S) + 1
    BY <2>1, FS_AddElement
  <2> QED
    BY <1>1, <2>1, <2>2
<1> QED
  BY <1>1, <1>4

(* A scan is only ever started within the limit that the round has read,   *)
(* however runs end and limits change during the round.                    *)
THEOREM LimitHolds == Spec => LimitRespected
<1>1. Spec => []CapacityFits
  <2>1. Init => CapacityFits
    BY DEF Init, CapacityFits
  <2>2. TypeInv /\ RunInv => TypeInv
    OBVIOUS
  <2> QED
    BY <2>1, StepCapacity, Invariant, PTL DEF Spec
<1>2. TypeInv /\ RunInv /\ CapacityFits /\ [Next]_vars =>
        [runs' \ runs # {} /\ Cardinality(runs') > Cardinality(runs)
            => Cardinality(runs') <= limitRead]_vars
  <2> SUFFICES ASSUME TypeInv, RunInv, CapacityFits, [Next]_vars,
                      runs' \ runs # {}, Cardinality(runs') > Cardinality(runs)
               PROVE  Cardinality(runs') <= limitRead
    OBVIOUS
  <2>1. CASE StartTenant
    BY <2>1, StartWithinLimit
  <2>2. ASSUME NEW g \in runs, RunStep(g) PROVE FALSE
    <3>1. PICK at, result : Move(g, at, result)
      BY <2>2 DEF RunStep, MarkRunning, Scan, WriteResult, ClearRunning
    <3> QED
      BY <3>1, MoveKeepsCount
  <2>3. Loop /\ ~StartTenant => UNCHANGED runs
    BY DEF Loop, Poll, ReadConfig, ListRunnable, ComputeCapacity, FinishRound, SkipTenant,
           StopRuns, Exit
  <2>4. Restart => runs' = {}
    BY DEF Restart
  <2>5. Request => UNCHANGED runs
    BY DEF Request, PatchSettings, PatchLimit, ReaderBreaks, ConnectReader, RevokeToken,
           DisconnectReader, Begin
  <2>6. (\E h \in handlers : FinishRequest(h)) \/ (\E t \in Tenants : RetryTimePasses(t)) \/ Shutdown
           \/ UNCHANGED vars => UNCHANGED runs
    BY DEF FinishRequest, RetryTimePasses, Shutdown, vars
  <2> QED
    BY <2>1, <2>2, <2>3, <2>4, <2>5, <2>6 DEF Next
<1> QED
  BY <1>1, <1>2, Invariant, PTL DEF Spec, LimitRespected

-----------------------------------------------------------------------------
(* Pauses.                                                                 *)

(* A list names runnable tenants, each of them once.                       *)
LEMMA ListFaithful ==
    ASSUME NEW l \in RunnableLists
    PROVE  /\ \A i \in DOMAIN l : Runnable(l[i].tenant)
           /\ \A i, j \in DOMAIN l : l[i].tenant = l[j].tenant => i = j
<1> DEFINE R == {t \in Tenants : Runnable(t)}
           n == Cardinality(R)
           Orders == {s \in [1 .. n -> R] :
                        \A i, j \in DOMAIN s : i < j => s[i] # s[j] /\ <<s[j], s[i]>> \notin older}
           Listed(s) == [i \in DOMAIN s |-> [tenant |-> s[i], reader |-> row[s[i]].reader,
                                             retry |-> row[s[i]].retry]]
<1>0. l \in {Listed(s) : s \in Orders}
  BY DEF RunnableLists
<1>1. Cardinality(R) \in Nat
  BY TenantAssumption, FS_Subset, FS_CardinalityType
<1> HIDE DEF R, n, Orders, Listed
<1>2. PICK s \in Orders : l = Listed(s)
  BY <1>0
<1>3. /\ s \in [1 .. n -> R]
      /\ \A i, j \in 1 .. n : i < j => s[i] # s[j]
  BY DEF Orders
<1>4. DOMAIN l = 1 .. n /\ \A i \in 1 .. n : l[i].tenant = s[i]
  BY <1>2, <1>3 DEF Listed
<1>5. \A i \in DOMAIN l : Runnable(l[i].tenant)
  BY <1>3, <1>4 DEF R
<1>6. \A i, j \in 1 .. n : i # j => s[i] # s[j]
  BY <1>1, <1>3 DEF n
<1> QED
  BY <1>4, <1>5, <1>6

LEMMA TailListed ==
    ASSUME TypeInv, list # <<>>
    PROVE  /\ \A i \in DOMAIN Tail(list) : i + 1 \in DOMAIN list /\ i + 1 # 1
                                           /\ Tail(list)[i] = list[i + 1]
           /\ 1 \in DOMAIN list /\ Head(list) = list[1]
BY DEF TypeInv, TypeOK

LEMMA StepListed == TypeInv /\ ListedOnce /\ [Next]_vars => ListedOnce'
<1> SUFFICES ASSUME TypeInv, ListedOnce, [Next]_vars PROVE ListedOnce'
  OBVIOUS
<1>1. CASE UNCHANGED list
  BY <1>1 DEF ListedOnce
<1>2. CASE EndRound
  BY <1>2 DEF ListedOnce, EndRound
<1>3. CASE list # <<>> /\ list' = Tail(list)
  <2> SUFFICES ASSUME NEW i \in DOMAIN Tail(list), NEW j \in DOMAIN Tail(list),
                      Tail(list)[i].tenant = Tail(list)[j].tenant
               PROVE  i = j
    BY <1>3 DEF ListedOnce
  <2>1. i \in Int /\ j \in Int
    BY <1>3 DEF TypeInv, TypeOK
  <2>2. i + 1 = j + 1
    BY <1>3, TailListed DEF ListedOnce
  <2> QED
    BY <2>1, <2>2
<1>4. CASE list' \in RunnableLists
  BY <1>4, ListFaithful DEF ListedOnce
<1>5. Loop => UNCHANGED list \/ EndRound \/ (list # <<>> /\ list' = Tail(list))
                \/ list' \in RunnableLists
  BY DEF Loop, Poll, ReadConfig, ListRunnable, ComputeCapacity, FinishRound, SkipTenant,
         StartTenant, StopRuns, Exit
<1>6. Request => UNCHANGED list
  BY DEF Request, PatchSettings, PatchLimit, ReaderBreaks, ConnectReader, RevokeToken,
         DisconnectReader, Begin
<1>7. (\E h \in handlers : FinishRequest(h)) \/ (\E t \in Tenants : RetryTimePasses(t)) \/ Shutdown
         \/ (\E g \in runs : RunStep(g)) \/ UNCHANGED vars => UNCHANGED list
  BY DEF FinishRequest, RetryTimePasses, Shutdown, RunStep, vars
<1>8. Restart => EndRound
  BY DEF Restart
<1> QED
  BY <1>1, <1>2, <1>3, <1>4, <1>5, <1>6, <1>7, <1>8 DEF Next

(* A run that moves on keeps its tenant.                                   *)
LEMMA RunsKeepTenants ==
    ASSUME TypeInv, NEW g \in runs, RunStep(g), NEW t, Scanning(t)'
    PROVE  Scanning(t)
<1>1. CASE ClearRunning(g)
  BY <1>1 DEF ClearRunning, Scanning
<1>2. ASSUME NEW at, NEW result, Move(g, at, result)
      PROVE  Scanning(t)
  <2>1. [g EXCEPT !.at = at, !.result = result].tenant = g.tenant
    BY DEF TypeInv, TypeOK, Run
  <2> QED
    BY <1>2, <2>1 DEF Move, Scanning
<1> QED
  BY <1>1, <1>2 DEF RunStep, MarkRunning, Scan, WriteResult

(* The start of the first tenant of the list takes it off the list.        *)
LEMMA StartOfListed ==
    ASSUME TypeInv, ListedOnce, StartTenant, NEW t
    PROVE  /\ Pending(t)' => Pending(t)
           /\ Scanning(t)' => Scanning(t) \/ (Pending(t) /\ ~Pending(t)')
<1>1. CASE EndRound /\ UNCHANGED runs
  BY <1>1 DEF EndRound, Pending, Scanning
<1>2. CASE ~(EndRound /\ UNCHANGED runs)
  <2> DEFINE s == Head(list)
             g == [tenant |-> s.tenant, reader |-> s.reader, retry |-> s.retry,
                   at |-> "mark", result |-> "none"]
  <2>1. list # <<>> /\ list' = Tail(list) /\ runs' = runs \cup {g} /\ g.tenant = s.tenant
    BY <1>2 DEF StartTenant
  <2> HIDE DEF g, s
  <2>2. Pending(t)' => Pending(t)
    BY <2>1, TailListed DEF Pending
  <2>3. ASSUME t = s.tenant PROVE Pending(t) /\ ~Pending(t)'
    BY <2>1, <2>3, TailListed DEF Pending, ListedOnce, s
  <2>4. Scanning(t)' => Scanning(t) \/ t = s.tenant
    BY <2>1 DEF Scanning
  <2> QED
    BY <2>2, <2>3, <2>4
<1> QED
  BY <1>1, <1>2

(* A tenant whose scanning is switched off is not listed again, and is     *)
(* started at most by the round that had listed it before.                 *)
THEOREM PausesTakeEffect == Spec => PauseTakesEffect
<1>1. Spec => [](TypeInv /\ ListedOnce)
  <2>1. Init => ListedOnce
    BY DEF Init, ListedOnce
  <2> QED
    BY <2>1, InitType, StepType, StepListed, PTL DEF Spec
<1>2. TypeInv /\ ListedOnce /\ [Next]_vars =>
        [\A t \in Tenants :
            Off(t) /\ Off(t)' =>
               /\ Pending(t)' => Pending(t)
               /\ Scanning(t)' => Scanning(t) \/ (Pending(t) /\ ~Pending(t)')]_vars
  <2> SUFFICES ASSUME TypeInv, ListedOnce, [Next]_vars, NEW t \in Tenants, Off(t), Off(t)'
               PROVE  /\ Pending(t)' => Pending(t)
                      /\ Scanning(t)' => Scanning(t) \/ (Pending(t) /\ ~Pending(t)')
    OBVIOUS
  <2>1. CASE UNCHANGED <<list, runs>>
    BY <2>1 DEF Pending, Scanning
  <2>2. CASE StartTenant
    BY <2>2, StartOfListed
  <2>3. CASE ListRunnable
    <3>1. CASE list' \in RunnableLists
      BY <2>3, <3>1, ListFaithful DEF ListRunnable, Pending, Scanning, Runnable, Off
    <3>2. CASE EndRound
      BY <2>3, <3>2 DEF ListRunnable, EndRound, Pending, Scanning
    <3> QED
      BY <2>3, <3>1, <3>2 DEF ListRunnable
  <2>4. CASE EndRound /\ (UNCHANGED runs \/ runs' = {})
    BY <2>4 DEF EndRound, Pending, Scanning
  <2>5. CASE SkipTenant
    BY <2>5, TailListed DEF SkipTenant, Pending, Scanning
  <2>6. ASSUME NEW g \in runs, RunStep(g)
        PROVE  (Pending(t)' => Pending(t)) /\ (Scanning(t)' => Scanning(t))
    BY <2>6, RunsKeepTenants DEF RunStep, Pending
  <2>7. Loop => UNCHANGED <<list, runs>> \/ StartTenant \/ ListRunnable \/ SkipTenant
                  \/ (EndRound /\ UNCHANGED runs)
    BY DEF Loop, Poll, ReadConfig, ComputeCapacity, FinishRound, StopRuns, Exit
  <2>8. Request => UNCHANGED <<list, runs>>
    BY DEF Request, PatchSettings, PatchLimit, ReaderBreaks, ConnectReader, RevokeToken,
           DisconnectReader, Begin
  <2>9. (\E h \in handlers : FinishRequest(h)) \/ (\E u \in Tenants : RetryTimePasses(u)) \/ Shutdown
           \/ UNCHANGED vars => UNCHANGED <<list, runs>>
    BY DEF FinishRequest, RetryTimePasses, Shutdown, vars
  <2>10. Restart => EndRound /\ runs' = {}
    BY DEF Restart
  <2> QED
    BY <2>1, <2>2, <2>3, <2>4, <2>5, <2>6, <2>7, <2>8, <2>9, <2>10 DEF Next
<1> QED
  BY <1>1, <1>2, PTL DEF Spec, PauseTakesEffect
=============================================================================
