----------------------------- MODULE ScanPipeline -----------------------------
(***************************************************************************)
(* One reader of one tenant: the scans that bring its mail into the        *)
(* database.  internal/daemon/runner.go starts two goroutines on an        *)
(* errgroup, the reader (pkg/reader/gmail, pkg/reader/thunderbird) and     *)
(* the transaction sink; a third, inside the reader, marks acknowledged    *)
(* messages.  They are joined by two bounded channels:                     *)
(*                                                                         *)
(*     reader --- out ---> sink --- database                               *)
(*     marker <--- ack ----                                                *)
(*                                                                         *)
(* Time is counted in units of which the checkpoint's safety margin takes  *)
(* Margin.  A definition whose comment begins with "Fault:" is a mistaken  *)
(* variant of the one after it, kept to show that a property notices it.   *)
(***************************************************************************)
EXTENDS Integers, Sequences

CONSTANTS
    Messages,   \* mail that matches a rule
    Kind,       \* "gmail" or "thunderbird"
    Modes,      \* the kinds of runs started
    QueueSize,  \* capacities of the channels out
    AckSize,    \* and ack
    BatchSize,  \* transactions that make the sink write
    Margin,     \* how far before the checkpoint a scan still looks
    MaxScan,    \* longest time from listing the mail to the checkpoint
    MaxTime,    \* bounds on the clock, the operations that fail,
    MaxFaults,  \* the cancellations and process crashes, and
    MaxStops,   \* the requests that clear the checkpoint
    MaxClears

ASSUME KindAssumption == Kind \in {"gmail", "thunderbird"}
ASSUME ModeAssumption == Modes \subseteq {"scheduled", "continuous", "rescan"}
ASSUME SizeAssumption == {QueueSize, AckSize, BatchSize} \subseteq Nat \ {0}
ASSUME BoundAssumption ==
    {Margin, MaxScan, MaxTime, MaxFaults, MaxStops, MaxClears} \subseteq Nat

VARIABLES
    clock, date,                        \* now, and when each message arrived
    persisted, processed, checkpoint,   \* the database
    mode, since, stop, outcome,         \* the run: its kind, the reader's lastScanAt,
                                        \* its context cancelled, how the last one ended
    rpc, todo, listedAt, iterErr,       \* the reader
    spc, batch, last, sinkErr,          \* the sink
    out, ack,                           \* the channels
    faults, cancels, crashes, clears,
    sent, missed                        \* history: messages queued by this run, messages
                                        \* whose reading failed

timeVars   == <<clock, date>>
dbVars     == <<persisted, processed, checkpoint>>
runVars    == <<mode, since, stop, outcome>>
readerVars == <<rpc, todo, listedAt, iterErr>>
sinkVars   == <<spc, batch, last, sinkErr>>
chanVars   == <<out, ack>>
boundVars  == <<cancels, crashes, clears>>
histVars   == <<sent, missed>>
vars == <<timeVars, dbVars, runVars, readerVars, sinkVars, chanVars, faults, boundVars, histVars>>

Never == -1

TypeOK ==
    /\ clock \in 0 .. MaxTime /\ date \in [Messages -> Never .. MaxTime]
    /\ persisted \subseteq Messages /\ processed \subseteq Messages
    /\ checkpoint \in Never .. MaxTime /\ since \in Never .. MaxTime
    /\ mode \in Modes \cup {"idle"} /\ stop \in BOOLEAN
    /\ outcome \in {"none", "ok", "failed"}
    /\ rpc \in {"list", "scan", "after", "tick", "closing"}
    /\ todo \subseteq Messages /\ listedAt \in 0 .. MaxTime /\ iterErr \in BOOLEAN
    /\ spc \in {"select", "write", "ack", "done"} /\ last \in BOOLEAN /\ sinkErr \in BOOLEAN
    /\ batch \in Seq(Messages) /\ Len(batch) <= BatchSize
    /\ out \in Seq(Messages) /\ Len(out) <= QueueSize
    /\ ack \in Seq(Messages) /\ Len(ack) <= AckSize
    /\ {faults, cancels, crashes, clears} \subseteq Nat
    /\ sent \subseteq Messages /\ missed \subseteq Messages

(* No goroutine of the pipeline is alive.                                  *)
Quiet ==
    /\ mode' = "idle" /\ since' = Never
    /\ rpc' = "list" /\ todo' = {} /\ listedAt' = 0 /\ iterErr' = FALSE
    /\ spc' = "select" /\ batch' = <<>> /\ last' = FALSE /\ sinkErr' = FALSE
    /\ out' = <<>> /\ ack' = <<>>

Init ==
    /\ clock = 0 /\ date = [m \in Messages |-> Never]
    /\ persisted = {} /\ processed = {} /\ checkpoint = Never
    /\ mode = "idle" /\ since = Never /\ stop = FALSE /\ outcome = "none"
    /\ rpc = "list" /\ todo = {} /\ listedAt = 0 /\ iterErr = FALSE
    /\ spc = "select" /\ batch = <<>> /\ last = FALSE /\ sinkErr = FALSE
    /\ out = <<>> /\ ack = <<>>
    /\ faults = 0 /\ cancels = 0 /\ crashes = 0 /\ clears = 0
    /\ sent = {} /\ missed = {}

Running == mode # "idle"

(* The group's context: cancelled from outside, or by an error of the sink. *)
(* The reader's error cannot cancel it: Read returns after the sink does.   *)
GroupDone == stop \/ sinkErr

Fails == faults < MaxFaults /\ faults' = faults + 1
Works == UNCHANGED faults

(* Fault: a scan looks for mail since the checkpoint.                      *)
NoMargin == 0
Buffer == Margin

(* What a scan with checkpoint c lists.                                    *)
Visible(m, c) == date[m] # Never /\ date[m] >= c - Buffer

-----------------------------------------------------------------------------
(* Runs.                                                                   *)

(* ScanService.Run; a rescan has neither checkpoint nor state manager.     *)
StartRun(k) ==
    /\ ~Running /\ k \in Modes
    /\ mode' = k
    /\ since' = IF k = "rescan" THEN Never ELSE checkpoint
    /\ stop' = FALSE /\ outcome' = "none"
    /\ sent' = {}
    /\ UNCHANGED <<timeVars, dbVars, readerVars, sinkVars, chanVars, faults, boundVars, missed>>

(* g.Wait returns.  Outcome "failed" is an error that Run returns, or the  *)
(* error of a cancelled run, which it does not.                            *)
EndRun ==
    /\ Running
    /\ rpc = "closing" /\ spc = "done" /\ ack = <<>>
    /\ outcome' = IF sinkErr \/ (iterErr /\ Kind = "gmail") THEN "failed" ELSE "ok"
    /\ Quiet
    /\ UNCHANGED <<timeVars, dbVars, stop, faults, boundVars, histVars>>

(* The scheduler stops, or the controller cancels the run.                 *)
Cancel ==
    /\ Running /\ ~stop /\ cancels + crashes < MaxStops
    /\ stop' = TRUE /\ cancels' = cancels + 1
    /\ UNCHANGED <<timeVars, dbVars, mode, since, outcome, readerVars, sinkVars, chanVars, faults,
                   crashes, clears, histVars>>

Crash ==
    /\ Running /\ cancels + crashes < MaxStops
    /\ crashes' = crashes + 1
    /\ Quiet /\ outcome' = "none" /\ stop' = FALSE
    /\ UNCHANGED <<timeVars, dbVars, faults, cancels, clears, histVars>>

(* ClearReaderCheckpoint, or a rule is created.                            *)
ClearCheckpoint ==
    /\ clears < MaxClears /\ clears' = clears + 1
    /\ checkpoint' = Never
    /\ UNCHANGED <<timeVars, persisted, processed, runVars, readerVars, sinkVars, chanVars, faults,
                   cancels, crashes, histVars>>

-----------------------------------------------------------------------------
(* The reader goroutine.                                                   *)

ReaderStep == Running /\ UNCHANGED <<timeVars, mode, stop, outcome, sinkVars, ack, boundVars>>

List ==
    /\ rpc = "list"
    /\ rpc' = "scan" /\ listedAt' = clock /\ iterErr' = FALSE
    /\ todo' = {m \in Messages : ~GroupDone /\ Visible(m, since)}
    /\ UNCHANGED <<dbVars, since, out, faults, sent, missed>>

(* IsProcessed; a rescan has no state manager to ask.                      *)
Skip(m) ==
    /\ rpc = "scan" /\ m \in todo
    /\ m \in processed /\ mode # "rescan"
    /\ todo' = todo \ {m} /\ missed' = missed \ {m}
    /\ Works
    /\ UNCHANGED <<dbVars, since, rpc, listedAt, iterErr, out, sent>>

(* A failed IsProcessed counts as not processed.                           *)
Send(m) ==
    /\ rpc = "scan" /\ m \in todo
    /\ IF m \in processed /\ mode # "rescan" THEN Fails ELSE Works
    /\ Len(out) < QueueSize
    /\ out' = Append(out, m)
    /\ todo' = todo \ {m} /\ sent' = sent \cup {m} /\ missed' = missed \ {m}
    /\ UNCHANGED <<dbVars, since, rpc, listedAt, iterErr>>

(* Fault: a failed read is only logged.                                    *)
LogOnly == FALSE
(* A failed read makes the iteration fail: in gmail, not in thunderbird,   *)
(* whose scanAllMailboxes drops the error of a mailbox.                    *)
FailsIteration == Kind = "gmail"

(* A message, the rest of a query's pages or of a mailbox is not read.     *)
FailRead ==
    /\ rpc = "scan" /\ Fails
    /\ \E S \in SUBSET todo \ {{}} :
          /\ todo' = todo \ S
          /\ missed' = missed \cup S
    /\ iterErr' = (iterErr \/ FailsIteration)
    /\ UNCHANGED <<dbVars, since, rpc, listedAt, out, sent>>

SeesDone == GroupDone

Abandon ==
    /\ rpc = "scan" /\ SeesDone
    /\ todo' = {} /\ iterErr' = TRUE /\ rpc' = "after"
    /\ UNCHANGED <<dbVars, since, listedAt, out, faults, sent, missed>>

FinishIteration ==
    /\ rpc = "scan" /\ todo = {}
    /\ iterErr' = (iterErr \/ GroupDone)
    /\ rpc' = "after"
    /\ UNCHANGED <<dbVars, since, todo, listedAt, out, faults, sent, missed>>

(* Fault: a scheduled run goes on to the ticker, as a continuous one does. *)
AlwaysTick == "tick"
TickOrReturn == IF mode = "scheduled" THEN "closing" ELSE "tick"

(* saveCheckpoint moves the reader's own checkpoint, then stores it; the   *)
(* store may fail, and does so on a cancelled context.                     *)
SaveCheckpoint ==
    /\ rpc = "after" /\ ~iterErr
    /\ since' = clock
    /\ \/ ~stop /\ checkpoint' = clock /\ Works
       \/ UNCHANGED checkpoint /\ (IF stop THEN Works ELSE Fails)
    /\ rpc' = TickOrReturn
    /\ UNCHANGED <<persisted, processed, todo, listedAt, iterErr, out, sent, missed>>

KeepCheckpoint ==
    /\ rpc = "after" /\ iterErr
    /\ rpc' = TickOrReturn
    /\ UNCHANGED <<dbVars, since, todo, listedAt, iterErr, out, faults, sent, missed>>

Tick ==
    /\ rpc = "tick"
    /\ rpc' = "list"
    /\ UNCHANGED <<dbVars, since, todo, listedAt, iterErr, out, faults, sent, missed>>

Return ==
    /\ rpc = "tick" /\ GroupDone
    /\ rpc' = "closing"
    /\ UNCHANGED <<dbVars, since, todo, listedAt, iterErr, out, faults, sent, missed>>

Reader ==
    /\ \/ List \/ FailRead \/ Abandon \/ FinishIteration
       \/ \E m \in Messages : Skip(m) \/ Send(m)
       \/ SaveCheckpoint \/ KeepCheckpoint \/ Tick \/ Return
    /\ ReaderStep

(* The reader closes out, and waits for the acknowledgements.              *)
OutClosed == rpc = "closing"

-----------------------------------------------------------------------------
(* The sink goroutine.                                                     *)

SinkStep == Running /\ UNCHANGED <<timeVars, runVars, readerVars, boundVars, histVars, checkpoint>>

Full(n) == n >= BatchSize

Receive ==
    /\ spc = "select" /\ out # <<>>
    /\ batch' = Append(batch, Head(out)) /\ out' = Tail(out)
    /\ spc' = IF Full(Len(batch) + 1) THEN "write" ELSE "select"
    /\ UNCHANGED <<persisted, processed, last, sinkErr, ack, faults>>

FlushTick ==
    /\ spc = "select" /\ batch # <<>>
    /\ spc' = "write"
    /\ UNCHANGED <<persisted, processed, batch, last, sinkErr, out, ack, faults>>

(* Fault: the last, incomplete batch is dropped.                           *)
DropLast == "done"
FlushLast == IF batch = <<>> THEN "done" ELSE "write"

SeeClosed ==
    /\ spc = "select" /\ OutClosed /\ out = <<>>
    /\ last' = TRUE /\ spc' = FlushLast
    /\ UNCHANGED <<persisted, processed, batch, sinkErr, out, ack, faults>>

(* The last flush uses the cancelled context: its error is logged, and it  *)
(* stores nothing.                                                         *)
SeeDone ==
    /\ spc = "select" /\ GroupDone
    /\ sinkErr' = TRUE /\ spc' = "done"
    /\ UNCHANGED <<persisted, processed, batch, last, out, ack, faults>>

Contents(s) == {s[i] : i \in DOMAIN s}

(* Fault: a batch that was not written is acknowledged.                    *)
AckAnyway == "ack"
GiveUp == "done"

(* One database transaction; its commit may be lost with the answer.       *)
WriteBatch ==
    /\ spc = "write"
    /\ \/ ~GroupDone /\ persisted' = persisted \cup Contents(batch) /\ Works
          /\ spc' = "ack" /\ UNCHANGED sinkErr
       \/ persisted' \in {persisted, persisted \cup Contents(batch)}
          /\ (IF GroupDone THEN Works ELSE Fails)
          /\ spc' = GiveUp /\ sinkErr' = TRUE
    /\ UNCHANGED <<processed, batch, last, out, ack>>

Acknowledge ==
    /\ spc = "ack" /\ batch # <<>> /\ Len(ack) < AckSize
    /\ ack' = Append(ack, Head(batch)) /\ batch' = Tail(batch)
    /\ UNCHANGED <<persisted, processed, spc, last, sinkErr, out, faults>>

AckAborted ==
    /\ spc = "ack" /\ batch # <<>> /\ GroupDone
    /\ spc' = "done" /\ sinkErr' = TRUE
    /\ UNCHANGED <<persisted, processed, batch, last, out, ack, faults>>

Flushed ==
    /\ spc = "ack" /\ batch = <<>>
    /\ spc' = IF last THEN "done" ELSE "select"
    /\ UNCHANGED <<persisted, processed, batch, last, sinkErr, out, ack, faults>>

Sink ==
    /\ \/ Receive \/ FlushTick \/ SeeClosed \/ SeeDone
       \/ WriteBatch \/ Acknowledge \/ AckAborted \/ Flushed
    /\ SinkStep

-----------------------------------------------------------------------------
(* handleAcknowledgments runs until ack is closed and empty; it does not   *)
(* use the run's context.  A failed mark is only logged.                   *)
Mark ==
    /\ Running /\ ack # <<>>
    /\ ack' = Tail(ack)
    /\ \/ processed' = (IF mode = "rescan" THEN processed ELSE processed \cup {Head(ack)}) /\ Works
       \/ mode # "rescan" /\ UNCHANGED processed /\ Fails
    /\ UNCHANGED <<timeVars, persisted, checkpoint, runVars, readerVars, sinkVars, out, boundVars,
                   histVars>>

-----------------------------------------------------------------------------
Arrive(m) ==
    /\ date[m] = Never
    /\ date' = [date EXCEPT ![m] = clock]
    /\ UNCHANGED <<clock, dbVars, runVars, readerVars, sinkVars, chanVars, faults, boundVars, histVars>>

TimePasses ==
    /\ clock < MaxTime
    /\ rpc \in {"scan", "after"} => clock < listedAt + MaxScan
    /\ clock' = clock + 1
    /\ UNCHANGED <<date, dbVars, runVars, readerVars, sinkVars, chanVars, faults, boundVars, histVars>>

Next ==
    \/ \E k \in Modes : StartRun(k)
    \/ EndRun \/ Cancel \/ Crash \/ ClearCheckpoint
    \/ Reader \/ Sink \/ Mark
    \/ \E m \in Messages : Arrive(m)
    \/ TimePasses

(* Goroutines run and tickers tick.  select picks at random among what is  *)
(* ready: not the ticker for ever when the context is done as well.        *)
Fairness ==
    /\ WF_vars(EndRun)
    /\ WF_vars(Reader) /\ WF_vars(Sink) /\ WF_vars(Mark)
    /\ SF_vars(Return /\ ReaderStep)

Spec == Init /\ [][Next]_vars

FairSpec == Spec /\ Fairness

-----------------------------------------------------------------------------
(* Properties.                                                             *)

(* "Messages are marked as processed only after receiving acknowledgment": *)
(* a message that later scans skip has its transaction in the database,    *)
(* whatever fails, is cancelled or crashes in between.                     *)
ProcessedArePersisted == processed \subseteq persisted

(* A run that returns nil without having been cancelled has stored         *)
(* everything it sent: the last, incomplete batch as well.                 *)
CleanScanPersists ==
    ~Running /\ outcome = "ok" /\ ~stop => sent \subseteq persisted

(* The checkpoint is that of the last successful scan: it never moves past *)
(* mail that the scans could not read.                                     *)
FailedReadsStayVisible ==
    [][\A m \in missed' \ persisted' : Visible(m, checkpoint) => Visible(m, checkpoint)']_vars

InFlight == Contents(out) \cup Contents(batch)

(* A cancelled run ends, and a scheduled one ("RunOnce returns after the    *)
(* first scan iteration") by itself, whatever its goroutines wait for.     *)
RunsEnd ==
    /\ (Running /\ stop) ~> ~Running
    /\ mode = "scheduled" ~> ~Running

(* The margin covers the mail that arrives during a scan: as long as       *)
(* nothing fails and no scan takes longer than the margin, the scans still *)
(* have every message that is not stored, or will list it.                 *)
NoMailSkipped ==
    Margin >= MaxScan /\ faults + cancels + crashes = 0 =>
       \A m \in Messages :
          date[m] # Never =>
             \/ m \in persisted \/ m \in todo \/ m \in InFlight
             \/ Visible(m, checkpoint)

Delivery == INSTANCE MailDelivery WITH
    arrived <- {m \in Messages : date[m] # Never}, stored <- persisted, marked <- processed,
    run <- mode, taken <- sent, result <- outcome

(* The two channels, the batch, and everything that interrupts a run are   *)
(* invisible from the mailbox and the database: "messages are marked as    *)
(* processed only after receiving acknowledgment" that what this run sent  *)
(* is stored, and a run reports success only when all it sent is.          *)
ImplementsDelivery == Delivery!Spec
=============================================================================
