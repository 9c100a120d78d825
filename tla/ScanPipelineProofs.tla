-------------------------- MODULE ScanPipelineProofs --------------------------
(***************************************************************************)
(* Theorems about the scan pipeline, for any set of messages, any sizes of *)
(* the channels and of the batch, any margin, and any number of failures,  *)
(* cancellations and crashes.                                              *)
(***************************************************************************)
EXTENDS ScanPipeline, TLAPS

(* The sink selects only while its batch has room.                         *)
BatchHasRoom == spc = "select" => Len(batch) < BatchSize

TypeInv == TypeOK /\ BatchHasRoom

(* What is marked, waits to be marked, or is being acknowledged is stored. *)
Stored ==
    /\ processed \subseteq persisted
    /\ Contents(ack) \subseteq persisted
    /\ spc = "ack" => Contents(batch) \subseteq persisted

(* The sink ends without error only when nothing can follow.               *)
SinkView ==
    /\ last => OutClosed /\ out = <<>>
    /\ spc = "done" /\ ~sinkErr => last /\ batch = <<>>

(* Until the sink fails, what was sent is stored or in flight; a run that  *)
(* ended well has stored it.                                               *)
SentView ==
    /\ Running /\ ~sinkErr => sent \subseteq persisted \cup InFlight
    /\ ~Running /\ outcome = "ok" => sent \subseteq persisted

FlowInv == Stored /\ SinkView /\ SentView

(* Nothing has failed, and nothing was cancelled.                          *)
Calm == faults = 0 /\ cancels = 0 /\ crashes = 0

Listed == rpc \in {"scan", "after"}

(* The checkpoints lie in the past, and a scan takes at most MaxScan.      *)
ClockInv ==
    /\ checkpoint <= clock /\ since <= clock
    /\ Listed => listedAt <= clock /\ clock <= listedAt + MaxScan

(* A calm run has no errors, and only its scan has messages to read.       *)
CalmRun ==
    /\ rpc # "scan" => todo = {}
    /\ Calm => ~stop /\ ~sinkErr /\ ~iterErr

Handled(m) == m \in persisted \/ m \in todo \/ m \in InFlight

(* What will list a message that is not handled: the next run, the next    *)
(* iteration of this one, and the checkpoint this iteration will save.     *)
Awaited(m) ==
    /\ Visible(m, checkpoint)
    /\ Running /\ rpc \in {"list", "tick"} => Visible(m, since)
    /\ Listed => date[m] >= listedAt

MailView == Calm => \A m \in Messages : date[m] # Never => Handled(m) \/ Awaited(m)

MailInv == ClockInv /\ CalmRun /\ MailView

USE DEF timeVars, dbVars, runVars, readerVars, sinkVars, chanVars, boundVars, histVars, Never

-----------------------------------------------------------------------------
(* Sequences of messages.                                                  *)

LEMMA AppendContents ==
    ASSUME NEW s \in Seq(Messages), NEW m \in Messages
    PROVE  /\ Append(s, m) \in Seq(Messages)
           /\ Len(Append(s, m)) = Len(s) + 1
           /\ Contents(Append(s, m)) = Contents(s) \cup {m}
<1> DEFINE a == Append(s, m)
<1>1. /\ a \in Seq(Messages) /\ Len(s) \in Nat /\ Len(a) = Len(s) + 1
      /\ a[Len(s) + 1] = m /\ \A i \in 1 .. Len(s) : a[i] = s[i]
      /\ DOMAIN a = 1 .. Len(s) + 1 /\ DOMAIN s = 1 .. Len(s)
  OBVIOUS
<1> HIDE DEF a
<1>2. \A i \in 1 .. Len(s) + 1 : i \in 1 .. Len(s) \/ i = Len(s) + 1
  BY <1>1
<1>3. Contents(a) \subseteq Contents(s) \cup {m}
  BY <1>1, <1>2 DEF Contents
<1>4. Contents(s) \subseteq Contents(a)
  BY <1>1 DEF Contents
<1>5. m \in Contents(a)
  BY <1>1 DEF Contents
<1> QED
  BY <1>1, <1>3, <1>4, <1>5 DEF a

LEMMA HeadTailContents ==
    ASSUME NEW s \in Seq(Messages), s # <<>>
    PROVE  /\ Head(s) \in Messages /\ Tail(s) \in Seq(Messages)
           /\ Len(Tail(s)) = Len(s) - 1 /\ Len(s) \in Nat
           /\ Contents(s) = {Head(s)} \cup Contents(Tail(s))
<1>1. /\ Head(s) = s[1] /\ Tail(s) \in Seq(Messages) /\ Len(s) \in Nat \ {0}
      /\ Len(Tail(s)) = Len(s) - 1 /\ Head(s) \in Messages
      /\ \A i \in 1 .. Len(s) - 1 : Tail(s)[i] = s[i + 1]
  OBVIOUS
<1>2. DOMAIN s = 1 .. Len(s) /\ DOMAIN Tail(s) = 1 .. Len(s) - 1
  BY <1>1
<1>3. ASSUME NEW x \in Contents(s) PROVE x \in {Head(s)} \cup Contents(Tail(s))
  <2>1. PICK i \in 1 .. Len(s) : x = s[i]
    BY <1>2, <1>3 DEF Contents
  <2>2. CASE i = 1
    BY <1>1, <2>1, <2>2
  <2>3. CASE i # 1
    <3>1. i - 1 \in 1 .. Len(s) - 1 /\ (i - 1) + 1 = i
      BY <1>1, <2>1, <2>3
    <3>2. Tail(s)[i - 1] = x
      BY <1>1, <2>1, <3>1
    <3> QED
      BY <1>2, <3>1, <3>2 DEF Contents
  <2> QED
    BY <2>2, <2>3
<1>4. ASSUME NEW x \in {Head(s)} \cup Contents(Tail(s)) PROVE x \in Contents(s)
  <2>1. CASE x = Head(s)
    BY <1>1, <1>2, <2>1 DEF Contents
  <2>2. CASE x \in Contents(Tail(s))
    <3>1. PICK i \in 1 .. Len(s) - 1 : x = Tail(s)[i]
      BY <1>2, <2>2 DEF Contents
    <3>2. x = s[i + 1] /\ i + 1 \in 1 .. Len(s)
      BY <1>1, <3>1
    <3> QED
      BY <1>2, <3>2 DEF Contents
  <2> QED
    BY <1>4, <2>1, <2>2
<1> QED
  BY <1>1, <1>3, <1>4

LEMMA EmptyContents == Contents(<<>>) = {} /\ <<>> \in Seq(Messages) /\ Len(<<>>) = 0
BY DEF Contents

-----------------------------------------------------------------------------
(* Types.                                                                  *)

LEMMA InitType == Init => TypeInv
<1> SUFFICES ASSUME Init PROVE TypeInv
  OBVIOUS
<1>1. /\ batch = <<>> /\ out = <<>> /\ ack = <<>> /\ spc = "select"
      /\ clock \in 0 .. MaxTime /\ date \in [Messages -> -1 .. MaxTime]
      /\ checkpoint \in -1 .. MaxTime /\ since \in -1 .. MaxTime /\ listedAt \in 0 .. MaxTime
  BY BoundAssumption DEF Init
<1>2. /\ mode \in Modes \cup {"idle"} /\ outcome \in {"none", "ok", "failed"}
      /\ rpc \in {"list", "scan", "after", "tick", "closing"}
      /\ spc \in {"select", "write", "ack", "done"}
  BY DEF Init
<1>3. stop \in BOOLEAN /\ iterErr \in BOOLEAN /\ last \in BOOLEAN /\ sinkErr \in BOOLEAN
  BY DEF Init
<1>4. /\ persisted \subseteq Messages /\ processed \subseteq Messages /\ todo \subseteq Messages
      /\ sent \subseteq Messages /\ missed \subseteq Messages
      /\ {faults, cancels, crashes, clears} \subseteq Nat
  BY DEF Init
<1>5. {QueueSize, AckSize, BatchSize} \subseteq Nat \ {0}
  BY SizeAssumption
<1>6. Len(<<>>) = 0 /\ <<>> \in Seq(Messages)
  OBVIOUS
<1>7. BatchHasRoom
  BY <1>1, <1>5, <1>6 DEF BatchHasRoom
<1> QED
  BY <1>1, <1>2, <1>3, <1>4, <1>5, <1>6, <1>7 DEF TypeInv, TypeOK

LEMMA QuietType ==
    ASSUME Quiet
    PROVE  /\ mode' = "idle" /\ since' \in -1 .. MaxTime /\ rpc' = "list" /\ todo' = {}
           /\ listedAt' \in 0 .. MaxTime /\ iterErr' \in BOOLEAN /\ spc' = "select"
           /\ last' \in BOOLEAN /\ sinkErr' \in BOOLEAN
           /\ batch' \in Seq(Messages) /\ Len(batch') < BatchSize /\ Len(batch') <= BatchSize
           /\ out' \in Seq(Messages) /\ Len(out') <= QueueSize
           /\ ack' \in Seq(Messages) /\ Len(ack') <= AckSize
<1>1. MaxTime \in Nat /\ QueueSize \in Nat \ {0} /\ AckSize \in Nat \ {0} /\ BatchSize \in Nat \ {0}
  BY BoundAssumption, SizeAssumption
<1>2. batch' = <<>> /\ out' = <<>> /\ ack' = <<>>
  BY DEF Quiet
<1>3. iterErr' \in BOOLEAN /\ last' \in BOOLEAN /\ sinkErr' \in BOOLEAN
  BY DEF Quiet
<1>4. since' \in -1 .. MaxTime /\ listedAt' \in 0 .. MaxTime
  BY <1>1 DEF Quiet
<1>5. mode' = "idle" /\ rpc' = "list" /\ todo' = {} /\ spc' = "select"
  BY DEF Quiet
<1> QED
  BY <1>1, <1>2, <1>3, <1>4, <1>5, EmptyContents

LEMMA ReaderType ==
    ASSUME TypeInv, Reader
    PROVE  TypeInv'
<1>0. /\ clock \in 0 .. MaxTime /\ checkpoint \in -1 .. MaxTime /\ since \in -1 .. MaxTime
      /\ out \in Seq(Messages) /\ Len(out) <= QueueSize /\ QueueSize \in Nat
      /\ todo \subseteq Messages /\ sent \subseteq Messages /\ missed \subseteq Messages
      /\ faults \in Nat /\ listedAt \in 0 .. MaxTime /\ iterErr \in BOOLEAN
      /\ rpc \in {"list", "scan", "after", "tick", "closing"} /\ stop \in BOOLEAN
  BY SizeAssumption DEF TypeInv, TypeOK
<1> USE DEF List, Skip, Send, FailRead, Abandon, FinishIteration, SaveCheckpoint, KeepCheckpoint,
            Tick, Return, Works, Fails
<1>1. ReaderStep
  BY DEF Reader
<1>2. /\ UNCHANGED <<persisted, processed>>
      /\ checkpoint' \in -1 .. MaxTime /\ since' \in -1 .. MaxTime /\ listedAt' \in 0 .. MaxTime
  BY <1>0 DEF Reader
<1>3. todo' \subseteq Messages /\ sent' \subseteq Messages /\ missed' \subseteq Messages
  BY <1>0 DEF Reader
<1>4. out' \in Seq(Messages) /\ Len(out') <= QueueSize
  BY <1>0, AppendContents DEF Reader
<1>5. rpc' \in {"list", "scan", "after", "tick", "closing"}
  BY <1>0 DEF Reader, TickOrReturn
<1>6. faults' \in Nat
  BY <1>0 DEF Reader
<1>7. iterErr' \in BOOLEAN
  BY <1>0 DEF Reader, GroupDone, FailsIteration
<1> QED
  BY <1>1, <1>2, <1>3, <1>4, <1>5, <1>6, <1>7 DEF TypeInv, TypeOK, BatchHasRoom, ReaderStep

LEMMA SinkType ==
    ASSUME TypeInv, Sink
    PROVE  TypeInv'
<1>0. /\ batch \in Seq(Messages) /\ out \in Seq(Messages) /\ ack \in Seq(Messages)
      /\ Len(batch) <= BatchSize /\ Len(out) <= QueueSize /\ Len(ack) <= AckSize
      /\ BatchSize \in Nat \ {0} /\ QueueSize \in Nat /\ AckSize \in Nat
      /\ persisted \subseteq Messages /\ Contents(batch) \subseteq Messages
      /\ faults \in Nat /\ last \in BOOLEAN /\ sinkErr \in BOOLEAN
      /\ spc = "select" => Len(batch) < BatchSize
  <2>1. batch \in Seq(Messages) /\ out \in Seq(Messages) /\ ack \in Seq(Messages)
    BY DEF TypeInv, TypeOK
  <2>2. Len(batch) <= BatchSize /\ Len(out) <= QueueSize /\ Len(ack) <= AckSize
    BY DEF TypeInv, TypeOK
  <2>3. BatchSize \in Nat \ {0} /\ QueueSize \in Nat /\ AckSize \in Nat
    BY SizeAssumption
  <2>4. Contents(batch) \subseteq Messages
    BY <2>1 DEF Contents
  <2>5. persisted \subseteq Messages /\ last \in BOOLEAN /\ sinkErr \in BOOLEAN
    BY DEF TypeInv, TypeOK
  <2>6. faults \in Nat
    BY DEF TypeInv, TypeOK
  <2>7. spc = "select" => Len(batch) < BatchSize
    BY DEF TypeInv, BatchHasRoom
  <2> QED
    BY <2>1, <2>2, <2>3, <2>4, <2>5, <2>6, <2>7
<1> USE DEF Receive, FlushTick, SeeClosed, SeeDone, WriteBatch, Acknowledge, AckAborted, Flushed,
            Works, Fails
<1>1. SinkStep /\ UNCHANGED processed
  BY DEF Sink
<1>2. out' \in Seq(Messages) /\ Len(out') <= QueueSize
  <2>1. CASE out' = out
    BY <1>0, <2>1
  <2>2. CASE out # <<>> /\ out' = Tail(out)
    <3>1. Tail(out) \in Seq(Messages) /\ Len(Tail(out)) = Len(out) - 1 /\ Len(out) \in Nat
      BY <1>0, <2>2, HeadTailContents
    <3> QED
      BY <1>0, <2>2, <3>1
  <2> QED
    BY <2>1, <2>2 DEF Sink
<1>3. ack' \in Seq(Messages) /\ Len(ack') <= AckSize
  <2>1. CASE ack' = ack
    BY <1>0, <2>1
  <2>2. CASE batch # <<>> /\ Len(ack) < AckSize /\ ack' = Append(ack, Head(batch))
    <3>1. Len(Append(ack, Head(batch))) = Len(ack) + 1 /\ Append(ack, Head(batch)) \in Seq(Messages)
      BY <1>0, <2>2, HeadTailContents, AppendContents
    <3>2. Len(ack) \in Nat
      BY <1>0
    <3> QED
      BY <1>0, <2>2, <3>1, <3>2
  <2> QED
    BY <2>1, <2>2 DEF Sink
<1>4. /\ batch' \in Seq(Messages) /\ Len(batch') <= BatchSize
      /\ spc' = "select" => Len(batch') < BatchSize
  <2>1. CASE UNCHANGED batch /\ spc' # "select"
    BY <1>0, <2>1
  <2>2. CASE Receive
    <3>1. /\ Append(batch, Head(out)) \in Seq(Messages) /\ Len(batch) \in Nat
          /\ Len(Append(batch, Head(out))) = Len(batch) + 1
      BY <1>0, <2>2, HeadTailContents, AppendContents
    <3> QED
      BY <1>0, <2>2, <3>1 DEF Full
  <2>3. CASE Acknowledge
    <3>1. Tail(batch) \in Seq(Messages) /\ Len(Tail(batch)) = Len(batch) - 1 /\ Len(batch) \in Nat
      BY <1>0, <2>3, HeadTailContents
    <3> QED
      BY <1>0, <2>3, <3>1
  <2>4. CASE Flushed
    BY <1>0, <2>4, EmptyContents
  <2> QED
    BY <2>1, <2>2, <2>3, <2>4 DEF Sink, FlushLast, GiveUp
<1>5. spc' \in {"select", "write", "ack", "done"}
  BY DEF Sink, FlushLast, GiveUp
<1>6. persisted' \subseteq Messages
  BY <1>0 DEF Sink
<1>7. faults' \in Nat
  BY <1>0 DEF Sink
<1>8. last' \in BOOLEAN /\ sinkErr' \in BOOLEAN
  <2>1. last' = last \/ last' = TRUE
    BY DEF Sink
  <2>2. sinkErr' = sinkErr \/ sinkErr' = TRUE
    BY DEF Sink
  <2> QED
    BY <1>0, <2>1, <2>2
<1> QED
  BY <1>1, <1>2, <1>3, <1>4, <1>5, <1>6, <1>7, <1>8 DEF TypeInv, TypeOK, BatchHasRoom, SinkStep

LEMMA StepType == TypeInv /\ [Next]_vars => TypeInv'
<1> SUFFICES ASSUME TypeInv, [Next]_vars PROVE TypeInv'
  OBVIOUS
<1> USE DEF TypeInv, TypeOK, BatchHasRoom
<1>1. ASSUME NEW k \in Modes, StartRun(k) PROVE TypeInv'
  <2>1. since' \in -1 .. MaxTime
    BY <1>1, BoundAssumption DEF StartRun
  <2>2. stop' \in BOOLEAN
    BY <1>1 DEF StartRun
  <2> QED
    BY <1>1, <2>1, <2>2 DEF StartRun
<1>2. CASE EndRun \/ Crash
  <2>1. Quiet
    BY <1>2 DEF EndRun, Crash
  <2>2. outcome' \in {"none", "ok", "failed"}
    BY <1>2 DEF EndRun, Crash
  <2>3. crashes' \in Nat
    BY <1>2 DEF EndRun, Crash
  <2>4. stop' \in BOOLEAN
    BY <1>2 DEF EndRun, Crash
  <2>5. UNCHANGED <<timeVars, dbVars, faults, cancels, clears, histVars>>
    BY <1>2 DEF EndRun, Crash
  <2> QED
    BY <2>1, <2>2, <2>3, <2>4, <2>5, QuietType
<1>3. CASE Cancel
  BY <1>3 DEF Cancel
<1>4. CASE ClearCheckpoint
  <2>1. checkpoint' \in -1 .. MaxTime
    BY <1>4, BoundAssumption DEF ClearCheckpoint
  <2>2. clears' \in Nat
    BY <1>4 DEF ClearCheckpoint
  <2> QED
    BY <1>4, <2>1, <2>2 DEF ClearCheckpoint
<1>5. CASE Mark
  <2>1. /\ Head(ack) \in Messages /\ Tail(ack) \in Seq(Messages)
        /\ Len(Tail(ack)) = Len(ack) - 1 /\ Len(ack) \in Nat
    BY <1>5, HeadTailContents DEF Mark
  <2>2. ack' \in Seq(Messages) /\ Len(ack') <= AckSize
    BY <1>5, <2>1, SizeAssumption DEF Mark
  <2>3. processed' \subseteq Messages
    BY <1>5, <2>1 DEF Mark
  <2>4. faults' \in Nat
    BY <1>5 DEF Mark, Works, Fails
  <2> QED
    BY <1>5, <2>2, <2>3, <2>4 DEF Mark
<1>6. ASSUME NEW m \in Messages, Arrive(m) PROVE TypeInv'
  <2>1. date' \in [Messages -> -1 .. MaxTime]
    BY <1>6 DEF Arrive
  <2> QED
    BY <1>6, <2>1 DEF Arrive
<1>7. CASE TimePasses
  <2>1. clock' \in 0 .. MaxTime
    BY <1>7, BoundAssumption DEF TimePasses
  <2> QED
    BY <1>7, <2>1 DEF TimePasses
<1>8. CASE UNCHANGED vars
  BY <1>8 DEF vars
<1> QED
  BY <1>1, <1>2, <1>3, <1>4, <1>5, <1>6, <1>7, <1>8, ReaderType, SinkType DEF Next

(* The pipeline keeps its types: no channel ever holds more than its       *)
(* capacity, and no batch more transactions than its size.                 *)
THEOREM TypeCorrect == Spec => []TypeOK
<1>1. Spec => []TypeInv
  BY InitType, StepType, PTL DEF Spec
<1>2. TypeInv => TypeOK
  BY DEF TypeInv
<1> QED
  BY <1>1, <1>2, PTL

-----------------------------------------------------------------------------
(* Where the messages are.                                                 *)

LEMMA InitFlow == Init => FlowInv
BY EmptyContents DEF Init, FlowInv, Stored, SinkView, SentView, Running

LEMMA ReaderFlow ==
    ASSUME TypeInv, FlowInv, Reader
    PROVE  FlowInv'
<1> USE DEF List, Skip, Send, FailRead, Abandon, FinishIteration, SaveCheckpoint, KeepCheckpoint,
            Tick, Return
<1>1. ReaderStep /\ UNCHANGED <<persisted, processed>>
  BY DEF Reader
<1>2. Stored'
  BY <1>1 DEF ReaderStep, FlowInv, Stored
<1>3. SinkView'
  <2>1. rpc # "closing"
    BY DEF Reader
  <2> QED
    BY <1>1, <2>1 DEF ReaderStep, FlowInv, SinkView, OutClosed
<1>4. SentView'
  <2>1. CASE UNCHANGED <<out, sent>>
    BY <1>1, <2>1 DEF ReaderStep, FlowInv, SentView, InFlight, Running
  <2>2. ASSUME NEW m \in Messages, Send(m)
        PROVE  SentView'
    <3>1. Contents(out') = Contents(out) \cup {m} /\ sent' = sent \cup {m}
      BY <2>2, AppendContents DEF TypeInv, TypeOK
    <3> QED
      BY <1>1, <3>1 DEF ReaderStep, FlowInv, SentView, InFlight, Running
  <2> QED
    BY <2>1, <2>2 DEF Reader
<1> QED
  BY <1>2, <1>3, <1>4 DEF FlowInv

LEMMA SinkFlow ==
    ASSUME TypeInv, FlowInv, Sink
    PROVE  FlowInv'
<1> USE DEF FlowInv, Stored, SinkView, SentView, InFlight, OutClosed, Running
<1>0. /\ batch \in Seq(Messages) /\ out \in Seq(Messages) /\ ack \in Seq(Messages)
      /\ Contents(<<>>) = {}
  BY EmptyContents DEF TypeInv, TypeOK
<1>1. SinkStep
  BY DEF Sink
<1>2. UNCHANGED <<mode, rpc, sent, outcome>> /\ mode # "idle"
  BY <1>1 DEF SinkStep
<1>3. CASE Receive
  <2>1. /\ Head(out) \in Messages /\ Contents(out) = {Head(out)} \cup Contents(Tail(out))
    BY <1>0, <1>3, HeadTailContents DEF Receive
  <2>2. Contents(batch') = Contents(batch) \cup {Head(out)} /\ out' = Tail(out)
    BY <1>0, <1>3, <2>1, AppendContents DEF Receive
  <2> QED
    BY <1>2, <1>3, <2>1, <2>2 DEF Receive
<1>4. CASE FlushTick
  BY <1>2, <1>4 DEF FlushTick
<1>5. CASE SeeClosed
  BY <1>2, <1>5 DEF SeeClosed, FlushLast
<1>6. CASE SeeDone
  BY <1>2, <1>6 DEF SeeDone
<1>7. CASE WriteBatch
  BY <1>2, <1>7 DEF WriteBatch, GiveUp
<1>8. CASE Acknowledge
  <2>1. /\ Head(batch) \in Messages /\ Contents(batch) = {Head(batch)} \cup Contents(batch')
    BY <1>0, <1>8, HeadTailContents DEF Acknowledge
  <2>2. Contents(ack') = Contents(ack) \cup {Head(batch)}
    BY <1>0, <1>8, <2>1, AppendContents DEF Acknowledge
  <2> QED
    BY <1>2, <1>8, <2>1, <2>2 DEF Acknowledge
<1>9. CASE AckAborted
  BY <1>2, <1>9 DEF AckAborted
<1>10. CASE Flushed
  BY <1>2, <1>10 DEF Flushed
<1> QED
  BY <1>3, <1>4, <1>5, <1>6, <1>7, <1>8, <1>9, <1>10 DEF Sink

LEMMA StepFlow == TypeInv /\ FlowInv /\ [Next]_vars => FlowInv'
<1> SUFFICES ASSUME TypeInv, FlowInv, [Next]_vars PROVE FlowInv'
  OBVIOUS
<1> USE DEF FlowInv, Stored, SinkView, SentView, InFlight, OutClosed, Running
<1>1. ASSUME NEW k \in Modes, StartRun(k) PROVE FlowInv'
  BY <1>1 DEF StartRun
<1>2. CASE EndRun
  <2>1. outcome' = "ok" => sent \subseteq persisted
    BY <1>2, EmptyContents DEF EndRun
  <2> QED
    BY <1>2, <2>1, EmptyContents DEF EndRun, Quiet
<1>3. CASE Crash
  BY <1>3, EmptyContents DEF Crash, Quiet
<1>4. CASE Mark
  <2>1. Contents(ack) = {Head(ack)} \cup Contents(Tail(ack))
    BY <1>4, HeadTailContents DEF Mark, TypeInv, TypeOK
  <2> QED
    BY <1>4, <2>1 DEF Mark
<1>5. CASE UNCHANGED <<persisted, processed, mode, outcome, rpc, sinkVars, chanVars, sent>>
  BY <1>5
<1>6. Cancel \/ ClearCheckpoint \/ (\E m \in Messages : Arrive(m)) \/ TimePasses \/ UNCHANGED vars
         => UNCHANGED <<persisted, processed, mode, outcome, rpc, sinkVars, chanVars, sent>>
  BY DEF Cancel, ClearCheckpoint, Arrive, TimePasses, vars
<1> QED
  BY <1>1, <1>2, <1>3, <1>4, <1>5, <1>6, ReaderFlow, SinkFlow DEF Next

LEMMA Invariant == Spec => [](TypeInv /\ FlowInv)
BY InitType, InitFlow, StepType, StepFlow, PTL DEF Spec

(* Deduplication never hides a message that is not in the database: a mark *)
(* follows the commit through the sink's batch and the ack channel.        *)
THEOREM MarkedIsStored == Spec => []ProcessedArePersisted
<1>1. TypeInv /\ FlowInv => ProcessedArePersisted
  BY DEF FlowInv, Stored, ProcessedArePersisted
<1> QED
  BY <1>1, Invariant, PTL

(* A run that returns nil without being cancelled has stored all it sent.  *)
THEOREM CleanScanStores == Spec => []CleanScanPersists
<1>1. TypeInv /\ FlowInv => CleanScanPersists
  BY DEF FlowInv, SentView, CleanScanPersists
<1> QED
  BY <1>1, Invariant, PTL
-----------------------------------------------------------------------------
(* Mail that arrives during a scan.                                        *)

LEMMA Times ==
    ASSUME TypeInv
    PROVE  /\ clock \in Nat /\ clock \in Int /\ listedAt \in Int /\ checkpoint \in Int /\ since \in Int
           /\ checkpoint >= -1 /\ since >= -1 /\ clock >= 0
           /\ Margin \in Nat /\ MaxScan \in Nat /\ MaxTime \in Nat
           /\ faults \in Nat /\ cancels \in Nat /\ crashes \in Nat
           /\ \A m \in Messages : date[m] \in Int /\ date[m] >= -1
<1>1. Margin \in Nat /\ MaxScan \in Nat /\ MaxTime \in Nat
  BY BoundAssumption
<1>2. clock \in 0 .. MaxTime /\ listedAt \in 0 .. MaxTime
  BY DEF TypeInv, TypeOK
<1>3. checkpoint \in -1 .. MaxTime /\ since \in -1 .. MaxTime
  BY DEF TypeInv, TypeOK
<1>4. \A m \in Messages : date[m] \in -1 .. MaxTime
  BY DEF TypeInv, TypeOK
<1>5. faults \in Nat /\ cancels \in Nat /\ crashes \in Nat
  BY DEF TypeInv, TypeOK
<1> QED
  BY <1>1, <1>2, <1>3, <1>4, <1>5

LEMMA InitClock == Init => ClockInv
<1> SUFFICES ASSUME Init PROVE ClockInv
  OBVIOUS
<1> QED
  BY DEF Init, ClockInv, Listed

LEMMA InitMail == Init => MailInv
<1>1. Init => CalmRun /\ MailView
  BY DEF Init, CalmRun, MailView
<1> QED
  BY <1>1, InitClock DEF MailInv

LEMMA StepClock == TypeInv /\ ClockInv /\ [Next]_vars => ClockInv'
<1> SUFFICES ASSUME TypeInv, ClockInv, [Next]_vars PROVE ClockInv'
  OBVIOUS
<1> USE Times DEF ClockInv, Listed
<1>1. CASE Reader
  <2>1. UNCHANGED clock
    BY <1>1 DEF Reader, ReaderStep
  <2>2. CASE List
    BY <2>1, <2>2 DEF List
  <2>3. CASE SaveCheckpoint
    <3>1. since' = clock /\ rpc' \notin {"scan", "after"} /\ checkpoint' \in {clock, checkpoint}
      BY <2>3 DEF SaveCheckpoint, TickOrReturn
    <3> QED
      BY <2>1, <3>1
  <2>4. CASE UNCHANGED <<checkpoint, since, listedAt>> /\ (rpc' \in {"scan", "after"} => rpc = "scan")
    BY <2>1, <2>4
  <2> QED
    BY <1>1, <2>2, <2>3, <2>4
    DEF Reader, FailRead, Abandon, FinishIteration, Skip, Send, KeepCheckpoint, Tick, Return,
        TickOrReturn
<1>2. ASSUME NEW k \in Modes, StartRun(k) PROVE ClockInv'
  BY <1>2 DEF StartRun
<1>3. CASE EndRun \/ Crash
  <2>1. since' = -1 /\ rpc' = "list" /\ UNCHANGED <<clock, checkpoint>>
    BY <1>3 DEF EndRun, Crash, Quiet
  <2> QED
    BY <2>1
<1>4. CASE ClearCheckpoint
  <2>1. checkpoint' = -1 /\ UNCHANGED <<clock, since, rpc, listedAt>>
    BY <1>4 DEF ClearCheckpoint
  <2> QED
    BY <2>1
<1>5. CASE TimePasses
  <2>1. /\ clock' = clock + 1 /\ UNCHANGED <<checkpoint, since, rpc, listedAt>>
        /\ rpc \in {"scan", "after"} => clock < listedAt + MaxScan
    BY <1>5 DEF TimePasses
  <2> QED
    BY <2>1
<1>6. CASE UNCHANGED <<clock, checkpoint, since, rpc, listedAt>>
  BY <1>6
<1>7. Cancel \/ Sink \/ Mark \/ (\E m \in Messages : Arrive(m)) \/ UNCHANGED vars
         => UNCHANGED <<clock, checkpoint, since, rpc, listedAt>>
  BY DEF Cancel, Sink, SinkStep, Mark, Arrive, vars
<1> QED
  BY <1>1, <1>2, <1>3, <1>4, <1>5, <1>6, <1>7 DEF Next

(* Failures, cancellations and crashes are counted, and never forgotten.   *)
LEMMA CalmBefore ==
    ASSUME TypeInv, [Next]_vars, Calm'
    PROVE  Calm /\ UNCHANGED <<faults, cancels, crashes>>
<1> USE Times DEF Calm, Works, Fails
<1>1. CASE Reader
  <2>1. UNCHANGED <<cancels, crashes>>
    BY <1>1 DEF Reader, ReaderStep
  <2>2. faults' = faults \/ faults' = faults + 1
    BY <1>1 DEF Reader, List, Skip, Send, FailRead, Abandon, FinishIteration, SaveCheckpoint,
                KeepCheckpoint, Tick, Return
  <2> QED
    BY <2>1, <2>2
<1>2. CASE Sink
  <2>1. UNCHANGED <<cancels, crashes>>
    BY <1>2 DEF Sink, SinkStep
  <2>2. faults' = faults \/ faults' = faults + 1
    BY <1>2 DEF Sink, Receive, FlushTick, SeeClosed, SeeDone, WriteBatch, Acknowledge,
                AckAborted, Flushed
  <2> QED
    BY <2>1, <2>2
<1>3. CASE Mark
  <2>1. UNCHANGED <<cancels, crashes>> /\ (faults' = faults \/ faults' = faults + 1)
    BY <1>3 DEF Mark
  <2> QED
    BY <2>1
<1>4. CASE Cancel \/ Crash
  BY <1>4 DEF Cancel, Crash
<1>5. CASE UNCHANGED <<faults, cancels, crashes>>
  BY <1>5
<1>6. (\E k \in Modes : StartRun(k)) \/ EndRun \/ ClearCheckpoint \/ (\E m \in Messages : Arrive(m))
         \/ TimePasses \/ UNCHANGED vars => UNCHANGED <<faults, cancels, crashes>>
  BY DEF StartRun, EndRun, ClearCheckpoint, Arrive, TimePasses, vars
<1> QED
  BY <1>1, <1>2, <1>3, <1>4, <1>5, <1>6 DEF Next

LEMMA StepCalm == TypeInv /\ CalmRun /\ [Next]_vars => CalmRun'
<1> SUFFICES ASSUME TypeInv, CalmRun, [Next]_vars PROVE CalmRun'
  OBVIOUS
<1> USE DEF CalmRun
<1>1. Calm' => Calm /\ UNCHANGED <<faults, cancels, crashes>>
  BY CalmBefore
<1>2. (rpc # "scan" => todo = {})'
  <2>1. CASE Reader
    BY <2>1 DEF Reader, List, Skip, Send, FailRead, Abandon, FinishIteration, SaveCheckpoint,
                KeepCheckpoint, Tick, Return, TickOrReturn
  <2>2. CASE EndRun \/ Crash
    BY <2>2 DEF EndRun, Crash, Quiet
  <2>3. CASE UNCHANGED <<rpc, todo>>
    BY <2>3
  <2>4. (\E k \in Modes : StartRun(k)) \/ Cancel \/ ClearCheckpoint \/ Sink \/ Mark
           \/ (\E m \in Messages : Arrive(m)) \/ TimePasses \/ UNCHANGED vars
           => UNCHANGED <<rpc, todo>>
    BY DEF StartRun, Cancel, ClearCheckpoint, Sink, SinkStep, Mark, Arrive, TimePasses, vars
  <2> QED
    BY <2>1, <2>2, <2>3, <2>4 DEF Next
<1>3. ASSUME Calm' PROVE ~stop' /\ ~sinkErr' /\ ~iterErr'
  <2>0. ~stop /\ ~sinkErr /\ ~iterErr /\ ~GroupDone /\ UNCHANGED <<faults, cancels, crashes>>
    BY <1>1, <1>3 DEF GroupDone
  <2>1. ~Fails /\ ~Cancel
    BY <2>0, Times DEF Fails, Cancel
  <2>2. CASE Reader
    <3>1. UNCHANGED <<stop, sinkErr>>
      BY <2>2 DEF Reader, ReaderStep
    <3>2. ~iterErr'
      BY <2>0, <2>1, <2>2
      DEF Reader, List, Skip, Send, FailRead, Abandon, FinishIteration, SaveCheckpoint,
          KeepCheckpoint, Tick, Return, SeesDone
    <3> QED
      BY <2>0, <3>1, <3>2
  <2>3. CASE Sink
    <3>1. UNCHANGED <<stop, iterErr>>
      BY <2>3 DEF Sink, SinkStep
    <3>2. ~sinkErr'
      BY <2>0, <2>1, <2>3
      DEF Sink, Receive, FlushTick, SeeClosed, SeeDone, WriteBatch, Acknowledge, AckAborted,
          Flushed
    <3> QED
      BY <2>0, <3>1, <3>2
  <2>4. CASE (\E k \in Modes : StartRun(k)) \/ EndRun \/ Crash
    BY <2>0, <2>4 DEF StartRun, EndRun, Crash, Quiet
  <2>5. CASE UNCHANGED <<stop, sinkErr, iterErr>>
    BY <2>0, <2>5
  <2>6. ClearCheckpoint \/ Mark \/ (\E m \in Messages : Arrive(m)) \/ TimePasses \/ UNCHANGED vars
           => UNCHANGED <<stop, sinkErr, iterErr>>
    BY DEF ClearCheckpoint, Mark, Arrive, TimePasses, vars
  <2> QED
    BY <2>1, <2>2, <2>3, <2>4, <2>5, <2>6 DEF Next
<1> QED
  BY <1>2, <1>3

(* A message stays handled; what the scan reads, it sends or has stored.   *)
LEMMA StaysHandled ==
    ASSUME TypeInv, FlowInv, CalmRun, [Next]_vars, Calm', NEW m \in Messages, Handled(m)
    PROVE  Handled(m)'
<1> USE DEF Handled, InFlight
<1>0. /\ ~stop /\ ~sinkErr /\ ~GroupDone /\ UNCHANGED <<faults, cancels, crashes>>
      /\ out \in Seq(Messages) /\ batch \in Seq(Messages) /\ (rpc # "scan" => todo = {})
  BY CalmBefore DEF CalmRun, GroupDone, TypeInv, TypeOK
<1>1. ~Fails /\ ~Cancel /\ ~Crash
  BY <1>0, Times DEF Fails, Cancel, Crash
<1>2. CASE Reader
  <2>1. UNCHANGED <<persisted, batch>>
    BY <1>2 DEF Reader, ReaderStep, List, Skip, Send, FailRead, Abandon, FinishIteration,
                SaveCheckpoint, KeepCheckpoint, Tick, Return
  <2>2. ASSUME NEW x \in Messages, Send(x) PROVE Handled(m)'
    <3>1. Contents(out') = Contents(out) \cup {x} /\ todo' = todo \ {x}
      BY <1>0, <2>2, AppendContents DEF Send
    <3> QED
      BY <2>1, <3>1
  <2>3. ASSUME NEW x \in Messages, Skip(x) PROVE Handled(m)'
    <3>1. x \in persisted /\ todo' = todo \ {x} /\ UNCHANGED out
      BY <2>3 DEF Skip, FlowInv, Stored
    <3> QED
      BY <2>1, <3>1
  <2>4. CASE List
    <3>1. UNCHANGED out /\ todo = {}
      BY <1>0, <2>4 DEF List
    <3> QED
      BY <2>1, <3>1
  <2>5. CASE FailRead \/ Abandon
    BY <1>0, <1>1, <2>5 DEF FailRead, Abandon, SeesDone
  <2>6. CASE FinishIteration \/ SaveCheckpoint \/ KeepCheckpoint \/ Tick \/ Return
    <3>1. UNCHANGED <<todo, out>>
      BY <2>6 DEF FinishIteration, SaveCheckpoint, KeepCheckpoint, Tick, Return
    <3> QED
      BY <2>1, <3>1
  <2> QED
    BY <1>2, <2>2, <2>3, <2>4, <2>5, <2>6 DEF Reader
<1>3. CASE Sink
  <2>1. UNCHANGED todo
    BY <1>3 DEF Sink, SinkStep
  <2>2. CASE Receive
    <3>1. Head(out) \in Messages /\ Contents(out) = {Head(out)} \cup Contents(Tail(out))
      BY <1>0, <2>2, HeadTailContents DEF Receive
    <3>2. Contents(batch') = Contents(batch) \cup {Head(out)} /\ out' = Tail(out)
      BY <1>0, <2>2, <3>1, AppendContents DEF Receive
    <3> QED
      BY <2>1, <2>2, <3>1, <3>2 DEF Receive
  <2>3. CASE WriteBatch
    BY <1>0, <1>1, <2>1, <2>3 DEF WriteBatch
  <2>4. CASE Acknowledge
    <3>1. Contents(batch) = {Head(batch)} \cup Contents(batch') /\ UNCHANGED <<persisted, out>>
      BY <1>0, <2>4, HeadTailContents DEF Acknowledge
    <3>2. Contents(batch) \subseteq persisted
      BY <2>4 DEF Acknowledge, FlowInv, Stored
    <3> QED
      BY <2>1, <3>1, <3>2
  <2>5. CASE FlushTick \/ SeeClosed \/ SeeDone \/ AckAborted \/ Flushed
    BY <2>1, <2>5 DEF FlushTick, SeeClosed, SeeDone, AckAborted, Flushed
  <2> QED
    BY <1>3, <2>2, <2>3, <2>4, <2>5 DEF Sink
<1>4. CASE EndRun
  <2>1. Contents(out) = {} /\ Contents(batch) = {} /\ todo = {}
    BY <1>0, <1>4, EmptyContents DEF EndRun, FlowInv, SinkView
  <2> QED
    BY <1>4, <2>1 DEF EndRun
<1>5. CASE UNCHANGED <<persisted, todo, out, batch>>
  BY <1>5
<1>6. (\E k \in Modes : StartRun(k)) \/ ClearCheckpoint \/ Mark \/ (\E x \in Messages : Arrive(x))
         \/ TimePasses \/ UNCHANGED vars => UNCHANGED <<persisted, todo, out, batch>>
  BY DEF StartRun, ClearCheckpoint, Mark, Arrive, TimePasses, vars
<1> QED
  BY <1>1, <1>2, <1>3, <1>4, <1>5, <1>6 DEF Next

(* A message that is not handled yet will still be listed, or is listed.   *)
LEMMA StaysAwaited ==
    ASSUME TypeInv, FlowInv, ClockInv, CalmRun, Margin >= MaxScan, [Next]_vars, Calm',
           NEW m \in Messages, date[m] # Never, Awaited(m)
    PROVE  Handled(m)' \/ Awaited(m)'
<1> USE DEF Awaited, Visible, Buffer, Listed, Running
<1>0. ~stop /\ ~sinkErr /\ ~iterErr /\ ~GroupDone /\ UNCHANGED <<faults, cancels, crashes>>
  BY CalmBefore DEF CalmRun, GroupDone
<1>1. ~Fails /\ ~Cancel /\ ~Crash
  BY <1>0, Times DEF Fails, Cancel, Crash
<1>2. date[m] \in Int /\ date[m] >= 0 /\ Margin \in Nat
  BY Times
<1>3. CASE Reader
  <2>1. mode' = mode /\ mode # "idle" /\ UNCHANGED <<clock, date>>
    BY <1>3 DEF Reader, ReaderStep, Running
  <2>2. CASE List
    <3>1. Visible(m, since)
      BY <2>1, <2>2 DEF List
    <3>2. m \in todo'
      BY <1>0, <2>2, <3>1 DEF List
    <3> QED
      BY <3>2 DEF Handled
  <2>3. CASE SaveCheckpoint
    <3>1. /\ rpc = "after" /\ rpc' \in {"tick", "closing"}
          /\ checkpoint' = clock /\ since' = clock
      BY <1>0, <1>1, <2>3 DEF SaveCheckpoint, TickOrReturn
    <3>2. date[m] >= listedAt /\ clock <= listedAt + MaxScan
      BY <3>1 DEF ClockInv
    <3>3. date[m] >= clock - Margin
      BY <1>2, <3>2, Times
    <3> QED
      BY <2>1, <3>1, <3>3
  <2>4. CASE Tick
    BY <2>1, <2>4 DEF Tick
  <2>5. CASE Return
    BY <2>1, <2>5 DEF Return
  <2>6. CASE FinishIteration \/ \E x \in Messages : Skip(x) \/ Send(x)
    <3>1. rpc = "scan" /\ rpc' \in {"scan", "after"} /\ UNCHANGED <<checkpoint, since, listedAt>>
      BY <2>6 DEF FinishIteration, Skip, Send
    <3> QED
      BY <2>1, <3>1
  <2>7. ~FailRead /\ ~Abandon /\ ~KeepCheckpoint
    BY <1>0, <1>1 DEF FailRead, Abandon, SeesDone, KeepCheckpoint
  <2> QED
    BY <1>3, <2>2, <2>3, <2>4, <2>5, <2>6, <2>7 DEF Reader
<1>4. ASSUME NEW k \in Modes, StartRun(k) PROVE Awaited(m)'
  <2>1. /\ since' \in {-1, checkpoint}
        /\ UNCHANGED <<date, checkpoint, rpc, listedAt>>
    BY <1>4 DEF StartRun
  <2> QED
    BY <1>2, <2>1
<1>5. CASE EndRun
  <2>1. mode' = "idle" /\ rpc' = "list" /\ UNCHANGED <<date, checkpoint>>
    BY <1>5 DEF EndRun, Quiet
  <2> QED
    BY <2>1
<1>6. CASE ClearCheckpoint
  <2>1. checkpoint' = -1 /\ UNCHANGED <<date, since, mode, rpc, listedAt>>
    BY <1>6 DEF ClearCheckpoint
  <2> QED
    BY <1>2, <2>1
<1>7. ASSUME NEW x \in Messages, Arrive(x) PROVE Awaited(m)'
  <2>1. UNCHANGED <<checkpoint, since, mode, rpc, listedAt>>
    BY <1>7 DEF Arrive
  <2>2. date'[m] = date[m]
    BY <1>7 DEF Arrive, TypeInv, TypeOK
  <2> QED
    BY <2>1, <2>2
<1>8. CASE UNCHANGED <<date, checkpoint, since, mode, rpc, listedAt>>
  BY <1>8
<1>9. Sink \/ Mark \/ TimePasses \/ UNCHANGED vars
         => UNCHANGED <<date, checkpoint, since, mode, rpc, listedAt>>
  BY DEF Sink, SinkStep, Mark, TimePasses, vars
<1> QED
  BY <1>1, <1>3, <1>4, <1>5, <1>6, <1>7, <1>8, <1>9 DEF Next

LEMMA StepMail ==
    Margin >= MaxScan /\ TypeInv /\ FlowInv /\ MailInv /\ [Next]_vars => MailInv'
<1> SUFFICES ASSUME Margin >= MaxScan, TypeInv, FlowInv, MailInv, [Next]_vars PROVE MailInv'
  OBVIOUS
<1>1. ClockInv' /\ CalmRun'
  BY StepClock, StepCalm DEF MailInv
<1>2. ASSUME Calm', NEW m \in Messages, date'[m] # Never
      PROVE  Handled(m)' \/ Awaited(m)'
  <2>1. Calm
    BY <1>2, CalmBefore
  <2>2. CASE date[m] # Never
    BY <1>2, <2>1, <2>2, StaysHandled, StaysAwaited DEF MailInv, MailView
  <2>3. CASE date[m] = Never
    <3>1. Arrive(m)
      <4>1. date' # date
        BY <1>2, <2>3
      <4>2. PICK x \in Messages : Arrive(x)
        BY <4>1
        DEF Next, vars, StartRun, EndRun, Cancel, Crash, ClearCheckpoint, Reader, ReaderStep,
            Sink, SinkStep, Mark, TimePasses
      <4>3. x = m
        BY <1>2, <2>3, <4>2 DEF Arrive, TypeInv, TypeOK
      <4> QED
        BY <4>2, <4>3
    <3>2. date'[m] = clock /\ UNCHANGED <<checkpoint, since, mode, rpc, listedAt>>
      BY <3>1 DEF Arrive, TypeInv, TypeOK
    <3>3. /\ checkpoint <= clock /\ since <= clock
          /\ rpc \in {"scan", "after"} => listedAt <= clock
      BY DEF MailInv, ClockInv, Listed
    <3>4. clock >= checkpoint - Margin /\ clock >= since - Margin
      BY <3>3, Times
    <3>5. Visible(m, checkpoint)' /\ Visible(m, since)'
      BY <1>2, <3>2, <3>4 DEF Visible, Buffer
    <3>6. Listed' => date'[m] >= listedAt'
      BY <3>2, <3>3, Times DEF Listed
    <3> QED
      BY <3>5, <3>6 DEF Awaited
  <2> QED
    BY <2>2, <2>3
<1> QED
  BY <1>1, <1>2 DEF MailInv, MailView

(* However long the scans take up to the margin, and whenever mail arrives *)
(* during them: as long as nothing fails, no message falls between two     *)
(* scans.                                                                  *)
THEOREM NoMailIsSkipped == Spec => []NoMailSkipped
<1>1. CASE Margin >= MaxScan
  <2>1. Spec => [](TypeInv /\ FlowInv /\ MailInv)
    BY <1>1, InitType, InitFlow, InitMail, StepType, StepFlow, StepMail, PTL DEF Spec
  <2>2. TypeInv /\ MailInv => NoMailSkipped
    <3> SUFFICES ASSUME TypeInv, MailInv, faults + cancels + crashes = 0 PROVE
          \A m \in Messages : date[m] # Never => Handled(m) \/ Visible(m, checkpoint)
      BY DEF NoMailSkipped, Handled
    <3>1. Calm
      BY Times DEF Calm
    <3> QED
      BY <3>1 DEF MailInv, MailView, Awaited
  <2> QED
    BY <2>1, <2>2, PTL
<1>2. CASE ~(Margin >= MaxScan)
  <2>1. NoMailSkipped
    BY <1>2 DEF NoMailSkipped
  <2> QED
    BY <2>1, PTL
<1> QED
  BY <1>1, <1>2

-----------------------------------------------------------------------------
(* Mail that could not be read.  A rescan looks at mail that the checkpoint *)
(* has passed, so only visible mail counts where there are rescans.         *)

Counts(m) == Visible(m, checkpoint) \/ "rescan" \notin Modes

(* Unread mail that counts is visible from the database and from the        *)
(* reader's own checkpoint, and an iteration that has not got to it has an  *)
(* error, or will have one.                                                 *)
Unread(m) ==
    /\ Visible(m, checkpoint)
    /\ Running => Visible(m, since)
    /\ Listed => m \in todo \/ iterErr \/ (rpc = "scan" /\ GroupDone)

UnreadView ==
    /\ \A m \in missed : date[m] # Never
    /\ \A m \in missed \ persisted : Counts(m) => Unread(m)
    /\ rpc # "scan" => todo = {}
    /\ ~Running => rpc = "list"
    /\ \A m \in todo : Visible(m, since)
    /\ Running /\ "rescan" \notin Modes => checkpoint <= since

(* Requests do not clear the checkpoint in the middle of a rescan.          *)
RescansUndisturbed == "rescan" \notin Modes \/ MaxClears = 0

LEMMA InitUnread == Init => UnreadView
BY DEF Init, UnreadView, Running

LEMMA ReaderUnread ==
    ASSUME Kind = "gmail", TypeInv, ClockInv, UnreadView, Reader
    PROVE  UnreadView' /\ \A m \in missed' \ persisted' : Visible(m, checkpoint) => Visible(m, checkpoint)'
<1> USE DEF UnreadView, Counts, Unread, Listed
<1>0. ReaderStep
  BY DEF Reader
<1>1. CASE List
  <2>1. \A m \in missed : m \in Messages
    BY DEF TypeInv, TypeOK
  <2>2. Running /\ Running' /\ GroupDone' = GroupDone
    BY <1>0 DEF ReaderStep, Running, GroupDone
  <2>3. UNCHANGED <<missed, persisted, checkpoint, since, date>> /\ rpc' = "scan"
    BY <1>0, <1>1 DEF List, ReaderStep
  <2>4. \A m \in Messages : m \in todo' <=> ~GroupDone /\ Visible(m, since)
    BY <1>1 DEF List
  <2>5. todo' \subseteq Messages
    BY <1>1 DEF List
  <2> QED
    BY <2>1, <2>2, <2>3, <2>4, <2>5 DEF Visible
<1>2. CASE \E m \in Messages : Skip(m) \/ Send(m)
  BY <1>0, <1>2 DEF Skip, Send, ReaderStep, Visible, Running, GroupDone
<1>3. CASE FailRead
  <2>1. PICK S \in SUBSET todo \ {{}} : todo' = todo \ S /\ missed' = missed \cup S
    BY <1>3 DEF FailRead
  <2>2. /\ UNCHANGED <<persisted, checkpoint, since, date, mode>> /\ iterErr'
        /\ rpc = "scan" /\ rpc' = "scan"
    BY <1>0, <1>3 DEF FailRead, ReaderStep, FailsIteration
  <2>3. ASSUME NEW m \in S, "rescan" \notin Modes PROVE Visible(m, checkpoint)
    <3>1. m \in Messages /\ Visible(m, since) /\ checkpoint <= since
      BY <1>0, <2>1, <2>3 DEF ReaderStep, TypeInv, TypeOK
    <3> QED
      BY <3>1, Times DEF Visible, Buffer
  <2>4. \A m \in S : Visible(m, since) /\ date[m] # Never
    BY <2>1 DEF Visible
  <2> QED
    BY <2>1, <2>2, <2>3, <2>4 DEF Visible, Running
<1>4. CASE Abandon \/ FinishIteration
  BY <1>0, <1>4 DEF Abandon, FinishIteration, SeesDone, ReaderStep, Visible, Running, GroupDone
<1>5. CASE SaveCheckpoint
  <2>1. /\ UNCHANGED <<missed, persisted, date, mode, todo>> /\ todo = {} /\ ~iterErr /\ Listed
        /\ rpc' \notin {"scan", "after"} /\ since' = clock /\ checkpoint' \in {clock, checkpoint}
    BY <1>0, <1>5 DEF SaveCheckpoint, ReaderStep, TickOrReturn
  <2>2. checkpoint' <= since'
    BY <2>1 DEF ClockInv, TypeInv, TypeOK
  <2>3. \A m \in missed \ persisted : ~Counts(m)
    BY <1>5, <2>1 DEF SaveCheckpoint
  <2>4. \A m \in missed \ persisted : m \in Messages /\ date[m] \in -1 .. MaxTime
    BY DEF TypeInv, TypeOK
  <2>5. checkpoint <= checkpoint'
    BY <2>1 DEF ClockInv, TypeInv, TypeOK
  <2>6. ASSUME NEW m \in missed \ persisted PROVE ~Visible(m, checkpoint)' /\ ~Visible(m, checkpoint)
    <3>1. ~Visible(m, checkpoint)
      BY <2>3
    <3>2. date' = date /\ checkpoint \in -1 .. MaxTime /\ checkpoint' \in -1 .. MaxTime
      BY <2>1 DEF TypeInv, TypeOK
    <3> QED
      BY <2>4, <2>5, <3>1, <3>2, Times DEF Visible, Buffer
  <2>7. Running'
    BY <1>0, <2>1 DEF ReaderStep, Running
  <2> QED
    BY <2>1, <2>2, <2>3, <2>6, <2>7
<1>6. CASE KeepCheckpoint \/ Tick \/ Return
  BY <1>0, <1>6 DEF KeepCheckpoint, Tick, Return, TickOrReturn, ReaderStep, Visible, Running
<1> QED
  BY <1>1, <1>2, <1>3, <1>4, <1>5, <1>6 DEF Reader

LEMMA StepUnread ==
    ASSUME Kind = "gmail", RescansUndisturbed, TypeInv, ClockInv, UnreadView, [Next]_vars
    PROVE  UnreadView' /\ \A m \in missed' \ persisted' : Visible(m, checkpoint) => Visible(m, checkpoint)'
<1> USE DEF UnreadView, Counts, Unread, Listed
<1>1. CASE Reader
  BY <1>1, ReaderUnread
<1>2. CASE Sink \/ Mark \/ Cancel
  <2>1. UNCHANGED <<date, checkpoint, mode, since, rpc, todo, iterErr, missed>>
    BY <1>2 DEF Sink, SinkStep, Mark, Cancel
  <2>2. persisted \subseteq persisted' /\ (GroupDone => GroupDone')
    BY <1>2 DEF Sink, SinkStep, Receive, FlushTick, SeeClosed, SeeDone, WriteBatch, Acknowledge,
                AckAborted, Flushed, Mark, Cancel, GroupDone
  <2> QED
    BY <2>1, <2>2 DEF Visible, Running
<1>3. ASSUME NEW k \in Modes, StartRun(k) PROVE
        UnreadView' /\ \A m \in missed' \ persisted' : Visible(m, checkpoint) => Visible(m, checkpoint)'
  <2>1. /\ UNCHANGED <<date, checkpoint, persisted, missed, rpc, todo, iterErr>>
        /\ since' = (IF k = "rescan" THEN Never ELSE checkpoint) /\ ~Running
    BY <1>3 DEF StartRun
  <2>2. \A m \in missed : m \in Messages /\ date[m] \in -1 .. MaxTime /\ date[m] # Never
    BY DEF TypeInv, TypeOK
  <2>3. ASSUME NEW m \in missed, Visible(m, checkpoint) PROVE Visible(m, since)'
    BY <2>1, <2>2, <2>3, Times DEF Visible, Buffer, TypeInv, TypeOK
  <2>4. rpc = "list" /\ todo = {}
    BY <2>1 DEF Running
  <2>5. "rescan" \notin Modes => checkpoint' <= since'
    BY <1>3, <2>1 DEF TypeInv, TypeOK
  <2> QED
    BY <2>1, <2>3, <2>4, <2>5 DEF Visible
<1>4. CASE EndRun \/ Crash
  BY <1>4 DEF EndRun, Crash, Quiet, Visible, Running
<1>5. CASE ClearCheckpoint
  <2>1. "rescan" \notin Modes
    BY <1>5, Times DEF ClearCheckpoint, RescansUndisturbed, TypeInv, TypeOK
  <2>2. /\ UNCHANGED <<date, persisted, missed, mode, since, rpc, todo, iterErr, stop, sinkErr>>
        /\ checkpoint' = -1
    BY <1>5 DEF ClearCheckpoint
  <2>3. checkpoint' <= since'
    BY <2>2 DEF TypeInv, TypeOK
  <2>4. ASSUME NEW m \in missed PROVE Visible(m, checkpoint)'
    <3>1. date[m] \in -1 .. MaxTime /\ date[m] # -1
      BY DEF TypeInv, TypeOK
    <3> QED
      BY <2>2, <3>1, Times DEF Visible, Buffer
  <2> QED
    BY <2>1, <2>2, <2>3, <2>4 DEF Visible, Running, GroupDone
<1>6. ASSUME NEW x \in Messages, Arrive(x) PROVE
        UnreadView' /\ \A m \in missed' \ persisted' : Visible(m, checkpoint) => Visible(m, checkpoint)'
  <2>1. /\ UNCHANGED <<checkpoint, persisted, missed, mode, since, rpc, todo, iterErr, stop, sinkErr>>
        /\ date[x] = Never
    BY <1>6 DEF Arrive
  <2>2. \A m \in missed \cup todo : date'[m] = date[m] /\ date[m] # Never
    <3>1. \A m \in missed \cup todo : m \in Messages /\ date[m] # Never
      BY DEF Visible, TypeInv, TypeOK
    <3> QED
      BY <1>6, <3>1 DEF Arrive, TypeInv, TypeOK
  <2> QED
    BY <2>1, <2>2 DEF Visible, Running, GroupDone
<1>7. CASE TimePasses \/ UNCHANGED vars
  BY <1>7 DEF TimePasses, vars, Visible, Running, GroupDone
<1> QED
  BY <1>1, <1>2, <1>3, <1>4, <1>5, <1>6, <1>7 DEF Next

(* With Gmail, whose failed reads make the iteration fail, no checkpoint    *)
(* that a scan saves hides mail that it, or a scan before it, could not     *)
(* read; a checkpoint cleared in the middle of a rescan is set aside.       *)
THEOREM GmailKeepsFailedReads ==
    Kind = "gmail" /\ RescansUndisturbed => (Spec => FailedReadsStayVisible)
<1> SUFFICES ASSUME Kind = "gmail", RescansUndisturbed PROVE Spec => FailedReadsStayVisible
  OBVIOUS
<1>1. Spec => [](TypeInv /\ ClockInv /\ UnreadView)
  <2>1. TypeInv /\ ClockInv /\ UnreadView /\ [Next]_vars => (TypeInv /\ ClockInv /\ UnreadView)'
    BY StepType, StepClock, StepUnread
  <2> QED
    BY <2>1, InitType, InitClock, InitUnread, PTL DEF Spec
<1>2. TypeInv /\ ClockInv /\ UnreadView /\ [Next]_vars =>
        [\A m \in missed' \ persisted' : Visible(m, checkpoint) => Visible(m, checkpoint)']_vars
  BY StepUnread
<1> QED
  BY <1>1, <1>2, PTL DEF Spec, FailedReadsStayVisible

-----------------------------------------------------------------------------
(* The refinement.  Whatever the goroutines hold was sent by this run, and *)
(* what it has yet to read has arrived.                                    *)

DeliveryView ==
    /\ \A m \in todo : date[m] # Never
    /\ Contents(out) \cup Contents(batch) \cup Contents(ack) \subseteq sent
    /\ ~Running => out = <<>> /\ batch = <<>> /\ ack = <<>>

LEMMA InitDelivery == Init => DeliveryView
BY EmptyContents DEF Init, DeliveryView

LEMMA ReaderDelivery ==
    ASSUME TypeInv, DeliveryView, Reader
    PROVE  DeliveryView'
<1>1. Running' /\ UNCHANGED <<date, batch, ack>>
  BY DEF Reader, ReaderStep, Running
<1>2. \A m \in todo' : date'[m] # Never
  <2>1. CASE List
    BY <1>1, <2>1 DEF List, Visible
  <2>2. CASE todo' \subseteq todo
    BY <1>1, <2>2 DEF DeliveryView
  <2> QED
    BY <2>1, <2>2 DEF Reader, Skip, Send, FailRead, Abandon, FinishIteration, SaveCheckpoint,
       KeepCheckpoint, Tick, Return
<1>3. Contents(out') \cup Contents(batch') \cup Contents(ack') \subseteq sent'
  <2>1. CASE UNCHANGED <<out, sent>>
    BY <1>1, <2>1 DEF DeliveryView
  <2>2. ASSUME NEW m \in Messages, Send(m)
        PROVE  Contents(out') \cup Contents(batch') \cup Contents(ack') \subseteq sent'
    <3>1. Contents(out') = Contents(out) \cup {m} /\ sent' = sent \cup {m}
      BY <2>2, AppendContents DEF Send, TypeInv, TypeOK
    <3> QED
      BY <1>1, <3>1 DEF DeliveryView
  <2> QED
    BY <2>1, <2>2 DEF Reader, List, Skip, FailRead, Abandon, FinishIteration, SaveCheckpoint,
       KeepCheckpoint, Tick, Return
<1> QED
  BY <1>1, <1>2, <1>3 DEF DeliveryView

LEMMA SinkDelivery ==
    ASSUME TypeInv, DeliveryView, Sink
    PROVE  DeliveryView'
<1>0. batch \in Seq(Messages) /\ out \in Seq(Messages) /\ ack \in Seq(Messages)
  BY DEF TypeInv, TypeOK
<1>1. Running' /\ UNCHANGED <<date, todo, sent>>
  BY DEF Sink, SinkStep, Running
<1>2. CASE UNCHANGED <<out, batch, ack>>
  BY <1>1, <1>2 DEF DeliveryView
<1>3. CASE Receive
  <2>1. /\ Head(out) \in Messages /\ Contents(out) = {Head(out)} \cup Contents(Tail(out))
    BY <1>0, <1>3, HeadTailContents DEF Receive
  <2>2. Contents(batch') = Contents(batch) \cup {Head(out)} /\ out' = Tail(out) /\ ack' = ack
    BY <1>0, <1>3, <2>1, AppendContents DEF Receive
  <2> QED
    BY <1>1, <2>1, <2>2 DEF DeliveryView
<1>4. CASE Acknowledge
  <2>1. /\ Head(batch) \in Messages /\ Contents(batch) = {Head(batch)} \cup Contents(batch')
    BY <1>0, <1>4, HeadTailContents DEF Acknowledge
  <2>2. Contents(ack') = Contents(ack) \cup {Head(batch)} /\ out' = out
    BY <1>0, <1>4, <2>1, AppendContents DEF Acknowledge
  <2> QED
    BY <1>1, <2>1, <2>2 DEF DeliveryView
<1> QED
  BY <1>2, <1>3, <1>4
  DEF Sink, FlushTick, SeeClosed, SeeDone, WriteBatch, AckAborted, Flushed

LEMMA StepDelivery == TypeInv /\ DeliveryView /\ [Next]_vars => DeliveryView'
<1> SUFFICES ASSUME TypeInv, DeliveryView, [Next]_vars PROVE DeliveryView'
  OBVIOUS
<1>1. ASSUME NEW k \in Modes, StartRun(k) PROVE DeliveryView'
  <2>1. ~Running /\ UNCHANGED <<date, todo, out, batch, ack>>
    BY <1>1 DEF StartRun
  <2> QED
    BY <2>1, EmptyContents DEF DeliveryView
<1>2. CASE EndRun \/ Crash
  <2>1. out' = <<>> /\ batch' = <<>> /\ ack' = <<>> /\ todo' = {}
    BY <1>2 DEF EndRun, Crash, Quiet
  <2> QED
    BY <2>1, EmptyContents DEF DeliveryView
<1>3. CASE Mark
  <2>1. Contents(ack) = {Head(ack)} \cup Contents(Tail(ack))
    BY <1>3, HeadTailContents DEF Mark, TypeInv, TypeOK
  <2>2. Running' /\ UNCHANGED <<date, todo, sent, out, batch>> /\ ack' = Tail(ack)
    BY <1>3 DEF Mark, Running
  <2> QED
    BY <2>1, <2>2 DEF DeliveryView
<1>4. ASSUME NEW x \in Messages, Arrive(x) PROVE DeliveryView'
  <2>1. UNCHANGED <<todo, sent, out, batch, ack, mode>>
    BY <1>4 DEF Arrive
  <2>2. ASSUME NEW m \in todo PROVE date'[m] # Never
    <3>1. m \in Messages /\ date[m] # Never /\ date[x] = Never
      BY <1>4, <2>2 DEF Arrive, DeliveryView, TypeInv, TypeOK
    <3> QED
      BY <1>4, <3>1 DEF Arrive, TypeInv, TypeOK
  <2> QED
    BY <2>1, <2>2 DEF DeliveryView, Running
<1>5. CASE UNCHANGED <<date, todo, sent, out, batch, ack, mode>>
  BY <1>5 DEF DeliveryView, Running
<1>6. Cancel \/ ClearCheckpoint \/ TimePasses \/ UNCHANGED vars
         => UNCHANGED <<date, todo, sent, out, batch, ack, mode>>
  BY DEF Cancel, ClearCheckpoint, TimePasses, vars
<1> QED
  BY <1>1, <1>2, <1>3, <1>4, <1>5, <1>6, ReaderDelivery, SinkDelivery DEF Next

(* What has arrived changes with date only.                                *)
Arrived == {m \in Messages : date[m] # Never}

LEMMA DeliveryStutters ==
    ASSUME UNCHANGED <<date, persisted, processed, mode, sent, outcome>>
    PROVE  [Delivery!Next]_(Delivery!vars)
BY DEF Delivery!vars

(* Steps of the reader take messages, and those of the sink store them.    *)
LEMMA ReaderTakes ==
    ASSUME TypeInv, DeliveryView, Reader
    PROVE  [Delivery!Next]_(Delivery!vars)
<1>1. mode # "idle" /\ UNCHANGED <<date, persisted, processed, mode, outcome>>
  <2>1. UNCHANGED <<persisted, processed>>
    BY DEF Reader, List, Skip, Send, FailRead, Abandon, FinishIteration, SaveCheckpoint,
       KeepCheckpoint, Tick, Return
  <2> QED
    BY <2>1 DEF Reader, ReaderStep, Running
<1>2. CASE sent' = sent
  BY <1>1, <1>2, DeliveryStutters
<1>3. ASSUME NEW m \in Messages, Send(m)
      PROVE  Delivery!Take
  <2>1. m \in Arrived /\ sent' = sent \cup {m}
    BY <1>3 DEF Send, DeliveryView, Arrived
  <2> QED
    BY <1>1, <2>1 DEF Delivery!Take, Arrived
<1> QED
  BY <1>2, <1>3
  DEF Reader, List, Skip, FailRead, Abandon, FinishIteration, SaveCheckpoint, KeepCheckpoint,
      Tick, Return, Delivery!Next

LEMMA SinkStores ==
    ASSUME DeliveryView, Sink
    PROVE  [Delivery!Next]_(Delivery!vars)
<1>1. mode # "idle" /\ UNCHANGED <<date, processed, mode, sent, outcome>>
  <2>1. UNCHANGED processed
    BY DEF Sink, Receive, FlushTick, SeeClosed, SeeDone, WriteBatch, Acknowledge, AckAborted,
       Flushed
  <2> QED
    BY <2>1 DEF Sink, SinkStep, Running
<1>2. CASE UNCHANGED persisted
  BY <1>1, <1>2, DeliveryStutters
<1>3. CASE WriteBatch /\ persisted' # persisted
  <2>1. persisted' = persisted \cup Contents(batch) /\ Contents(batch) \in SUBSET sent
    BY <1>3 DEF WriteBatch, DeliveryView
  <2> QED
    BY <1>1, <2>1 DEF Delivery!Next, Delivery!Store
<1> QED
  BY <1>2, <1>3
  DEF Sink, Receive, FlushTick, SeeClosed, SeeDone, Acknowledge, AckAborted, Flushed

(* Seen from the mailbox and the database, with any sizes of channels and  *)
(* batches, any failures, cancellations, lost replies and crashes, every   *)
(* step of reader, sink and marker takes, stores or marks a message as the *)
(* abstract service may, or changes nothing.                               *)
THEOREM DeliveryImplemented == Spec => ImplementsDelivery
<1>1. Init => Delivery!Init
  BY DEF Init, Delivery!Init
<1>2. ASSUME TypeInv, FlowInv, DeliveryView, [Next]_vars
      PROVE  [Delivery!Next]_(Delivery!vars)
  <2>1. ASSUME NEW k \in Modes, StartRun(k) PROVE Delivery!Begin
    BY <2>1 DEF StartRun, Running, Delivery!Begin
  <2>2. CASE EndRun
    <3>1. outcome' \in {"ok", "failed"} /\ (outcome' = "ok" => sent \subseteq persisted)
      BY <1>2, <2>2, EmptyContents DEF EndRun, FlowInv, SinkView, SentView, InFlight
    <3>2. Delivery!End
      BY <2>2, <3>1 DEF EndRun, Quiet, Running, Delivery!End
    <3> QED
      BY <3>2 DEF Delivery!Next
  <2>3. CASE Crash
    <3>1. Delivery!End
      BY <2>3 DEF Crash, Quiet, Running, Delivery!End
    <3> QED
      BY <3>1 DEF Delivery!Next
  <2>4. CASE Mark
    <3>1. UNCHANGED <<date, persisted, mode, sent, outcome>> /\ mode # "idle"
      BY <2>4 DEF Mark, Running
    <3>2. CASE processed' = processed
      BY <3>1, <3>2, DeliveryStutters
    <3>3. CASE processed' # processed
      <4>1. mode # "rescan" /\ processed' = processed \cup {Head(ack)}
        BY <2>4, <3>3 DEF Mark
      <4>2. Head(ack) \in Contents(ack)
        BY <1>2, <2>4, HeadTailContents DEF Mark, TypeInv, TypeOK
      <4>3. Head(ack) \in sent \cap persisted
        BY <1>2, <4>2 DEF DeliveryView, FlowInv, Stored
      <4>4. Delivery!Mark
        BY <3>1, <4>1, <4>3 DEF Delivery!Mark
      <4> QED
        BY <4>4 DEF Delivery!Next
    <3> QED
      BY <3>2, <3>3
  <2>5. ASSUME NEW m \in Messages, Arrive(m) PROVE Delivery!Arrive
    <3>1. m \notin Arrived /\ Arrived' = Arrived \cup {m}
      BY <1>2, <2>5, Times DEF Arrive, Arrived, TypeInv, TypeOK
    <3>2. UNCHANGED <<persisted, processed, mode, sent, outcome>>
      BY <2>5 DEF Arrive
    <3> QED
      BY <3>1, <3>2 DEF Delivery!Arrive, Arrived
  <2>6. CASE Cancel \/ ClearCheckpoint \/ TimePasses \/ UNCHANGED vars
    <3>1. UNCHANGED <<date, persisted, processed, mode, sent, outcome>>
      BY <2>6 DEF Cancel, ClearCheckpoint, TimePasses, vars
    <3> QED
      BY <3>1, DeliveryStutters
  <2> QED
    BY <1>2, <2>1, <2>2, <2>3, <2>4, <2>5, <2>6, ReaderTakes, SinkStores DEF Next, Delivery!Next
<1>3. TypeInv /\ FlowInv /\ DeliveryView /\ [Next]_vars => DeliveryView'
  BY StepDelivery
<1>4. Spec => []DeliveryView
  BY <1>3, Invariant, InitDelivery, PTL DEF Spec
<1> QED
  BY <1>1, <1>2, <1>4, Invariant, PTL DEF Spec, ImplementsDelivery, Delivery!Spec
=============================================================================
