---------------------------- MODULE NetworkSink -----------------------------
(***************************************************************************)
(* A network sink on its channel: NetworkSink::execute and stop in         *)
(* nes-sinks/src/NetworkSink.cpp, run by several workers at once, and the  *)
(* BackpressureHandler that keeps the buffers the channel had no room for. *)
(*                                                                         *)
(* The query engine is a set of tasks: a repeated task comes back at any   *)
(* time, and the sink is stopped when no task is left (RunningPlan).       *)
(***************************************************************************)
EXTENDS NetworkChannel

CONSTANTS
  Worker,
  Stream,              \* the buffers, in the order in which the query produces them
  Sequence(_),         \* sequence and chunk number of a buffer, without its origin
  UpperThreshold, LowerThreshold,
  NoSequence           \* INVALID<SequenceNumber>

VARIABLES
  fresh,           \* the part of Stream that has yet to be produced
  tasks,           \* tasks of the sink that wait for a worker
  at, hand,        \* where each worker is in execute, and its currentBuffer
  buffered,        \* BackpressureHandler::buffered
  pending,         \* pendingSequenceNumber and pendingChunkNumber
  hasBackpressure, \* and the state of the back pressure channel
  sink             \* "open", "stopping", "closed" by stop, "failed"

handlerVars == <<buffered, pending, hasBackpressure>>
sinkOwnVars == <<fresh, tasks, at, hand, handlerVars, sink>>
vars == <<channelVars, sinkOwnVars>>
restOfChannel == <<senderVars, linkVars, control, receiverVars, sinkVars, losses>>

\* The constructor swaps thresholds that are the wrong way round.
Upper == IF LowerThreshold > UpperThreshold THEN LowerThreshold ELSE UpperThreshold
Lower == IF LowerThreshold > UpperThreshold THEN UpperThreshold ELSE LowerThreshold

Init ==
  /\ ChannelInit
  /\ fresh = Stream /\ tasks = {}
  /\ at = [w \in Worker |-> "idle"] /\ hand = [w \in Worker |-> NoBuffer]
  /\ buffered = <<>> /\ pending = NoSequence /\ hasBackpressure = FALSE
  /\ sink = "open"

\* Sources emit unless the sink applies back pressure.
Produce ==
  /\ fresh # <<>> /\ ~hasBackpressure /\ sink = "open"
  /\ fresh' = Tail(fresh) /\ tasks' = tasks \cup {Head(fresh)}
  /\ UNCHANGED <<channelVars, at, hand, handlerVars, sink>>

GoIdle(w) == at' = [at EXCEPT ![w] = "idle"] /\ hand' = [hand EXCEPT ![w] = NoBuffer]

\* send_buffer, which answers Ok, Full or Closed
SendBuffer(w, b) ==
  /\ hand' = [hand EXCEPT ![w] = b]
  /\ \/ /\ TrySendData(b)
        /\ at' = [at EXCEPT ![w] = "success"]
     \/ /\ ~CanTrySend
        /\ at' = [at EXCEPT ![w] = IF queueOpen THEN "full" ELSE "closed"]
        /\ UNCHANGED softwareVars
  /\ UNCHANGED restOfChannel

\* execute: a closed sink drops what comes.
Execute(w, b) ==
  /\ at[w] = "idle" /\ b \in tasks
  /\ tasks' = tasks \ {b}
  /\ IF sink = "failed" THEN UNCHANGED <<channelVars, at, hand>> ELSE SendBuffer(w, b)
  /\ UNCHANGED <<fresh, handlerVars, sink>>

\* The next turn of its loop
SendNext(w) ==
  /\ at[w] = "send"
  /\ SendBuffer(w, hand[w])
  /\ UNCHANGED <<fresh, tasks, handlerVars, sink>>

\* BackpressureHandler::onFull: buffer b is kept, and `retry` is what the caller
\* has to repeat.
OnFull(b, retry) ==
  LET kept == Append(buffered, b)
  IN  \/ /\ Sequence(b) = pending
         /\ retry = {b}
         /\ UNCHANGED handlerVars
      \/ /\ Sequence(b) # pending
         /\ hasBackpressure' = (hasBackpressure \/ Len(kept) >= Upper)
         /\ IF pending = NoSequence
            THEN /\ pending' = Sequence(Head(kept)) /\ buffered' = Tail(kept)
                 /\ retry = {Head(kept)}
            ELSE /\ pending' = pending /\ buffered' = kept
                 /\ retry = {}

\* SendResult::Full
SendFull(w) ==
  /\ at[w] = "full"
  /\ \E retry \in {{}} \cup {{b} : b \in Buffer} :
       OnFull(hand[w], retry) /\ tasks' = tasks \cup retry
  /\ GoIdle(w)
  /\ UNCHANGED <<channelVars, fresh, sink>>

\* SendResult::Closed: the query fails.
SendClosed(w) ==
  /\ at[w] = "closed"
  /\ \E retry \in {{}} \cup {{b} : b \in Buffer} : OnFull(hand[w], retry)
  /\ sink' = "failed"
  /\ GoIdle(w)
  /\ UNCHANGED <<channelVars, fresh, tasks>>

\* As SendSuccess, but the pending buffer stays pending.
KeepPending(w) ==
  /\ at[w] = "success"
  /\ pending' = pending
  /\ hasBackpressure' = (hasBackpressure /\ Len(buffered) > Lower)
  /\ IF buffered = <<>>
     THEN buffered' = buffered /\ GoIdle(w)
     ELSE /\ buffered' = Tail(buffered)
          /\ at' = [at EXCEPT ![w] = "send"] /\ hand' = [hand EXCEPT ![w] = Head(buffered)]
  /\ UNCHANGED <<channelVars, fresh, tasks, sink>>

\* As SendSuccess, but back pressure is not released.
KeepPressure(w) ==
  /\ at[w] = "success"
  /\ pending' = NoSequence
  /\ IF buffered = <<>>
     THEN buffered' = buffered /\ GoIdle(w)
     ELSE /\ buffered' = Tail(buffered)
          /\ at' = [at EXCEPT ![w] = "send"] /\ hand' = [hand EXCEPT ![w] = Head(buffered)]
  /\ UNCHANGED <<channelVars, fresh, tasks, hasBackpressure, sink>>

\* SendResult::Ok and BackpressureHandler::onSuccess: the worker goes on with the
\* oldest buffer that was kept.
SendSuccess(w) ==
  /\ at[w] = "success"
  /\ pending' = NoSequence
  /\ hasBackpressure' = (hasBackpressure /\ Len(buffered) > Lower)
  /\ IF buffered = <<>>
     THEN buffered' = buffered /\ GoIdle(w)
     ELSE /\ buffered' = Tail(buffered)
          /\ at' = [at EXCEPT ![w] = "send"] /\ hand' = [hand EXCEPT ![w] = Head(buffered)]
  /\ UNCHANGED <<channelVars, fresh, tasks, sink>>

\* The pipeline is stopped once the query has ended and no task is left.
BeginStop ==
  /\ sink = "open"
  /\ fresh = <<>> /\ tasks = {} /\ \A w \in Worker : at[w] = "idle"
  /\ sink' = "stopping"
  /\ UNCHANGED <<channelVars, fresh, tasks, at, hand, handlerVars>>

\* stop: repeated until the flush succeeds; an error counts as success
\* (flush_sender_channel).
Stop ==
  /\ sink = "stopping"
  /\ IF FlushAnswer = "no"
     THEN sink' = sink /\ RequestFlush
     ELSE sink' = "closed" /\ CloseChannel
  /\ UNCHANGED <<restOfChannel, fresh, tasks, at, hand, handlerVars>>

WorkerStep(w) == (\E b \in Buffer : Execute(w, b)) \/ SendNext(w) \/ SendFull(w) \/ SendClosed(w) \/ SendSuccess(w)
ChannelStep == ChannelNext /\ UNCHANGED sinkOwnVars

Next == \/ Produce
        \/ \E w \in Worker : WorkerStep(w)
        \/ BeginStop \/ Stop
        \/ ChannelStep

Spec == Init /\ [][Next]_vars
FairSpec == /\ Spec
            /\ \A w \in Worker : WF_vars(WorkerStep(w))
            /\ WF_vars(Produce \/ BeginStop \/ Stop)
            /\ ChannelFairness

-----------------------------------------------------------------------------
TypeOK ==
  /\ ChannelTypeOK
  /\ fresh \in Seq(Buffer) /\ tasks \subseteq Buffer
  /\ at \in [Worker -> {"idle", "send", "full", "closed", "success"}]
  /\ hand \in [Worker -> Buffer \cup {NoBuffer}]
  /\ buffered \in Seq(Buffer)
  /\ pending \in {Sequence(b) : b \in Buffer} \cup {NoSequence}
  /\ hasBackpressure \in BOOLEAN
  /\ sink \in {"open", "stopping", "closed", "failed"}

\* What the channel holds, oldest first.
InTransit ==
  LET IsBuffer(m) == m \in Buffer
  IN  SelectSeq(dataQueue \o <<received>> \o toReceiver \o encoded \o pendingWrites \o queue, IsBuffer)

Fifo == INSTANCE LossyFifo WITH transit <- InTransit

\* Across lost connections, new handlers and buffers that the sink had to keep, the receiving
\* source takes buffers at most once and in the order in which try_send_data accepted them.
ImplementsLossyFifo == Fifo!Spec

\* A flush that answers true (sender.rs:134) speaks of every buffer accepted before: the receiving
\* query has it.
FlushedIsDelivered ==
  flushReply = "yes" => accepted \subseteq delivered \cup ToSet(dataQueue)

\* The same while no connection was lost.
FlushedIsDeliveredWithoutLoss == losses = 0 => FlushedIsDelivered

\* BackpressureHandler never strands a buffer: as long as it keeps one, a worker is in execute or
\* a repeated task will come to take it, so that the INVARIANT of NetworkSink::stop
\* (NetworkSink.cpp:88) holds, although onSuccess of one worker clears the pending buffer of another.
KeptBuffersAreRetried ==
  /\ TypeOK
  /\ sink # "failed" /\ buffered # <<>> =>
       (\E b \in tasks : Sequence(b) = pending) \/ (\E w \in Worker : at[w] # "idle")

\* A flush request is left in the queue of a channel that the receiver has closed: nobody will answer it,
\* and SenderChannel::flush says false for ever (sender.rs:143-149).
FlushIsStranded == sender = "done" /\ Flush \in ToSet(queue) /\ flushReply = "asked"

\* The sink sends what the query produces and its stop comes to an end: back pressure is released,
\* and a lost connection is replaced.  Three exceptions: a receiver that has closed the channel and could not
\* say so (receiver/channel.rs:79-83), a handler that waits for a connection that was lost
\* while it was set up, and a receiver that closes the channel before the handler has read a flush request.
SinkEnds ==
  \/ <>(sink \in {"closed", "failed"})
  \/ <>(~dataQueueOpen /\ losses > 0)
  \/ <>[](receiver = "waiting")
  \/ <>[]FlushIsStranded
=============================================================================
