--------------------------- MODULE NetworkChannel ---------------------------
(***************************************************************************)
(* One data channel of the network service, nes-network/network/src: the   *)
(* registration over the control connection, the connection of the data    *)
(* channel, the handlers at its two ends, and their restart after the      *)
(* connection was lost.                                                    *)
(*                                                                         *)
(* The software side (SenderChannel, ReceiverChannel) talks to a handler   *)
(* through a bounded queue.  A connection delivers in order, and a loss    *)
(* takes away any suffix of what is on its way in either direction.        *)
(*                                                                         *)
(* A handler that fails gives up its connection, and the controller starts *)
(* another one for the same queue.                                         *)
(***************************************************************************)
EXTENDS Naturals, Sequences, FiniteSets, SequencesExt

CONSTANTS
  Buffer,
  NoBuffer,
  Flush,               \* ChannelCommand::Flush
  Close,               \* DataChannelRequest::Close and DataChannelResponse::Close
  SenderQueueSize,
  MaxPendingAcks,
  ReceiverQueueSize,
  MaxLosses            \* bound on the number of lost connections

ASSUME QueuesHaveRoom ==
  /\ SenderQueueSize \in Nat \ {0}
  /\ MaxPendingAcks \in Nat \ {0}
  /\ ReceiverQueueSize \in Nat \ {0}

VARIABLES
  queue,        \* commands of the software side, ChannelCommandQueue
  queueOpen,    \* FALSE after SenderChannel::close and once no handler listens
  flushReply,   \* the outstanding flush: none, asked, yes, no, gone
  sender,       \* where the sending side is in the life of the channel
  pendingWrites, waitForAck, \* of the sender's ChannelHandler
  encoded,      \* fed to the codec and not flushed
  link,         \* the data connection: none, up, down
  toReceiver, toSender, \* what the data connection carries
  control,      \* the exchange on the control connection
  receiver,     \* where the receiving side is in the life of the channel
  received,     \* pending_buffer of the receiver's handler
  dataQueue,    \* from the handler to the software, DataQueue
  dataQueueOpen,
  losses,
  accepted,     \* history: buffers for which try_send_data said Ok
  delivered     \* history: buffers the receiving software took

softwareVars == <<queue, queueOpen, flushReply, accepted>>
senderVars == <<sender, pendingWrites, waitForAck, encoded>>
linkVars == <<link, toReceiver, toSender>>
receiverVars == <<receiver, received>>
sinkVars == <<dataQueue, dataQueueOpen, delivered>>
channelVars == <<softwareVars, senderVars, linkVars, control, receiverVars, sinkVars, losses>>

ChannelTypeOK ==
  /\ queue \in Seq(Buffer \cup {Flush}) /\ Len(queue) <= SenderQueueSize
  /\ queueOpen \in BOOLEAN /\ dataQueueOpen \in BOOLEAN
  /\ flushReply \in {"none", "asked", "yes", "no", "gone"}
  /\ sender \in {"register", "requested", "connect", "running", "done"}
  /\ pendingWrites \in Seq(Buffer) /\ waitForAck \subseteq Buffer /\ encoded \in Seq(Buffer)
  /\ link \in {"none", "up", "down"}
  /\ toReceiver \in Seq(Buffer \cup {Close}) /\ toSender \in Seq(Buffer \cup {Close})
  /\ control \in {"idle", "request", "ok", "deny", "lost"}
  /\ receiver \in {"unregistered", "registered", "waiting", "running", "retry", "done"}
  /\ received \in Buffer \cup {NoBuffer}
  /\ dataQueue \in Seq(Buffer) /\ Len(dataQueue) <= ReceiverQueueSize
  /\ losses \in 0 .. MaxLosses
  /\ accepted \subseteq Buffer /\ delivered \subseteq Buffer

ChannelInit ==
  /\ queue = <<>> /\ queueOpen = TRUE /\ flushReply = "none"
  /\ sender = "register" /\ pendingWrites = <<>> /\ waitForAck = {} /\ encoded = <<>>
  /\ link = "none" /\ toReceiver = <<>> /\ toSender = <<>>
  /\ control = "idle"
  /\ receiver = "unregistered" /\ received = NoBuffer
  /\ dataQueue = <<>> /\ dataQueueOpen = TRUE
  /\ losses = 0
  /\ accepted = {} /\ delivered = {}

-----------------------------------------------------------------------------
\* Operations of the sending software.

CanTrySend == queueOpen /\ Len(queue) < SenderQueueSize

\* try_send_data answers Ok.  (It answers Closed if ~queueOpen, else Full.)
TrySendData(b) ==
  /\ CanTrySend
  /\ queue' = Append(queue, b)
  /\ accepted' = accepted \cup {b}
  /\ UNCHANGED <<queueOpen, flushReply>>

\* SenderChannel::flush: the answer is yes, no, or gone, which is an error.
FlushAnswer ==
  IF flushReply = "none"
  THEN IF queueOpen THEN "no" ELSE "gone"
  ELSE IF flushReply = "asked" THEN "no" ELSE flushReply

RequestFlush ==
  /\ IF flushReply = "none" /\ CanTrySend
     THEN queue' = Append(queue, Flush) /\ flushReply' = "asked"
     ELSE /\ flushReply' = IF flushReply = "asked" THEN "asked" ELSE "none"
          /\ queue' = queue
  /\ UNCHANGED <<queueOpen, accepted>>

CloseChannel ==
  /\ queueOpen' = FALSE
  /\ UNCHANGED <<queue, flushReply, accepted>>

-----------------------------------------------------------------------------
\* Registration.  The sender asks over the control connection until the
\* receiver knows the channel.

RegisterReceiver ==
  /\ receiver = "unregistered"
  /\ receiver' = "registered"
  /\ UNCHANGED <<softwareVars, senderVars, linkVars, control, received, sinkVars, losses>>

RequestChannel ==
  /\ sender = "register"
  /\ sender' = "requested"
  /\ control' = "request"
  /\ UNCHANGED <<softwareVars, pendingWrites, waitForAck, encoded, linkVars, receiverVars,
                 sinkVars, losses>>

\* control_socket_handler: the handler of the channel is created, and waits for
\* its connection, before the request is accepted.
HandleChannelRequest ==
  /\ control = "request"
  /\ IF receiver = "registered"
     THEN control' = "ok" /\ receiver' = "waiting"
     ELSE control' = "deny" /\ receiver' = receiver
  /\ UNCHANGED <<softwareVars, senderVars, linkVars, received, sinkVars, losses>>

\* establish_channel and its caller: a denied request is repeated, and so is
\* one whose connection was lost.
HandleChannelResponse ==
  /\ control \in {"ok", "deny", "lost"}
  /\ sender' = IF control = "ok" THEN "connect" ELSE "register"
  /\ control' = "idle"
  /\ UNCHANGED <<softwareVars, pendingWrites, waitForAck, encoded, linkVars, receiverVars,
                 sinkVars, losses>>

\* The control connection is lost with the message it carries.
LoseControl ==
  /\ losses < MaxLosses
  /\ control \in {"request", "ok", "deny"}
  /\ control' = "lost"
  /\ losses' = losses + 1
  /\ UNCHANGED <<softwareVars, senderVars, linkVars, receiverVars, sinkVars>>

\* create_channel and socket_listener: the new connection is given to the
\* handler that waits for it, and closed if there is none.
Connect ==
  /\ sender = "connect"
  /\ sender' = "running"
  /\ link' = IF receiver = "waiting" THEN "up" ELSE "down"
  /\ receiver' = IF receiver = "waiting" THEN "running" ELSE receiver
  /\ toReceiver' = <<>> /\ toSender' = <<>>
  /\ UNCHANGED <<softwareVars, pendingWrites, waitForAck, encoded, control, received, sinkVars,
                 losses>>

\* The connection is lost before create_channel returns: before or after the
\* receiver has attached it.
ConnectFails ==
  /\ losses < MaxLosses
  /\ sender = "connect"
  /\ sender' = "register"
  /\ losses' = losses + 1
  /\ \/ UNCHANGED <<linkVars, receiver>>
     \/ /\ receiver = "waiting" /\ receiver' = "running"
        /\ link' = "down" /\ toReceiver' = <<>> /\ toSender' = <<>>
  /\ UNCHANGED <<softwareVars, pendingWrites, waitForAck, encoded, control, received, sinkVars>>

-----------------------------------------------------------------------------
\* The sender's ChannelHandler::run_internal

\* What is written to a connection that is down is gone, unless the write fails.
Written(messages) == IF link = "up" THEN toReceiver \o messages ELSE toReceiver

\* A new handler starts with nothing: what this one held is not sent again.
ForgetBuffers == pendingWrites' = <<>> /\ waitForAck' = {} /\ encoded' = <<>>

\* The handler ends with an error, and the controller will register the channel again.
FailSender ==
  /\ sender' = "register"
  /\ ForgetBuffers
  /\ link' = "down"

\* handle_request(Data)
ReadData ==
  /\ sender = "running" /\ Cardinality(waitForAck) < MaxPendingAcks
  /\ queue # <<>> /\ Head(queue) # Flush
  /\ queue' = Tail(queue)
  /\ pendingWrites' = Append(pendingWrites, Head(queue))
  /\ UNCHANGED <<queueOpen, flushReply, accepted, sender, waitForAck, encoded, linkVars, control,
                 receiverVars, sinkVars, losses>>

\* As ReadFlush, but without a look at wait_for_ack.
AnswerFlushWithoutAcks ==
  /\ sender = "running" /\ Cardinality(waitForAck) < MaxPendingAcks
  /\ queue # <<>> /\ Head(queue) = Flush
  /\ queue' = Tail(queue)
  /\ encoded' = <<>> /\ toReceiver' = Written(encoded)
  /\ flushReply' = IF pendingWrites = <<>> THEN "yes" ELSE "no"
  /\ UNCHANGED <<queueOpen, accepted, sender, pendingWrites, waitForAck, link, toSender, control,
                 receiverVars, sinkVars, losses>>

\* handle_request(Flush)
ReadFlush ==
  /\ sender = "running" /\ Cardinality(waitForAck) < MaxPendingAcks
  /\ queue # <<>> /\ Head(queue) = Flush
  /\ queue' = Tail(queue)
  /\ encoded' = <<>> /\ toReceiver' = Written(encoded)
  /\ flushReply' = IF pendingWrites = <<>> /\ waitForAck = {} THEN "yes" ELSE "no"
  /\ UNCHANGED <<queueOpen, accepted, sender, pendingWrites, waitForAck, link, toSender, control,
                 receiverVars, sinkVars, losses>>

\* The flush finds the connection broken: the request is dropped with its reply channel.
ReadFlushFails ==
  /\ sender = "running" /\ Cardinality(waitForAck) < MaxPendingAcks
  /\ queue # <<>> /\ Head(queue) = Flush
  /\ encoded # <<>> /\ link = "down"
  /\ queue' = Tail(queue)
  /\ flushReply' = "gone"
  /\ FailSender
  /\ UNCHANGED <<queueOpen, accepted, toReceiver, toSender, control, receiverVars, sinkVars, losses>>

\* read_from_software on a closed and empty queue: `run` sends Close and the handler ends.
ReadEnd ==
  /\ sender = "running" /\ Cardinality(waitForAck) < MaxPendingAcks
  /\ queue = <<>> /\ ~queueOpen
  /\ sender' = "done"
  /\ toReceiver' = Written(Append(encoded, Close))
  /\ link' = "down"
  /\ ForgetBuffers
  /\ UNCHANGED <<softwareVars, toSender, control, receiverVars, sinkVars, losses>>

\* As SendPending, but the last buffer goes first.
SendNewestPending ==
  /\ sender = "running" /\ pendingWrites # <<>>
  /\ LET b == Last(pendingWrites)
     IN  /\ waitForAck' = waitForAck \cup {b}
         /\ encoded' = <<>> /\ toReceiver' = Written(Append(encoded, b))
  /\ pendingWrites' = Front(pendingWrites)
  /\ UNCHANGED <<softwareVars, sender, link, toSender, control, receiverVars, sinkVars, losses>>

\* send_pending, and flush_writes once nothing is left to send; its error on a broken connection is
\* ignored, and the codec keeps what it holds.  To make room, the codec may have to write that out.
\* A feed that fails leaves the buffer where it is.
SendPending ==
  /\ sender = "running" /\ pendingWrites # <<>>
  /\ LET b == Head(pendingWrites)
         keeps == Len(pendingWrites) > 1 \/ link = "down"
     IN  /\ waitForAck' = waitForAck \cup {b}
         /\ \/ Len(pendingWrites) = 1 /\ encoded' = <<>> /\ toReceiver' = Written(Append(encoded, b))
            \/ keeps /\ encoded' = Append(encoded, b) /\ toReceiver' = toReceiver
            \/ keeps /\ encoded # <<>> /\ encoded' = <<b>> /\ toReceiver' = Written(encoded)
  /\ pendingWrites' = Tail(pendingWrites)
  /\ UNCHANGED <<softwareVars, sender, link, toSender, control, receiverVars, sinkVars, losses>>

\* handle_response(AckData).  No receiver sends NAckData.
ReadAck ==
  /\ sender = "running" /\ waitForAck # {}
  /\ toSender # <<>> /\ Head(toSender) \in waitForAck
  /\ toSender' = Tail(toSender)
  /\ waitForAck' = waitForAck \ {Head(toSender)}
  /\ UNCHANGED <<softwareVars, sender, pendingWrites, encoded, link, toReceiver, control,
                 receiverVars, sinkVars, losses>>

\* handle_response(Close): no handler listens to the queue any more.  That closes it, and what is in it
\* stays there as long as the software has its end.
ReadClose ==
  /\ sender = "running" /\ waitForAck # {}
  /\ toSender # <<>> /\ Head(toSender) = Close
  /\ sender' = "done"
  /\ queueOpen' = FALSE
  /\ link' = "down" /\ toSender' = Tail(toSender)
  /\ ForgetBuffers
  /\ UNCHANGED <<queue, flushReply, accepted, toReceiver, control, receiverVars, sinkVars, losses>>

\* read_from_other_side: the connection is lost, or an acknowledgement is
\* unknown.  Nobody looks while no acknowledgement is awaited.
ReadLost ==
  /\ sender = "running" /\ waitForAck # {}
  /\ IF toSender = <<>> THEN link = "down" ELSE Head(toSender) \notin waitForAck \cup {Close}
  /\ FailSender
  /\ UNCHANGED <<softwareVars, toReceiver, toSender, control, receiverVars, sinkVars, losses>>

-----------------------------------------------------------------------------
\* The receiver's channel_handler

ReceiveData ==
  /\ receiver = "running" /\ received = NoBuffer
  /\ toReceiver # <<>> /\ Head(toReceiver) # Close
  /\ received' = Head(toReceiver)
  /\ toReceiver' = Tail(toReceiver)
  /\ UNCHANGED <<softwareVars, senderVars, link, toSender, control, receiver, sinkVars, losses>>

\* The handler ends, and with it the queue to the software.
ReceiveClose ==
  /\ receiver = "running" /\ received = NoBuffer
  /\ toReceiver # <<>> /\ Head(toReceiver) = Close
  /\ receiver' = "done"
  /\ dataQueueOpen' = FALSE
  /\ link' = "down" /\ toReceiver' = Tail(toReceiver)
  /\ UNCHANGED <<softwareVars, senderVars, toSender, control, received, dataQueue, delivered, losses>>

\* The software has room: the buffer is its own, and is acknowledged.  On a broken connection the
\* acknowledgement is lost, and the handler may or may not see that.
PushAndAck ==
  /\ receiver = "running" /\ received # NoBuffer
  /\ dataQueueOpen /\ Len(dataQueue) < ReceiverQueueSize
  /\ dataQueue' = Append(dataQueue, received)
  /\ received' = NoBuffer
  /\ IF link = "up" THEN receiver' = receiver /\ toSender' = Append(toSender, received)
                    ELSE receiver' \in {"running", "retry"} /\ toSender' = toSender
  /\ UNCHANGED <<softwareVars, senderVars, link, toReceiver, control, dataQueueOpen, delivered, losses>>

\* The software has closed its queue: Close goes back instead.
PushToClosed ==
  /\ receiver = "running" /\ received # NoBuffer
  /\ ~dataQueueOpen
  /\ received' = NoBuffer
  /\ receiver' = "done"
  /\ toSender' = IF link = "up" THEN Append(toSender, Close) ELSE toSender
  /\ link' = "down"
  /\ UNCHANGED <<softwareVars, senderVars, toReceiver, control, sinkVars, losses>>

\* The connection is lost: what it still carried was read before.
ReceiveLost ==
  /\ receiver = "running" /\ received = NoBuffer
  /\ toReceiver = <<>> /\ link = "down"
  /\ receiver' = "retry"
  /\ UNCHANGED <<softwareVars, senderVars, linkVars, control, received, sinkVars, losses>>

\* create_control_socket_handler: RetryChannel registers the channel again.
RetryReceiver ==
  /\ receiver = "retry"
  /\ receiver' = "registered"
  /\ UNCHANGED <<softwareVars, senderVars, linkVars, control, received, sinkVars, losses>>

\* NetworkSource::fillTupleBuffer takes a buffer.
ReceiveBuffer ==
  /\ dataQueue # <<>>
  /\ delivered' = delivered \cup {Head(dataQueue)}
  /\ dataQueue' = Tail(dataQueue)
  /\ UNCHANGED <<softwareVars, senderVars, linkVars, control, receiverVars, dataQueueOpen, losses>>

\* The receiving query stops: interrupt_receive, ReceiverChannel::close.
CloseReceiver ==
  /\ receiver # "unregistered" /\ dataQueueOpen
  /\ dataQueueOpen' = FALSE
  /\ UNCHANGED <<softwareVars, senderVars, linkVars, control, receiverVars, dataQueue, delivered, losses>>

\* The data connection is lost with a suffix of what it carries.
LoseConnection ==
  /\ losses < MaxLosses
  /\ link = "up" \/ toReceiver # <<>> \/ toSender # <<>>
  /\ link' = "down"
  /\ \E i \in 0 .. Len(toReceiver), j \in 0 .. Len(toSender) :
       toReceiver' = SubSeq(toReceiver, 1, i) /\ toSender' = SubSeq(toSender, 1, j)
  /\ losses' = losses + 1
  /\ UNCHANGED <<softwareVars, senderVars, control, receiverVars, sinkVars>>

-----------------------------------------------------------------------------
ControlStep == RequestChannel \/ HandleChannelRequest \/ HandleChannelResponse \/ Connect
SenderStep == \/ ReadData \/ ReadFlush \/ ReadFlushFails \/ ReadEnd
              \/ SendPending
              \/ ReadAck \/ ReadClose \/ ReadLost
ReceiverStep == \/ RegisterReceiver \/ RetryReceiver
                \/ ReceiveData \/ ReceiveClose \/ PushAndAck \/ PushToClosed \/ ReceiveLost
Fault == LoseControl \/ ConnectFails \/ LoseConnection

ChannelNext == ControlStep \/ SenderStep \/ ReceiverStep \/ ReceiveBuffer \/ CloseReceiver \/ Fault

\* The tasks of the tokio runtime run, select! takes every branch that stays ready, and
\* the receiving software reads.
ChannelFairness ==
  /\ WF_channelVars(ControlStep)
  /\ WF_channelVars(ReadData \/ ReadFlush \/ ReadFlushFails \/ ReadEnd)
  /\ WF_channelVars(SendPending)
  /\ WF_channelVars(ReadAck \/ ReadClose \/ ReadLost)
  /\ WF_channelVars(ReceiverStep \/ ReceiveBuffer)
=============================================================================
