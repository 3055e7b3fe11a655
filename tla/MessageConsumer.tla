---------------------------- MODULE MessageConsumer ----------------------------
(***************************************************************************)
(* One consumed queue, its dead-letter queue, and the RabbitMQController   *)
(* between them.  The service runs two of these (work orders to produce,   *)
(* saga compensations), alike but for their strategy.                      *)
(*                                                                         *)
(* The queue is taken to have one consumer, with prefetch 1: one replica,  *)
(* and not the moments of a rolling update when two processes consume, one *)
(* message each.  So a channel holds at most one unacknowledged message,   *)
(* and the handler that holds it retries in memory.  When the connection   *)
(* is lost the broker puts the message back and delivers it on the next    *)
(* channel, while the first handler, which nothing cancels, runs on: its   *)
(* ack or nack then reaches nobody.                                        *)
(***************************************************************************)
EXTENDS Integers, Sequences

CONSTANTS
  Message,      \* messages the other services publish
  MaxRetries,   \* RABBITMQ_CONSUMER_MAX_RETRIES
  Republish,    \* DLQ_REPUBLISH_TO_MAIN
  MaxLosses,    \* bound on lost connections and crashes
  NULL

ASSUME ConsumerAssumption ==
  /\ MaxRetries \in Nat \ {0}
  /\ Republish \in BOOLEAN
  /\ MaxLosses \in Nat

(* What a message makes of the controller: foreign has a pattern nobody    *)
(* handles, invalid raises InvalidPayloadError, malformed any other error. *)
Kind == {"sound", "malformed", "invalid", "foreign"}

(* A republished message has lost the {pattern, data} envelope. *)
Packet == [message : Message, enveloped : BOOLEAN]

Channel == 0 .. MaxLosses

Handler ==
  [packet : Packet, attempt : 1 .. MaxRetries,
   at : {"handle", "handled", "failed", "invalid"}]

ASSUME NoHandlerAssumption == NULL \notin Handler

VARIABLES
  content,     \* what kind of message each one is
  arrival,     \* the messages published, in order
  main,        \* the queue
  dlq,         \* its dead-letter queue
  channel,     \* the channel open now: the number of those lost before it
  handler,     \* the run of handleMessage on each channel, or NULL
  losses,      \* connections lost so far
  applied,     \* messages whose effect was committed, in order
  failures,    \* failed attempts on each message
  acked,       \* messages acknowledged on the queue
  discarded    \* packets taken off the dead-letter queue for good

vars == <<content, arrival, main, dlq, channel, handler, losses, applied, failures,
          acked, discarded>>

history == <<applied, failures, acked, discarded>>

Init ==
  /\ content \in [Message -> Kind]
  /\ arrival = <<>> /\ main = <<>> /\ dlq = <<>>
  /\ channel = 0 /\ losses = 0
  /\ handler = [c \in Channel |-> NULL]
  /\ applied = <<>>
  /\ failures = [m \in Message |-> 0]
  /\ acked = {} /\ discarded = {}

Within(queue, m) == \E i \in DOMAIN queue : queue[i].message = m

Published(m) == \E i \in DOMAIN arrival : arrival[i] = m

(* Another service publishes a message: workorder.v1 or saga.v1. *)
Publish(m) ==
  /\ ~Published(m)
  /\ arrival' = Append(arrival, m)
  /\ main' = Append(main, [message |-> m, enveloped |-> TRUE])
  /\ UNCHANGED <<content, dlq, channel, handler, losses, history>>

(* The pattern of the packet selects the handler; without one the server   *)
(* itself rejects the message.                                             *)
HasHandler(packet) == packet.enveloped /\ content[packet.message] # "foreign"

Deliver ==
  /\ handler[channel] = NULL /\ main # <<>>
  /\ main' = Tail(main)
  /\ \/ /\ HasHandler(Head(main))
        /\ handler' = [handler EXCEPT ![channel] =
             [packet |-> Head(main), attempt |-> 1, at |-> "handle"]]
        /\ UNCHANGED dlq
     \/ /\ ~HasHandler(Head(main))
        /\ dlq' = Append(dlq, Head(main))
        /\ UNCHANGED handler
  /\ UNCHANGED <<content, arrival, channel, losses, history>>

At(c, point) == handler[c] # NULL /\ handler[c].at = point

Reach(c, point) == handler' = [handler EXCEPT ![c].at = point]

MessageOf(c) == handler[c].packet.message

(* strategy.handle returns. *)
Succeed(c) ==
  /\ At(c, "handle") /\ content[MessageOf(c)] = "sound"
  /\ Reach(c, "handled")
  /\ applied' = Append(applied, MessageOf(c))
  /\ UNCHANGED <<content, arrival, main, dlq, channel, losses, failures, acked, discarded>>

(* strategy.handle throws: always on a malformed message, now and then on  *)
(* a sound one, and then perhaps after the effect was committed.           *)
Throw(c) ==
  LET m == MessageOf(c) IN
  /\ At(c, "handle") /\ content[m] \in {"sound", "malformed"}
  /\ Reach(c, "failed")
  /\ \/ applied' = applied
     \/ content[m] = "sound" /\ applied' = Append(applied, m)
  /\ failures' = [failures EXCEPT ![m] = @ + 1]
  /\ UNCHANGED <<content, arrival, main, dlq, channel, losses, acked, discarded>>

(* A slip: the refused payload is acknowledged. *)
RefuseThenAck(c) ==
  /\ At(c, "handle") /\ content[MessageOf(c)] = "invalid"
  /\ Reach(c, "handled")
  /\ UNCHANGED <<content, arrival, main, dlq, channel, losses, history>>

(* strategy.handle refuses the payload before it does anything. *)
Refuse(c) ==
  /\ At(c, "handle") /\ content[MessageOf(c)] = "invalid"
  /\ Reach(c, "invalid")
  /\ UNCHANGED <<content, arrival, main, dlq, channel, losses, history>>

EndHandler(c) == handler' = [handler EXCEPT ![c] = NULL]

(* A slip: the loop does not end with the ack. *)
AckAndGoOn(c) ==
  /\ At(c, "handled")
  /\ IF handler[c].attempt < MaxRetries
     THEN handler' = [handler EXCEPT ![c].at = "handle", ![c].attempt = @ + 1]
     ELSE EndHandler(c)
  /\ acked' = IF c = channel THEN acked \cup {MessageOf(c)} ELSE acked
  /\ UNCHANGED <<content, arrival, main, dlq, channel, losses, applied, failures, discarded>>

(* A slip: the ack of a lost channel is taken for one of the live channel. *)
AckOnAnyChannel(c) ==
  /\ At(c, "handled")
  /\ EndHandler(c)
  /\ acked' = acked \cup {MessageOf(c)}
  /\ UNCHANGED <<content, arrival, main, dlq, channel, losses, applied, failures, discarded>>

(* channel.ack: on a dead channel it throws, which is logged. *)
Ack(c) ==
  /\ At(c, "handled")
  /\ EndHandler(c)
  /\ acked' = IF c = channel THEN acked \cup {MessageOf(c)} ELSE acked
  /\ UNCHANGED <<content, arrival, main, dlq, channel, losses, applied, failures, discarded>>

(* A slip: the message is never answered for. *)
EndUnanswered(c) ==
  /\ \/ At(c, "invalid")
     \/ At(c, "failed") /\ handler[c].attempt = MaxRetries
  /\ EndHandler(c)
  /\ UNCHANGED <<content, arrival, main, dlq, channel, losses, history>>

(* A slip: the loop ends one attempt early. *)
NackEarly(c) ==
  /\ \/ At(c, "invalid")
     \/ At(c, "failed") /\ handler[c].attempt >= MaxRetries - 1
  /\ EndHandler(c)
  /\ dlq' = IF c = channel THEN Append(dlq, handler[c].packet) ELSE dlq
  /\ UNCHANGED <<content, arrival, main, channel, losses, history>>

(* A slip: with requeue, as the library does by default. *)
NackAndRequeue(c) ==
  /\ \/ At(c, "invalid")
     \/ At(c, "failed") /\ handler[c].attempt = MaxRetries
  /\ EndHandler(c)
  /\ main' = IF c = channel THEN <<handler[c].packet>> \o main ELSE main
  /\ UNCHANGED <<content, arrival, dlq, channel, losses, history>>

(* channel.nack without requeue: the broker dead-letters the message. *)
Nack(c) ==
  /\ \/ At(c, "invalid")
     \/ At(c, "failed") /\ handler[c].attempt = MaxRetries
  /\ EndHandler(c)
  /\ dlq' = IF c = channel THEN Append(dlq, handler[c].packet) ELSE dlq
  /\ UNCHANGED <<content, arrival, main, channel, losses, history>>

(* A slip: the loop goes on after the last attempt. *)
RetryOnceMore(c) ==
  /\ At(c, "failed") /\ handler[c].attempt <= MaxRetries
  /\ handler' = [handler EXCEPT ![c].at = "handle", ![c].attempt = @ + 1]
  /\ UNCHANGED <<content, arrival, main, dlq, channel, losses, history>>

(* A slip: the attempts are not counted. *)
RetryUncounted(c) ==
  /\ At(c, "failed") /\ handler[c].attempt < MaxRetries
  /\ Reach(c, "handle")
  /\ UNCHANGED <<content, arrival, main, dlq, channel, losses, history>>

(* A slip: a retry is a new delivery from the end of the queue. *)
RetryFromTheTail(c) ==
  /\ At(c, "failed") /\ handler[c].attempt < MaxRetries
  /\ EndHandler(c)
  /\ main' = IF c = channel THEN Append(main, handler[c].packet) ELSE main
  /\ UNCHANGED <<content, arrival, dlq, channel, losses, history>>

(* The sleep between attempts ends. *)
Retry(c) ==
  /\ At(c, "failed") /\ handler[c].attempt < MaxRetries
  /\ handler' = [handler EXCEPT ![c].at = "handle", ![c].attempt = @ + 1]
  /\ UNCHANGED <<content, arrival, main, dlq, channel, losses, history>>

(* The broker loses the consumer: what it had unacknowledged goes back to  *)
(* its place at the head of the queue.                                     *)
LoseChannel ==
  /\ losses < MaxLosses
  /\ losses' = losses + 1
  /\ channel' = channel + 1
  /\ main' = IF handler[channel] = NULL THEN main ELSE <<handler[channel].packet>> \o main
  /\ UNCHANGED <<content, arrival, dlq, history>>

LoseConnection == LoseChannel /\ UNCHANGED handler

Crash == LoseChannel /\ handler' = [c \in Channel |-> NULL]

(* handleDlqMessage runs to its end in one go, but what it sends may be    *)
(* cut off between the publish and the ack.  A publish that throws is      *)
(* logged and the message acknowledged all the same.  The dead-letter      *)
(* queue has no dead-letter queue: what the server rejects there is gone.  *)
ConsumeDlq ==
  LET packet == Head(dlq) IN
  /\ dlq # <<>>
  /\ dlq' = Tail(dlq)
  /\ \/ /\ HasHandler(packet) /\ Republish
        /\ main' = Append(main, [packet EXCEPT !.enveloped = FALSE])
        /\ UNCHANGED discarded
     \/ /\ discarded' = discarded \cup {packet}
        /\ UNCHANGED main
  /\ UNCHANGED <<content, arrival, channel, handler, losses, applied, failures, acked>>

LoseDlqAck ==
  LET packet == Head(dlq) IN
  /\ dlq # <<>> /\ HasHandler(packet) /\ Republish
  /\ losses < MaxLosses
  /\ losses' = losses + 1
  /\ main' = Append(main, [packet EXCEPT !.enveloped = FALSE])
  /\ UNCHANGED <<content, arrival, dlq, channel, handler, history>>

(* strategy.handle ends. *)
HandleEnds(c) == Succeed(c) \/ Throw(c) \/ Refuse(c)

(* The controller goes on after it. *)
Answer(c) == Ack(c) \/ Nack(c) \/ Retry(c)

Run(c) == HandleEnds(c) \/ Answer(c)

Idle ==
  /\ \A m \in Message : Published(m)
  /\ main = <<>> /\ dlq = <<>>
  /\ \A c \in Channel : handler[c] = NULL
  /\ UNCHANGED vars

Next ==
  \/ \E m \in Message : Publish(m)
  \/ Deliver
  \/ \E c \in Channel : Run(c)
  \/ LoseConnection \/ Crash
  \/ ConsumeDlq \/ LoseDlqAck
  \/ Idle

(* An idle consumer takes the next message, and on the live channel the    *)
(* controller does what follows strategy.handle.  That strategy.handle     *)
(* ends, there or on a lost channel, is not assumed; nobody has to         *)
(* publish, and nothing has to fail.                                       *)
Fairness ==
  /\ WF_vars(Deliver)
  /\ WF_vars(Answer(channel))
  /\ WF_vars(ConsumeDlq)

Spec == Init /\ [][Next]_vars /\ Fairness
-----------------------------------------------------------------------------
TypeOK ==
  /\ content \in [Message -> Kind]
  /\ arrival \in Seq(Message) /\ main \in Seq(Packet) /\ dlq \in Seq(Packet)
  /\ losses \in 0 .. MaxLosses /\ channel \in 0 .. losses
  /\ handler \in [Channel -> Handler \cup {NULL}]
  /\ applied \in Seq(Message)
  /\ failures \in [Message -> Nat]
  /\ acked \subseteq Message /\ discarded \subseteq Packet

Held(m) == handler[channel] # NULL /\ MessageOf(channel) = m

Settled(m) == m \in acked \/ \E packet \in discarded : packet.message = m

(* Whatever is lost between the broker and the service, a message that was *)
(* published is queued, or held by the handler on the live channel (which  *)
(* will answer for it), or dead-lettered, or settled.                      *)
NoMessageLost ==
  \A m \in Message :
    Published(m) => Within(main, m) \/ Within(dlq, m) \/ Held(m) \/ Settled(m)

(* A message is acknowledged only once its effect is in the database: an   *)
(* ack never rests on a refused or a failed attempt alone.                 *)
AckedIsApplied ==
  \A m \in acked : \E i \in DOMAIN applied : applied[i] = m

(* A message that the strategy may accept is dead-lettered only after      *)
(* MaxRetries failed attempts, however deliveries and losses fell.         *)
GivenUpAfterRetries ==
  \A i \in DOMAIN dlq :
    LET m == dlq[i].message IN
    content[m] \in {"sound", "malformed"} => failures[m] >= MaxRetries

(* A message fails no more often than MaxRetries for its delivery and for  *)
(* each one that a lost connection can add.                                *)
RetriesAreBounded == \A m \in Message : failures[m] <= MaxRetries * (1 + losses)

(* While no connection is lost, and one process consumes, effects are      *)
(* applied in the order of publication: a message being retried holds the  *)
(* others back.                                                            *)
Before(a, b) == \E i, j \in DOMAIN arrival : i < j /\ arrival[i] = a /\ arrival[j] = b

OrderedWithoutLoss ==
  losses = 0 =>
    \A i, j \in DOMAIN applied : i < j => ~Before(applied[j], applied[i])

(* Every message published is settled in the end, whatever fails, unless   *)
(* strategy.handle hangs for ever on a channel that is never lost: what    *)
(* hangs on lost channels holds nothing back.                              *)
SettledUnlessHung ==
  []<>~At(channel, "handle") => \A m \in Message : Published(m) ~> Settled(m)

(* The fate of a message as it was published, with its envelope. *)
Original(m) == [message |-> m, enveloped |-> TRUE]

FateOf(m) ==
  IF ~Published(m) THEN "unsent"
  ELSE IF m \in acked THEN "acked"
  ELSE IF \E i \in DOMAIN main : main[i] = Original(m) THEN "waiting"
  ELSE IF handler[channel] # NULL /\ handler[channel].packet = Original(m) THEN "held"
  ELSE IF \E i \in DOMAIN dlq : dlq[i] = Original(m) THEN "dead"
  ELSE "buried"

Promise == INSTANCE MessageFate WITH
  fate <- [m \in Message |-> FateOf(m)],
  effected <- {applied[i] : i \in DOMAIN applied}

(* Lost connections, orphaned handlers, republished copies and all: what   *)
(* happens to the published copy of a message is what MessageFate allows.  *)
ImplementsMessageFate == Promise!Spec

(* "Mensagem republicada na fila principal": a sound message put back in   *)
(* the queue is not thrown away without having been handled.               *)
RepublishedIsHandled ==
  \A packet \in discarded :
    ~packet.enveloped /\ content[packet.message] = "sound" => packet.message \in acked
=============================================================================
