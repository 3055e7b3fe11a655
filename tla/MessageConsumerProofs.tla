------------------------- MODULE MessageConsumerProofs -------------------------
(***************************************************************************)
(* Proofs about MessageConsumer: for every set of messages, number of      *)
(* retries, number of losses and setting of the republishing.              *)
(*                                                                         *)
(* NoMessageLost is inductive once the types are known: each step moves a  *)
(* message from one of its four places to another.  What a handler owes is *)
(* in Owes, whichever channel it runs on.                                  *)
(***************************************************************************)
EXTENDS MessageConsumer, SequenceTheorems, TLAPS

Occurs(m, seq) == \E i \in DOMAIN seq : seq[i] = m

Retryable(m) == content[m] \in {"sound", "malformed"}

(* The control point of a handler and the histories agree. *)
Owes(c) ==
  handler[c] # NULL =>
    LET m == MessageOf(c)  h == handler[c] IN
    /\ h.at = "handled" => Occurs(m, applied)
    /\ h.at = "failed" => failures[m] >= h.attempt
    /\ h.at = "handle" => failures[m] >= h.attempt - 1
    /\ h.at = "invalid" => content[m] = "invalid"
    /\ h.packet.enveloped /\ content[m] # "foreign"

GivenUp(packet) ==
  Retryable(packet.message) => failures[packet.message] >= MaxRetries

Inv ==
  /\ TypeOK
  /\ \A c \in Channel : Owes(c)
  /\ AckedIsApplied
  /\ \A i \in DOMAIN dlq : GivenUp(dlq[i])
  /\ \A i \in DOMAIN main : main[i].enveloped \/ GivenUp(main[i])

-----------------------------------------------------------------------------
(* What the queue operations do to the messages in a queue. *)
LEMMA AppendPackets ==
  ASSUME NEW queue \in Seq(Packet), NEW packet \in Packet
  PROVE  /\ Append(queue, packet) \in Seq(Packet)
         /\ \A m : Within(Append(queue, packet), m) <=> Within(queue, m) \/ packet.message = m
         /\ \A i \in DOMAIN Append(queue, packet) :
              Append(queue, packet)[i] = packet \/ \E j \in DOMAIN queue : Append(queue, packet)[i] = queue[j]
  BY DEF Within

LEMMA TailPackets ==
  ASSUME NEW queue \in Seq(Packet), queue # <<>>
  PROVE  /\ Head(queue) \in Packet /\ Tail(queue) \in Seq(Packet)
         /\ \A m : Within(queue, m) => Head(queue).message = m \/ Within(Tail(queue), m)
         /\ \A i \in DOMAIN Tail(queue) : \E j \in DOMAIN queue : Tail(queue)[i] = queue[j]
         /\ \E j \in DOMAIN queue : Head(queue) = queue[j]
  <1>1. /\ Head(queue) \in Packet /\ Tail(queue) \in Seq(Packet)
        /\ DOMAIN queue = 1 .. Len(queue) /\ 1 \in DOMAIN queue /\ Head(queue) = queue[1]
        /\ DOMAIN Tail(queue) = 1 .. Len(queue) - 1
        /\ \A i \in 1 .. Len(queue) - 1 : Tail(queue)[i] = queue[i + 1]
    BY HeadTailProperties, EmptySeq, LenProperties
  <1>2. \A i \in DOMAIN Tail(queue) : i + 1 \in DOMAIN queue
    BY <1>1, LenProperties
  <1>3. ASSUME NEW j \in DOMAIN queue, j # 1
        PROVE  j - 1 \in DOMAIN Tail(queue) /\ Tail(queue)[j - 1] = queue[j]
    BY <1>1, <1>3, LenProperties
  <1>4. \A m : Within(queue, m) => Head(queue).message = m \/ Within(Tail(queue), m)
    BY <1>1, <1>3 DEF Within
  <1> QED BY <1>1, <1>2, <1>4

LEMMA RequeuePackets ==
  ASSUME NEW queue \in Seq(Packet), NEW packet \in Packet
  PROVE  LET new == <<packet>> \o queue IN
         /\ new \in Seq(Packet)
         /\ \A m : Within(queue, m) \/ packet.message = m => Within(new, m)
         /\ \A i \in DOMAIN new : new[i] = packet \/ \E j \in DOMAIN queue : new[i] = queue[j]
  <1> DEFINE new == <<packet>> \o queue
  <1>1. /\ new \in Seq(Packet) /\ Len(queue) \in Nat
        /\ DOMAIN queue = 1 .. Len(queue) /\ DOMAIN new = 1 .. Len(queue) + 1
        /\ new[1] = packet
        /\ \A i \in 2 .. Len(queue) + 1 : new[i] = queue[i - 1]
    <2>1. <<packet>> \in Seq(Packet) /\ Len(<<packet>>) = 1 /\ <<packet>>[1] = packet
      OBVIOUS
    <2> QED BY <2>1, ConcatProperties, LenProperties
  <1> HIDE DEF new
  <1>2. \A j \in DOMAIN queue : j + 1 \in DOMAIN new /\ new[j + 1] = queue[j]
    BY <1>1
  <1>3. 1 \in DOMAIN new BY <1>1
  <1>4. \A m : Within(queue, m) \/ packet.message = m => Within(new, m)
    BY <1>1, <1>2, <1>3 DEF Within
  <1>5. ASSUME NEW i \in DOMAIN new
        PROVE  new[i] = packet \/ \E j \in DOMAIN queue : new[i] = queue[j]
    <2>1. CASE i = 1 BY <1>1, <2>1
    <2>2. CASE i # 1
      <3>1. i - 1 \in DOMAIN queue /\ new[i] = queue[i - 1] BY <1>1, <2>2
      <3> QED BY <3>1
    <2> QED BY <2>1, <2>2
  <1> QED BY <1>1, <1>4, <1>5 DEF new

LEMMA AppendApplied ==
  ASSUME NEW seq \in Seq(Message), NEW m \in Message
  PROVE  /\ Append(seq, m) \in Seq(Message)
         /\ Occurs(m, Append(seq, m))
         /\ \A n : Occurs(n, seq) => Occurs(n, Append(seq, m))
  <1>1. /\ Append(seq, m) \in Seq(Message) /\ Len(seq) \in Nat
        /\ DOMAIN seq = 1 .. Len(seq) /\ DOMAIN Append(seq, m) = 1 .. Len(seq) + 1
        /\ \A i \in 1 .. Len(seq) : Append(seq, m)[i] = seq[i]
        /\ Append(seq, m)[Len(seq) + 1] = m
    BY AppendProperties, LenProperties
  <1>2. Len(seq) + 1 \in DOMAIN Append(seq, m) BY <1>1
  <1>3. \A i \in DOMAIN seq : i \in DOMAIN Append(seq, m) BY <1>1
  <1> QED BY <1>1, <1>2, <1>3 DEF Occurs

-----------------------------------------------------------------------------
LEMMA InitInv == Init => Inv
  <1> SUFFICES ASSUME Init PROVE Inv
    OBVIOUS
  <1>1. TypeOK
    BY ConsumerAssumption DEF Init, TypeOK, Channel
  <1>2. \A c \in Channel : Owes(c)
    BY DEF Init, Owes
  <1>3. DOMAIN dlq = {} /\ DOMAIN main = {}
    BY DEF Init
  <1> QED BY <1>1, <1>2, <1>3 DEF Inv, AckedIsApplied, Init

(* The steps that touch one handler leave the others as they are. *)
LEMMA TypeStep ==
  ASSUME Inv, [Next]_vars
  PROVE  TypeOK'
  <1> USE DEF Inv, TypeOK
  <1>1. ASSUME NEW m \in Message, Publish(m) PROVE TypeOK'
    BY <1>1 DEF Publish, Packet, history
  <1>2. CASE Deliver
    <2>1. main # <<>> /\ Head(main) \in Packet /\ Tail(main) \in Seq(Packet)
      BY <1>2, TailPackets DEF Deliver
    <2>2. 1 \in 1 .. MaxRetries
      BY ConsumerAssumption
    <2>3. [packet |-> Head(main), attempt |-> 1, at |-> "handle"] \in Handler
      BY <2>1, <2>2 DEF Handler
    <2>4. handler' \in [Channel -> Handler \cup {NULL}] /\ dlq' \in Seq(Packet)
      <3>1. CASE HasHandler(Head(main))
        BY <1>2, <3>1, <2>3 DEF Deliver
      <3>2. CASE ~HasHandler(Head(main))
        <4>1. Append(dlq, Head(main)) \in Seq(Packet)
          BY <2>1, AppendPackets
        <4> QED BY <1>2, <3>2, <4>1 DEF Deliver
      <3> QED BY <3>1, <3>2
    <2> QED BY <1>2, <2>1, <2>4 DEF Deliver, history
  <1>3. ASSUME NEW c \in Channel, Run(c) PROVE TypeOK'
    <2>1. handler[c] \in Handler /\ MessageOf(c) \in Message /\ handler[c].packet \in Packet
      BY <1>3, NoHandlerAssumption
      DEF Run, HandleEnds, Answer, Succeed, Throw, Refuse, Ack, Nack, Retry, At, MessageOf, Handler, Packet
    <2>2. CASE Succeed(c)
      BY <2>1, <2>2, AppendApplied DEF Succeed, Reach, Handler
    <2>3. CASE Throw(c)
      <3>1. applied' \in Seq(Message) BY <2>1, <2>3, AppendApplied DEF Throw
      <3>2. handler' \in [Channel -> Handler \cup {NULL}] BY <2>1, <2>3 DEF Throw, Reach, Handler
      <3>3. failures' \in [Message -> Nat] BY <2>1, <2>3 DEF Throw
      <3> QED BY <3>1, <3>2, <3>3, <2>3 DEF Throw
    <2>4. CASE Refuse(c)
      BY <2>1, <2>4 DEF Refuse, Reach, Handler, history
    <2>5. CASE Ack(c)
      BY <2>1, <2>5 DEF Ack, EndHandler
    <2>6. CASE Nack(c)
      BY <2>1, <2>6, AppendPackets DEF Nack, EndHandler, history
    <2>7. CASE Retry(c)
      <3>1. handler[c].attempt + 1 \in 1 .. MaxRetries
        BY <2>1, <2>7, ConsumerAssumption DEF Retry, Handler
      <3>2. handler' \in [Channel -> Handler \cup {NULL}]
        BY <3>1, <2>1, <2>7 DEF Retry, Handler
      <3> QED BY <3>2, <2>7 DEF Retry, history
    <2> QED BY <1>3, <2>2, <2>3, <2>4, <2>5, <2>6, <2>7 DEF Run, HandleEnds, Answer
  <1>4. ASSUME LoseChannel PROVE /\ losses' \in 0 .. MaxLosses /\ channel' \in 0 .. losses'
                                 /\ main' \in Seq(Packet)
    <2>1. losses' \in 0 .. MaxLosses /\ channel' \in 0 .. losses' /\ channel \in Channel
      BY <1>4, ConsumerAssumption DEF LoseChannel, Channel
    <2>2. handler[channel] # NULL => handler[channel].packet \in Packet
      BY <2>1 DEF Handler
    <2> QED BY <1>4, <2>1, <2>2, RequeuePackets DEF LoseChannel
  <1>5. CASE LoseConnection
    BY <1>4, <1>5 DEF LoseConnection, LoseChannel, history
  <1>6. CASE Crash
    BY <1>4, <1>6 DEF Crash, LoseChannel, history
  <1>7. ASSUME NEW packet \in Packet
        PROVE  [packet EXCEPT !.enveloped = FALSE] \in Packet
    BY DEF Packet
  <1>8. CASE ConsumeDlq
    <2>1. Head(dlq) \in Packet /\ Tail(dlq) \in Seq(Packet)
      BY <1>8, TailPackets DEF ConsumeDlq
    <2>2. Append(main, [Head(dlq) EXCEPT !.enveloped = FALSE]) \in Seq(Packet)
      BY <2>1, <1>7, AppendPackets
    <2>3. main' \in Seq(Packet)
      BY <1>8, <2>2 DEF ConsumeDlq
    <2>4. discarded' \subseteq Packet
      BY <1>8, <2>1 DEF ConsumeDlq
    <2> QED BY <1>8, <2>1, <2>3, <2>4 DEF ConsumeDlq
  <1>9. CASE LoseDlqAck
    <2>1. Head(dlq) \in Packet
      BY <1>9, TailPackets DEF LoseDlqAck
    <2>2. main' \in Seq(Packet)
      BY <1>9, <2>1, <1>7, AppendPackets DEF LoseDlqAck
    <2>3. losses' \in 0 .. MaxLosses /\ channel' \in 0 .. losses'
      BY <1>9, ConsumerAssumption DEF LoseDlqAck
    <2> QED BY <1>9, <2>2, <2>3 DEF LoseDlqAck, history
  <1>10. CASE UNCHANGED vars
    BY <1>10 DEF vars
  <1> QED BY <1>1, <1>2, <1>3, <1>5, <1>6, <1>8, <1>9, <1>10 DEF Next, Idle

-----------------------------------------------------------------------------
(* No step takes an effect or a failure back. *)
LEMMA HistoryGrows ==
  ASSUME Inv, [Next]_vars
  PROVE  /\ content' = content
         /\ \A m \in Message : failures'[m] >= failures[m]
         /\ \A m \in Message : Occurs(m, applied) => Occurs(m, applied')
  <1> USE DEF Inv, TypeOK
  <1>1. CASE \E c \in Channel : Succeed(c) \/ Throw(c)
    <2>1. PICK c \in Channel : Succeed(c) \/ Throw(c) BY <1>1
    <2>2. MessageOf(c) \in Message
      BY <2>1 DEF Succeed, Throw, At, MessageOf, Handler, Packet
    <2>3. applied' = applied \/ applied' = Append(applied, MessageOf(c))
      BY <2>1 DEF Succeed, Throw
    <2>4. \A m \in Message : Occurs(m, applied) => Occurs(m, applied')
      BY <2>2, <2>3, AppendApplied
    <2>5. failures' = failures \/ failures' = [failures EXCEPT ![MessageOf(c)] = @ + 1]
      BY <2>1 DEF Succeed, Throw
    <2>6. \A m \in Message : failures[m] \in Nat
      OBVIOUS
    <2>7. \A m \in Message : failures'[m] >= failures[m]
      BY <2>2, <2>5, <2>6
    <2> QED BY <2>1, <2>4, <2>7 DEF Succeed, Throw
  <1>2. CASE UNCHANGED <<content, failures, applied>>
    BY <1>2
  <1> QED
    BY <1>1, <1>2
    DEF Next, vars, history, Publish, Deliver, Run, HandleEnds, Answer, Refuse, Ack, Nack, Retry, LoseConnection,
        Crash, LoseChannel, ConsumeDlq, LoseDlqAck, Idle

GivenUpNext(packet) ==
  Retryable(packet.message) => failures'[packet.message] >= MaxRetries

LEMMA GivenUpForGood ==
  ASSUME Inv, [Next]_vars, NEW packet \in Packet, GivenUp(packet)
  PROVE  GivenUpNext(packet)
  <1> DEFINE m == packet.message
  <1>1. m \in Message
    BY DEF Packet
  <1>2. failures[m] \in Nat /\ failures'[m] \in Nat /\ MaxRetries \in Nat
    BY <1>1, TypeStep, ConsumerAssumption DEF Inv, TypeOK
  <1>3. content' = content /\ failures'[m] >= failures[m]
    BY <1>1, HistoryGrows
  <1> QED BY <1>2, <1>3 DEF GivenUp, GivenUpNext

(* A handler that a step leaves alone keeps what it owes. *)
LEMMA OwesKept ==
  ASSUME Inv, [Next]_vars, NEW c \in Channel, handler'[c] = handler[c]
  PROVE  Owes(c)'
  <1> SUFFICES ASSUME handler[c] # NULL PROVE Owes(c)'
    BY DEF Owes
  <1>1. handler[c] \in Handler /\ handler[c].attempt \in Nat /\ MessageOf(c) \in Message
    BY DEF Inv, TypeOK, Handler, MessageOf, Packet
  <1>2. MessageOf(c)' = MessageOf(c)
    BY DEF MessageOf
  <1>3. failures[MessageOf(c)] \in Nat /\ failures'[MessageOf(c)] \in Nat
    BY <1>1, TypeStep DEF Inv, TypeOK
  <1>4. Owes(c) /\ content' = content /\ failures'[MessageOf(c)] >= failures[MessageOf(c)]
        /\ (Occurs(MessageOf(c), applied) => Occurs(MessageOf(c), applied'))
    BY <1>1, HistoryGrows DEF Inv
  <1> QED BY <1>1, <1>2, <1>3, <1>4 DEF Owes

(* What the step of a handler must establish, besides, about that handler. *)
LEMMA OwesStep ==
  ASSUME Inv, [Next]_vars, NEW c \in Channel
  PROVE  Owes(c)'
  <1> USE DEF Inv, TypeOK
  <1> SUFFICES ASSUME handler'[c] # handler[c], handler'[c] # NULL PROVE Owes(c)'
    BY OwesKept DEF Owes
  <1>1. CASE Deliver
    <2>1. /\ channel = c /\ main # <<>> /\ HasHandler(Head(main))
          /\ handler'[c] = [packet |-> Head(main), attempt |-> 1, at |-> "handle"]
          /\ UNCHANGED <<content, failures>>
      BY <1>1 DEF Deliver, history
    <2>2. Head(main) \in Packet
      BY <2>1, TailPackets
    <2> QED BY <2>1, <2>2 DEF Owes, MessageOf, HasHandler, Packet
  <1>2. CASE Run(c)
    <2>1. /\ handler[c] \in Handler /\ handler[c] # NULL /\ handler[c].attempt \in Nat
          /\ MessageOf(c) \in Message /\ failures[MessageOf(c)] \in Nat
      BY <1>2 DEF Run, HandleEnds, Answer, Succeed, Throw, Refuse, Ack, Nack, Retry, At, Handler, MessageOf, Packet
    <2>2. Owes(c) BY DEF Inv
    <2>3. CASE Succeed(c)
      <3>1. handler'[c] = [handler[c] EXCEPT !.at = "handled"] /\ content' = content
        BY <2>3 DEF Succeed, Reach
      <3>2. Occurs(MessageOf(c), applied')
        BY <2>1, <2>3, AppendApplied DEF Succeed
      <3> QED BY <2>1, <2>2, <3>1, <3>2 DEF Owes, Handler, MessageOf
    <2>4. CASE Throw(c)
      <3>1. handler'[c] = [handler[c] EXCEPT !.at = "failed"] /\ content' = content
        BY <2>4 DEF Throw, Reach
      <3>2. failures[MessageOf(c)] >= handler[c].attempt - 1
        BY <2>1, <2>2, <2>4 DEF Owes, Throw, At
      <3>3. failures'[MessageOf(c)] = failures[MessageOf(c)] + 1
        BY <2>1, <2>4 DEF Throw
      <3>4. failures'[MessageOf(c)] >= handler[c].attempt
        BY <2>1, <3>2, <3>3
      <3> QED BY <2>1, <2>2, <3>1, <3>4 DEF Owes, Handler, MessageOf
    <2>5. CASE Refuse(c)
      <3>1. handler'[c] = [handler[c] EXCEPT !.at = "invalid"] /\ content' = content
        BY <2>5 DEF Refuse, Reach
      <3> QED BY <2>1, <2>2, <2>5, <3>1 DEF Refuse, Owes, Handler, MessageOf
    <2>6. CASE Retry(c)
      <3>1. handler'[c] = [handler[c] EXCEPT !.at = "handle", !.attempt = @ + 1]
            /\ UNCHANGED <<content, failures>>
        BY <2>6 DEF Retry, history
      <3>2. failures[MessageOf(c)] >= handler[c].attempt + 1 - 1
        BY <2>1, <2>2, <2>6 DEF Retry, At, Owes
      <3> QED BY <2>1, <2>2, <3>1, <3>2 DEF Owes, Handler, MessageOf
    <2> QED BY <1>2, <2>3, <2>4, <2>5, <2>6 DEF Run, HandleEnds, Answer, Ack, Nack, EndHandler
  <1>3. ASSUME NEW d \in Channel, Run(d), d # c PROVE handler'[c] = handler[c]
    BY <1>3 DEF Run, HandleEnds, Answer, Succeed, Throw, Refuse, Ack, Nack, Retry, Reach, EndHandler
  <1> QED
    BY <1>1, <1>2, <1>3
    DEF Next, vars, Publish, LoseConnection, Crash, ConsumeDlq, LoseDlqAck, Idle

LEMMA AckedStep ==
  ASSUME Inv, [Next]_vars
  PROVE  AckedIsApplied'
  <1>1. ASSUME NEW m \in acked' PROVE Occurs(m, applied')
    <2>1. CASE m \in acked
      <3>1. Occurs(m, applied) /\ m \in Message
        BY <2>1 DEF Inv, TypeOK, AckedIsApplied, Occurs
      <3> QED BY <3>1, HistoryGrows
    <2>2. CASE m \notin acked
      <3>1. PICK c \in Channel : Ack(c) /\ m = MessageOf(c)
        BY <1>1, <2>2
        DEF Next, vars, history, Publish, Deliver, Run, HandleEnds, Answer, Succeed, Throw, Refuse, Ack, Nack, Retry,
            LoseConnection, Crash, LoseChannel, ConsumeDlq, LoseDlqAck, Idle
      <3> QED BY <3>1 DEF Ack, At, Inv, Owes
    <2> QED BY <2>1, <2>2
  <1> QED BY <1>1 DEF AckedIsApplied, Occurs

(* What enters the dead-letter queue is given up, or was never retryable. *)
LEMMA DlqStep ==
  ASSUME Inv, [Next]_vars
  PROVE  \A i \in DOMAIN dlq' : GivenUpNext(dlq'[i])
  <1> USE DEF Inv, TypeOK
  <1>1. ASSUME NEW packet \in Packet, GivenUp(packet) PROVE GivenUpNext(packet)
    BY <1>1, GivenUpForGood
  <1>2. \A i \in DOMAIN dlq : GivenUpNext(dlq[i])
    BY <1>1
  <1>3. ASSUME NEW packet \in Packet, dlq' = Append(dlq, packet), GivenUp(packet)
        PROVE  \A i \in DOMAIN dlq' : GivenUpNext(dlq'[i])
    BY <1>1, <1>2, <1>3, AppendPackets
  <1>4. CASE Deliver
    <2>1. main # <<>> /\ Head(main) \in Packet /\ \E j \in DOMAIN main : Head(main) = main[j]
      BY <1>4, TailPackets DEF Deliver
    <2>2. CASE HasHandler(Head(main))
      BY <1>2, <1>4, <2>2 DEF Deliver
    <2>3. CASE ~HasHandler(Head(main))
      <3>1. GivenUp(Head(main))
        BY <2>1, <2>3 DEF HasHandler, GivenUp, Retryable
      <3> QED BY <1>3, <1>4, <2>1, <2>3, <3>1 DEF Deliver
    <2> QED BY <2>2, <2>3
  <1>5. ASSUME NEW c \in Channel, Nack(c)
        PROVE  \A i \in DOMAIN dlq' : GivenUpNext(dlq'[i])
    <2>1. handler[c] \in Handler /\ handler[c] # NULL /\ handler[c].packet \in Packet
      BY <1>5 DEF Nack, At, Handler
    <2>2. GivenUp(handler[c].packet)
      BY <1>5, <2>1 DEF Nack, At, Owes, GivenUp, Retryable, MessageOf
    <2> QED BY <1>2, <1>3, <1>5, <2>1, <2>2 DEF Nack
  <1>6. CASE ConsumeDlq
    <2>1. \A i \in DOMAIN Tail(dlq) : \E j \in DOMAIN dlq : Tail(dlq)[i] = dlq[j]
      BY <1>6, TailPackets DEF ConsumeDlq
    <2> QED BY <1>2, <1>6, <2>1 DEF ConsumeDlq
  <1>7. CASE UNCHANGED dlq
    BY <1>2, <1>7
  <1> QED
    BY <1>4, <1>5, <1>6, <1>7
    DEF Next, vars, Publish, Run, HandleEnds, Answer, Succeed, Throw, Refuse, Ack, Retry, LoseConnection,
        Crash, LoseChannel, LoseDlqAck, Idle

(* What returns to the queue still has its envelope, or was given up. *)
LEMMA MainStep ==
  ASSUME Inv, [Next]_vars
  PROVE  \A i \in DOMAIN main' : main'[i].enveloped \/ GivenUpNext(main'[i])
  <1> USE DEF Inv, TypeOK
  <1> DEFINE Fit(packet) == packet.enveloped \/ GivenUpNext(packet)
  <1> SUFFICES \A i \in DOMAIN main' : Fit(main'[i])
    OBVIOUS
  <1>1. ASSUME NEW packet \in Packet, GivenUp(packet) PROVE Fit(packet)
    BY <1>1, GivenUpForGood
  <1>2. \A i \in DOMAIN main : Fit(main[i])
    BY <1>1
  <1> HIDE DEF Fit
  <1>3. ASSUME NEW packet \in Packet, main' = Append(main, packet), Fit(packet)
        PROVE  \A i \in DOMAIN main' : Fit(main'[i])
    BY <1>2, <1>3, AppendPackets
  <1>4. ASSUME NEW m \in Message, Publish(m) PROVE \A i \in DOMAIN main' : Fit(main'[i])
    <2>1. [message |-> m, enveloped |-> TRUE] \in Packet
      BY DEF Packet
    <2>2. Fit([message |-> m, enveloped |-> TRUE])
      BY DEF Fit
    <2> QED BY <1>3, <1>4, <2>1, <2>2 DEF Publish
  <1>5. CASE Deliver
    <2>1. \A i \in DOMAIN Tail(main) : \E j \in DOMAIN main : Tail(main)[i] = main[j]
      BY <1>5, TailPackets DEF Deliver
    <2> QED BY <1>2, <1>5, <2>1 DEF Deliver
  <1>6. ASSUME LoseChannel PROVE \A i \in DOMAIN main' : Fit(main'[i])
    <2>1. CASE handler[channel] = NULL
      BY <1>2, <1>6, <2>1 DEF LoseChannel
    <2>2. CASE handler[channel] # NULL
      <3>1. channel \in Channel
        BY ConsumerAssumption DEF Channel
      <3>2. handler[channel].packet \in Packet /\ handler[channel].packet.enveloped
        BY <2>2, <3>1 DEF Handler, Owes
      <3>3. Fit(handler[channel].packet)
        BY <3>2 DEF Fit
      <3>4. main' = <<handler[channel].packet>> \o main
        BY <1>6, <2>2 DEF LoseChannel
      <3> QED BY <1>2, <3>2, <3>3, <3>4, RequeuePackets
    <2> QED BY <2>1, <2>2
  <1>7. ASSUME dlq # <<>>, main' = Append(main, [Head(dlq) EXCEPT !.enveloped = FALSE])
        PROVE  \A i \in DOMAIN main' : Fit(main'[i])
    <2> DEFINE bare == [Head(dlq) EXCEPT !.enveloped = FALSE]
    <2>1. Head(dlq) \in Packet /\ GivenUp(Head(dlq))
      BY <1>7, TailPackets
    <2>2. bare \in Packet /\ GivenUp(bare)
      BY <2>1 DEF Packet, GivenUp, Retryable
    <2> QED BY <1>1, <1>3, <1>7, <2>2
  <1>8. CASE UNCHANGED main
    BY <1>2, <1>8
  <1> QED
    BY <1>4, <1>5, <1>6, <1>7, <1>8
    DEF Next, vars, history, Run, HandleEnds, Answer, Succeed, Throw, Refuse, Ack, Nack, Retry, LoseConnection,
        Crash, ConsumeDlq, LoseDlqAck, Idle

LEMMA InvStep == Inv /\ [Next]_vars => Inv'
  <1> SUFFICES ASSUME Inv, [Next]_vars PROVE Inv'
    OBVIOUS
  <1>1. TypeOK' BY TypeStep
  <1>2. \A c \in Channel : Owes(c)' BY OwesStep
  <1>3. AckedIsApplied' BY AckedStep
  <1>4. content' = content
    BY HistoryGrows
  <1>5. (\A i \in DOMAIN dlq : GivenUp(dlq[i]))'
    BY <1>4, DlqStep DEF GivenUp, GivenUpNext, Retryable
  <1>6. (\A i \in DOMAIN main : main[i].enveloped \/ GivenUp(main[i]))'
    BY <1>4, MainStep DEF GivenUp, GivenUpNext, Retryable
  <1> QED BY <1>1, <1>2, <1>3, <1>5, <1>6 DEF Inv

LEMMA InvHolds == Spec => []Inv
  <1>1. Init => Inv BY InitInv
  <1>2. Inv /\ [Next]_vars => Inv' BY InvStep
  <1> QED BY <1>1, <1>2, PTL DEF Spec

-----------------------------------------------------------------------------
(* Every variable keeps its type: in particular the attempt counter stays  *)
(* within 1 .. MaxRetries and the channel numbers follow the losses.       *)
THEOREM ConsumerTypes == Spec => []TypeOK
  <1>1. Inv => TypeOK BY DEF Inv
  <1> QED BY <1>1, InvHolds, PTL

(* handleMessage acknowledges a message only once its effect is committed. *)
THEOREM AckIsEarned == Spec => []AckedIsApplied
  <1>1. Inv => AckedIsApplied BY DEF Inv
  <1> QED BY <1>1, InvHolds, PTL

(* handleMessage never gives a message up before MaxRetries failures.      *)
THEOREM DeadLettersAreGivenUp == Spec => []GivenUpAfterRetries
  <1>1. Inv => GivenUpAfterRetries
    <2> SUFFICES ASSUME Inv, NEW i \in DOMAIN dlq, Retryable(dlq[i].message)
                 PROVE  failures[dlq[i].message] >= MaxRetries
      BY DEF GivenUpAfterRetries, Retryable
    <2> QED BY DEF Inv, GivenUp
  <1> QED BY <1>1, InvHolds, PTL

-----------------------------------------------------------------------------
Placed(m) == Within(main, m) \/ Within(dlq, m) \/ Held(m) \/ Settled(m)

(* A step moves the message at the head of a queue, or the one a handler   *)
(* holds; every other message stays where it is.                           *)
LEMMA PlacedStep ==
  ASSUME Inv, [Next]_vars, NEW m \in Message, Placed(m)
  PROVE  Placed(m)'
  <1> USE DEF Inv, TypeOK
  <1>1. channel \in Channel
    BY ConsumerAssumption DEF Channel
  <1>2. ASSUME NEW n \in Message, Publish(n) PROVE Placed(m)'
    <2>1. [message |-> n, enveloped |-> TRUE] \in Packet BY DEF Packet
    <2>2. Within(main, m) => Within(main', m)
      BY <1>2, <2>1, AppendPackets DEF Publish
    <2> QED BY <1>2, <2>2 DEF Publish, Placed, Held, Settled, MessageOf, Within, history
  <1>3. CASE Deliver
    <2>1. main # <<>> /\ Head(main) \in Packet BY <1>3, TailPackets DEF Deliver
    <2>2. Within(main, m) => Head(main).message = m \/ Within(main', m)
      BY <1>3, <2>1, TailPackets DEF Deliver
    <2>3. CASE HasHandler(Head(main))
      <3>1. handler'[channel'] = [packet |-> Head(main), attempt |-> 1, at |-> "handle"]
        BY <1>1, <1>3, <2>3 DEF Deliver
      <3>4. handler'[channel'].packet = Head(main) /\ handler'[channel'] # NULL
        <4>1. 1 \in 1 .. MaxRetries BY ConsumerAssumption
        <4>2. handler'[channel'] \in Handler BY <2>1, <3>1, <4>1 DEF Handler
        <4> QED BY <3>1, <4>2, NoHandlerAssumption
      <3>2. Head(main).message = m => Held(m)'
        BY <3>4 DEF Held, MessageOf
      <3>3. ~Held(m) /\ (Within(dlq, m) => Within(dlq', m)) /\ (Settled(m) => Settled(m)')
        BY <1>3, <2>3 DEF Deliver, Held, Settled, Within, history
      <3> QED BY <2>2, <3>2, <3>3 DEF Placed
    <2>4. CASE ~HasHandler(Head(main))
      <3>3. dlq' = Append(dlq, Head(main))
        BY <1>3, <2>4 DEF Deliver
      <3>1. Within(dlq', m) <=> Within(dlq, m) \/ Head(main).message = m
        BY <2>1, <3>3, AppendPackets
      <3>2. ~Held(m) /\ (Settled(m) => Settled(m)')
        BY <1>3, <2>4 DEF Deliver, Held, Settled, history
      <3> QED BY <2>2, <3>1, <3>2 DEF Placed
    <2> QED BY <2>3, <2>4
  <1>4. ASSUME NEW c \in Channel, Succeed(c) \/ Throw(c) \/ Refuse(c) \/ Retry(c) PROVE Placed(m)'
    <2>1. UNCHANGED <<main, dlq, channel, acked, discarded>> /\ handler[c] \in Handler
      BY <1>4 DEF Succeed, Throw, Refuse, Retry, At, history
    <2>2. handler'[c] # NULL /\ handler'[c].packet = handler[c].packet
      <3>1. \/ \E point : handler'[c] = [handler[c] EXCEPT !.at = point]
            \/ handler'[c] = [handler[c] EXCEPT !.at = "handle", !.attempt = @ + 1]
        BY <1>4 DEF Succeed, Throw, Refuse, Retry, Reach
      <3>2. handler'[c].packet = handler[c].packet /\ handler'[c].at \in {"handle", "handled", "failed", "invalid"}
        BY <1>4, <2>1 DEF Succeed, Throw, Refuse, Retry, Reach, Handler
      <3>3. handler'[c].attempt \in 1 .. MaxRetries
        BY <1>4, <2>1, ConsumerAssumption DEF Succeed, Throw, Refuse, Retry, Reach, Handler
      <3> QED BY <2>1, <3>1, <3>2, <3>3, NoHandlerAssumption DEF Handler
    <2>3. \A d \in Channel : d # c => handler'[d] = handler[d]
      BY <1>4 DEF Succeed, Throw, Refuse, Retry, Reach
    <2>4. Held(m) => Held(m)'
      BY <1>1, <2>1, <2>2, <2>3, NoHandlerAssumption DEF Held, MessageOf
    <2> QED BY <2>1, <2>4 DEF Placed, Settled, Within
  <1>5. ASSUME NEW c \in Channel, Ack(c) PROVE Placed(m)'
    <2>1. Held(m) => Held(m)' \/ m \in acked'
      BY <1>1, <1>5 DEF Ack, Held, MessageOf, EndHandler
    <2>2. acked \subseteq acked' /\ UNCHANGED <<main, dlq, discarded>>
      BY <1>5 DEF Ack
    <2> QED BY <2>1, <2>2 DEF Placed, Settled, Within
  <1>6. ASSUME NEW c \in Channel, Nack(c) PROVE Placed(m)'
    <2>1. handler[c] \in Handler /\ handler[c].packet \in Packet
      BY <1>6 DEF Nack, At, Handler
    <2>2. UNCHANGED <<main, channel, acked, discarded>>
      BY <1>6 DEF Nack, history
    <2>3. CASE c = channel
      <3>1. Within(dlq', m) <=> Within(dlq, m) \/ handler[c].packet.message = m
        BY <1>6, <2>1, <2>3, AppendPackets DEF Nack
      <3> QED BY <2>2, <2>3, <3>1 DEF Placed, Settled, Within, Held, MessageOf
    <2>4. CASE c # channel
      <3>1. Held(m) => Held(m)' BY <1>1, <1>6, <2>2, <2>4 DEF Nack, EndHandler, Held, MessageOf
      <3> QED BY <1>6, <2>2, <2>4, <3>1 DEF Nack, Placed, Settled, Within
    <2> QED BY <2>3, <2>4
  <1>7. ASSUME LoseChannel PROVE Placed(m)'
    <2>1. UNCHANGED <<dlq, acked, discarded>>
      BY <1>7 DEF LoseChannel, history
    <2>2. (Within(main, m) \/ Held(m)) => Within(main', m)
      <3>1. CASE handler[channel] = NULL
        BY <1>7, <3>1 DEF LoseChannel, Held
      <3>2. CASE handler[channel] # NULL
        <4>1. handler[channel].packet \in Packet BY <1>1, <3>2 DEF Handler
        <4>2. main' = <<handler[channel].packet>> \o main BY <1>7, <3>2 DEF LoseChannel
        <4> QED BY <4>1, <4>2, RequeuePackets DEF Held, MessageOf
      <3> QED BY <3>1, <3>2
    <2> QED BY <2>1, <2>2 DEF Placed, Settled, Within
  <1>8. ASSUME dlq # <<>> PROVE [Head(dlq) EXCEPT !.enveloped = FALSE] \in Packet
    <2>1. Head(dlq) \in Packet BY <1>8, TailPackets
    <2> QED BY <2>1 DEF Packet
  <1>9. CASE ConsumeDlq
    <2>1. dlq # <<>> /\ Head(dlq) \in Packet /\ UNCHANGED <<channel, handler, acked>>
      BY <1>9, TailPackets DEF ConsumeDlq
    <2>2. Within(dlq, m) => Head(dlq).message = m \/ Within(dlq', m)
      BY <1>9, <2>1, TailPackets DEF ConsumeDlq
    <2>3. CASE main' = Append(main, [Head(dlq) EXCEPT !.enveloped = FALSE]) /\ UNCHANGED discarded
      <3>1. Within(main', m) <=> Within(main, m) \/ [Head(dlq) EXCEPT !.enveloped = FALSE].message = m
        BY <1>8, <2>1, <2>3, AppendPackets
      <3>2. [Head(dlq) EXCEPT !.enveloped = FALSE].message = Head(dlq).message
        BY <2>1 DEF Packet
      <3> QED BY <2>1, <2>2, <2>3, <3>1, <3>2 DEF Placed, Settled, Held, MessageOf
    <2>4. CASE discarded' = discarded \cup {Head(dlq)} /\ UNCHANGED main
      <3>1. Head(dlq).message = m \/ Settled(m) => Settled(m)'
        BY <2>1, <2>4 DEF Settled
      <3> QED BY <2>1, <2>2, <2>4, <3>1 DEF Placed, Held, MessageOf, Within
    <2> QED BY <1>9, <2>3, <2>4 DEF ConsumeDlq
  <1>10. CASE LoseDlqAck
    <2>1. Within(main, m) => Within(main', m)
      BY <1>8, <1>10, AppendPackets DEF LoseDlqAck
    <2> QED BY <1>10, <2>1 DEF LoseDlqAck, Placed, Settled, Held, MessageOf, Within, history
  <1>11. CASE UNCHANGED vars
    BY <1>11 DEF vars, history, Placed, Settled, Held, MessageOf, Within
  <1> QED
    BY <1>2, <1>3, <1>4, <1>5, <1>6, <1>7, <1>9, <1>10, <1>11
    DEF Next, Run, HandleEnds, Answer, LoseConnection, Crash, Idle

LEMMA LostInit == Init => NoMessageLost
  BY DEF Init, NoMessageLost, Published

LEMMA LostStep == Inv /\ NoMessageLost /\ [Next]_vars => NoMessageLost'
  <1> SUFFICES ASSUME Inv, NoMessageLost, [Next]_vars, NEW m \in Message, Published(m)'
               PROVE  Placed(m)'
    BY DEF NoMessageLost, Placed
  <1>1. CASE Published(m)
    BY <1>1, PlacedStep DEF NoMessageLost, Placed
  <1>2. CASE ~Published(m)
    <2>1. ASSUME NEW n \in Message, Publish(n) PROVE Placed(m)'
      <3>1. m = n
        <4>1. arrival' = Append(arrival, n) /\ arrival \in Seq(Message)
          BY <2>1 DEF Publish, Inv, TypeOK
        <4> QED BY <1>2, <4>1, AppendProperties DEF Published
      <3>2. [message |-> m, enveloped |-> TRUE] \in Packet
        BY DEF Packet
      <3>3. Within(main', m)
        BY <2>1, <3>1, <3>2, AppendPackets DEF Publish, Inv, TypeOK
      <3> QED BY <3>3 DEF Placed, Within
    <2>2. CASE UNCHANGED arrival
      BY <1>2, <2>2 DEF Published
    <2> QED
      BY <2>1, <2>2
      DEF Next, vars, Deliver, Run, HandleEnds, Answer, Succeed, Throw, Refuse, Ack, Nack, Retry,
          LoseConnection, Crash, LoseChannel, ConsumeDlq, LoseDlqAck, Idle
  <1> QED BY <1>1, <1>2

(* Whatever connections are lost and however often the service crashes, a  *)
(* message that was published is queued, held, dead-lettered or settled.   *)
THEOREM NothingIsLost == Spec => []NoMessageLost
  BY LostInit, LostStep, InvHolds, PTL DEF Spec

-----------------------------------------------------------------------------
(* What was thrown away had been given up: it came off the dead letters.   *)
Abandoned == \A packet \in discarded : GivenUp(packet)

LEMMA AbandonedInit == Init => Abandoned
  BY DEF Init, Abandoned

LEMMA AbandonedStep == Inv /\ Abandoned /\ [Next]_vars => Abandoned'
  <1> SUFFICES ASSUME Inv, Abandoned, [Next]_vars, NEW packet \in discarded'
               PROVE  GivenUpNext(packet)
    BY HistoryGrows DEF Abandoned, GivenUp, GivenUpNext, Retryable
  <1>1. CASE packet \in discarded
    BY <1>1, GivenUpForGood DEF Abandoned, Inv, TypeOK
  <1>2. CASE packet \notin discarded
    <2>1. dlq # <<>> /\ packet = Head(dlq)
      BY <1>2
      DEF Next, vars, history, Publish, Deliver, Run, HandleEnds, Answer, Succeed, Throw, Refuse, Ack, Nack,
          Retry, LoseConnection, Crash, LoseChannel, ConsumeDlq, LoseDlqAck, Idle
    <2>2. packet \in Packet /\ \E j \in DOMAIN dlq : packet = dlq[j]
      BY <2>1, TailPackets DEF Inv, TypeOK
    <2> QED BY <2>2, GivenUpForGood DEF Inv
  <1> QED BY <1>1, <1>2
=============================================================================
