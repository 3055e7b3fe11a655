--------------------------- MODULE MessageFateProofs ---------------------------
(***************************************************************************)
(* Proofs about the order of effects in MessageConsumer, and that it       *)
(* implements MessageFate.                                                 *)
(*                                                                         *)
(* Both rest on there being one copy of each message with its envelope:    *)
(* in the queue, with the handler on the live channel, or in the dead      *)
(* letters.  What is republished has none and is not counted.              *)
(***************************************************************************)
EXTENDS MessageConsumerProofs

(* Whatever is somewhere was published, and once. *)
OnlyPublished ==
  /\ \A i, j \in DOMAIN arrival : arrival[i] = arrival[j] => i = j
  /\ \A i \in DOMAIN main : Published(main[i].message)
  /\ \A i \in DOMAIN dlq : Published(dlq[i].message)
  /\ \A c \in Channel : handler[c] # NULL => Published(MessageOf(c)) /\ c <= channel
  /\ \A i \in DOMAIN applied : Published(applied[i])
  /\ \A m \in acked : Published(m)

LEMMA AppendArrival ==
  ASSUME NEW seq \in Seq(Message), NEW m \in Message
  PROVE  LET new == Append(seq, m) IN
         /\ DOMAIN seq = 1 .. Len(seq) /\ Len(seq) \in Nat
         /\ DOMAIN new = 1 .. Len(seq) + 1
         /\ new[Len(seq) + 1] = m
         /\ \A i \in DOMAIN seq : i \in DOMAIN new /\ new[i] = seq[i]
  BY AppendProperties, LenProperties

PublishedNext(m) == \E i \in DOMAIN arrival' : arrival'[i] = m

(* Publishing adds to what is published, and nothing else does. *)
LEMMA PublishedStep ==
  ASSUME Inv, [Next]_vars
  PROVE  \A m : Published(m) => PublishedNext(m)
  <1>1. CASE \E m \in Message : Publish(m)
    <2>1. PICK m \in Message : Publish(m) BY <1>1
    <2>2. arrival \in Seq(Message) /\ arrival' = Append(arrival, m)
      BY <2>1 DEF Publish, Inv, TypeOK
    <2> QED BY <2>2, AppendArrival DEF Published, PublishedNext
  <1>2. CASE UNCHANGED arrival
    BY <1>2 DEF Published, PublishedNext
  <1> QED
    BY <1>1, <1>2
    DEF Next, vars, Deliver, Run, HandleEnds, Answer, Succeed, Throw, Refuse, Ack, Nack, Retry,
        LoseConnection, Crash, LoseChannel, ConsumeDlq, LoseDlqAck, Idle

(* Only Publish brings something new; the other steps move what is there.  *)
LEMMA OnlyPublishedStep ==
  ASSUME Inv, OnlyPublished, [Next]_vars
  PROVE  OnlyPublished'
  <1> USE DEF Inv, TypeOK
  <1>1. \A m : Published(m) => PublishedNext(m)
    BY PublishedStep
  <1> DEFINE Known(queue) == \A i \in DOMAIN queue : PublishedNext(queue[i].message)
  <1>2. Known(main) /\ Known(dlq)
    BY <1>1 DEF OnlyPublished
  <1>3. ASSUME NEW queue \in Seq(Packet), Known(queue), NEW packet \in Packet,
               PublishedNext(packet.message)
        PROVE  Known(Append(queue, packet)) /\ Known(<<packet>> \o queue)
    BY <1>3, AppendPackets, RequeuePackets
  <1>4. ASSUME NEW queue \in Seq(Packet), Known(queue), queue # <<>>
        PROVE  Known(Tail(queue)) /\ Head(queue) \in Packet /\ PublishedNext(Head(queue).message)
    BY <1>4, TailPackets
  <1> HIDE DEF Known
  <1>5. channel \in Channel
    BY ConsumerAssumption DEF Channel
  <1>6. \A c \in Channel : handler[c] # NULL =>
          /\ handler[c].packet \in Packet /\ MessageOf(c) \in Message
          /\ PublishedNext(MessageOf(c)) /\ c <= channel
    BY <1>1 DEF OnlyPublished, Handler, MessageOf, Packet
  <1>7. ASSUME UNCHANGED <<arrival, applied, acked>>,
               \A c \in Channel : handler'[c] # NULL => PublishedNext(handler'[c].packet.message) /\ c <= channel',
               Known(main'), Known(dlq')
        PROVE  OnlyPublished'
    BY <1>1, <1>7 DEF OnlyPublished, Known, Published, PublishedNext, MessageOf
  <1>8. ASSUME NEW m \in Message, Publish(m) PROVE OnlyPublished'
    <2>1. arrival' = Append(arrival, m) /\ ~Published(m) /\ Original(m) \in Packet
          /\ main' = Append(main, Original(m)) /\ Original(m).message = m
      BY <1>8 DEF Publish, Packet, Original
    <2>2. PublishedNext(m)
      <3>1. /\ DOMAIN arrival' = 1 .. Len(arrival) + 1 /\ Len(arrival) \in Nat
            /\ arrival'[Len(arrival) + 1] = m
        BY <2>1, AppendArrival
      <3>2. Len(arrival) + 1 \in DOMAIN arrival'
        BY <3>1
      <3> QED BY <3>1, <3>2 DEF PublishedNext
    <2>3. Known(main')
      BY <1>2, <1>3, <2>1, <2>2
    <2>4. \A i, j \in DOMAIN arrival' : arrival'[i] = arrival'[j] => i = j
      <3>1. /\ DOMAIN arrival = 1 .. Len(arrival) /\ Len(arrival) \in Nat
            /\ DOMAIN arrival' = 1 .. Len(arrival) + 1
            /\ arrival'[Len(arrival) + 1] = m
            /\ \A i \in DOMAIN arrival : arrival'[i] = arrival[i] /\ arrival[i] # m
        BY <2>1, AppendArrival DEF Published
      <3>2. \A i \in DOMAIN arrival' : i \in DOMAIN arrival \/ i = Len(arrival) + 1
        BY <3>1
      <3>3. \A i, j \in DOMAIN arrival : arrival[i] = arrival[j] => i = j
        BY DEF OnlyPublished
      <3> QED BY <3>1, <3>2, <3>3
    <2>5. UNCHANGED <<dlq, handler, channel, applied, acked>>
      BY <1>8 DEF Publish, history
    <2>6. \A c \in Channel : handler'[c] # NULL => PublishedNext(handler'[c].packet.message) /\ c <= channel'
      BY <1>6, <2>5 DEF MessageOf
    <2>7. \A i \in DOMAIN applied' : PublishedNext(applied'[i])
      BY <1>1, <2>5 DEF OnlyPublished
    <2>8. \A n \in acked' : PublishedNext(n)
      BY <1>1, <2>5 DEF OnlyPublished
    <2>9. Known(dlq')
      BY <1>2, <2>5
    <2> QED BY <2>3, <2>4, <2>6, <2>7, <2>8, <2>9 DEF OnlyPublished, Known, Published, PublishedNext, MessageOf
  <1>9. CASE Deliver
    <2>1. main # <<>> /\ main' = Tail(main) /\ UNCHANGED <<arrival, channel, applied, acked>>
      BY <1>9 DEF Deliver, history
    <2>2. Known(main') /\ Head(main) \in Packet /\ PublishedNext(Head(main).message)
      BY <1>2, <1>4, <2>1
    <2>3. Known(dlq')
      BY <1>2, <1>3, <1>9, <2>2 DEF Deliver
    <2>4. ASSUME NEW c \in Channel, handler'[c] # NULL
          PROVE  PublishedNext(handler'[c].packet.message) /\ c <= channel'
      <3>1. CASE c = channel /\ HasHandler(Head(main))
        <4>1. handler'[c].packet = Head(main)
          BY <1>9, <3>1 DEF Deliver
        <4> QED BY <1>5, <2>1, <2>2, <3>1, <4>1 DEF MessageOf, Channel
      <3>2. CASE ~(c = channel /\ HasHandler(Head(main)))
        BY <1>6, <1>9, <2>1, <2>4, <3>2 DEF Deliver, MessageOf
      <3> QED BY <3>1, <3>2
    <2> QED BY <1>7, <2>1, <2>2, <2>3, <2>4
  <1>10. ASSUME NEW c \in Channel, Run(c) PROVE OnlyPublished'
    <2>1. UNCHANGED <<arrival, main, channel>>
      BY <1>10 DEF Run, HandleEnds, Answer, Succeed, Throw, Refuse, Ack, Nack, Retry, history
    <2>2. handler[c] # NULL /\ MessageOf(c) \in Message /\ handler[c] \in Handler
          /\ handler[c].packet \in Packet /\ PublishedNext(MessageOf(c))
      BY <1>6, <1>10 DEF Run, HandleEnds, Answer, Succeed, Throw, Refuse, Ack, Nack, Retry, At
    <2>3. \A d \in Channel : handler'[d] # NULL =>
            handler[d] # NULL /\ handler'[d].packet = handler[d].packet
      <3>1. \A d \in Channel : d # c => handler'[d] = handler[d]
        BY <1>10
        DEF Run, HandleEnds, Answer, Succeed, Throw, Refuse, Ack, Nack, Retry, Reach, EndHandler
      <3>2. handler'[c] = NULL \/ handler'[c].packet = handler[c].packet
        BY <1>10, <2>2
        DEF Run, HandleEnds, Answer, Succeed, Throw, Refuse, Ack, Nack, Retry, Reach, EndHandler,
            Handler
      <3> QED BY <2>2, <3>1, <3>2 DEF MessageOf
    <2>4. \A d \in Channel : handler'[d] # NULL => PublishedNext(handler'[d].packet.message) /\ d <= channel'
      BY <1>6, <2>1, <2>3 DEF MessageOf
    <2>5. Known(main') /\ Known(dlq')
      BY <1>2, <1>3, <1>10, <2>1, <2>2
      DEF Run, HandleEnds, Answer, Succeed, Throw, Refuse, Ack, Nack, Retry, MessageOf, history
    <2>6. \A i \in DOMAIN applied' : PublishedNext(applied'[i])
      <3>1. applied' = applied \/ applied' = Append(applied, MessageOf(c))
        BY <1>10
        DEF Run, HandleEnds, Answer, Succeed, Throw, Refuse, Ack, Nack, Retry, history
      <3>2. \A i \in DOMAIN applied : PublishedNext(applied[i])
        BY <1>1 DEF OnlyPublished
      <3>3. CASE applied' = applied
        BY <3>2, <3>3
      <3>4. CASE applied' = Append(applied, MessageOf(c))
        <4>1. /\ DOMAIN applied' = 1 .. Len(applied) + 1 /\ DOMAIN applied = 1 .. Len(applied)
              /\ Len(applied) \in Nat /\ applied'[Len(applied) + 1] = MessageOf(c)
              /\ \A i \in DOMAIN applied : applied'[i] = applied[i]
          BY <2>2, <3>4, AppendArrival
        <4>2. \A i \in DOMAIN applied' : i \in DOMAIN applied \/ i = Len(applied) + 1
          BY <4>1
        <4> QED BY <2>2, <3>2, <4>1, <4>2
      <3> QED BY <3>1, <3>3, <3>4
    <2>7. \A m \in acked' : PublishedNext(m)
      BY <1>1, <1>10, <2>2
      DEF OnlyPublished, Run, HandleEnds, Answer, Succeed, Throw, Refuse, Ack, Nack, Retry, history
    <2> QED BY <2>1, <2>4, <2>5, <2>6, <2>7 DEF OnlyPublished, Known, Published, PublishedNext, MessageOf
  <1>11. ASSUME LoseChannel, LoseConnection \/ Crash PROVE OnlyPublished'
    <2>1. /\ channel' = channel + 1 /\ UNCHANGED <<arrival, dlq, applied, acked>>
          /\ main' = IF handler[channel] = NULL THEN main ELSE <<handler[channel].packet>> \o main
      BY <1>11 DEF LoseChannel, history
    <2>2. Known(main') /\ Known(dlq')
      BY <1>2, <1>3, <1>5, <1>6, <2>1 DEF MessageOf
    <2>3. \A c \in Channel : handler'[c] = NULL \/ handler'[c] = handler[c]
      BY <1>11 DEF LoseConnection, Crash
    <2>4. \A c \in Channel : handler'[c] # NULL => PublishedNext(handler'[c].packet.message) /\ c <= channel'
      BY <1>5, <1>6, <2>1, <2>3 DEF MessageOf, Channel
    <2> QED BY <1>7, <2>1, <2>2, <2>4
  <1>12. ASSUME dlq # <<>>, dlq' \in {dlq, Tail(dlq)},
                main' \in {main, Append(main, [Head(dlq) EXCEPT !.enveloped = FALSE])},
                UNCHANGED <<arrival, channel, handler, applied, acked>>
         PROVE  OnlyPublished'
    <2>1. Head(dlq) \in Packet /\ PublishedNext(Head(dlq).message) /\ Known(dlq')
      BY <1>2, <1>4, <1>12
    <2>2. [Head(dlq) EXCEPT !.enveloped = FALSE] \in Packet
          /\ [Head(dlq) EXCEPT !.enveloped = FALSE].message = Head(dlq).message
      BY <2>1 DEF Packet
    <2>3. Known(main')
      BY <1>2, <1>3, <1>12, <2>1, <2>2
    <2>4. \A c \in Channel : handler'[c] # NULL => PublishedNext(handler'[c].packet.message) /\ c <= channel'
      BY <1>6, <1>12 DEF MessageOf
    <2> QED BY <1>7, <1>12, <2>1, <2>3, <2>4
  <1>13. CASE UNCHANGED vars
    BY <1>7, <1>13, <1>6, <1>2 DEF vars, history, MessageOf
  <1>14. ConsumeDlq \/ LoseDlqAck => OnlyPublished'
    BY <1>12 DEF ConsumeDlq, LoseDlqAck, history
  <1> QED
    BY <1>8, <1>9, <1>10, <1>11, <1>13, <1>14 DEF Next, LoseConnection, Crash, Idle

-----------------------------------------------------------------------------
(* While no connection is lost, what was applied, what the handler holds   *)
(* and what waits with its envelope follow each other in the order of      *)
(* publication.                                                            *)
Sorted(queue) ==
  \A i, j \in DOMAIN queue :
    i < j /\ queue[i].enveloped /\ queue[j].enveloped =>
      ~Before(queue[j].message, queue[i].message)

(* Nothing with an envelope in the queue was published before m. *)
Precedes(m, queue) ==
  \A i \in DOMAIN queue : queue[i].enveloped => ~Before(queue[i].message, m)

InOrder ==
  /\ Sorted(main)
  /\ \A k \in DOMAIN applied : Precedes(applied[k], main)
  /\ \A c \in Channel : handler[c] # NULL =>
       /\ Precedes(MessageOf(c), main)
       /\ \A k \in DOMAIN applied : ~Before(MessageOf(c), applied[k])
  /\ \A i, j \in DOMAIN applied : i < j => ~Before(applied[j], applied[i])

OrderInv == losses = 0 => channel = 0 /\ InOrder

LEMMA TailSorted ==
  ASSUME NEW queue \in Seq(Packet), queue # <<>>, Sorted(queue)
  PROVE  /\ Sorted(Tail(queue))
         /\ Head(queue).enveloped => Precedes(Head(queue).message, Tail(queue))
         /\ \A m : Precedes(m, queue) => Precedes(m, Tail(queue))
  <1>1. /\ DOMAIN queue = 1 .. Len(queue) /\ Len(queue) \in Nat
        /\ 1 \in DOMAIN queue /\ Head(queue) = queue[1]
        /\ DOMAIN Tail(queue) = 1 .. Len(queue) - 1
        /\ \A i \in 1 .. Len(queue) - 1 : Tail(queue)[i] = queue[i + 1]
    BY HeadTailProperties, EmptySeq, LenProperties
  <1>2. \A i \in DOMAIN Tail(queue) : i \in Nat /\ i + 1 \in DOMAIN queue /\ 1 < i + 1
    BY <1>1
  <1>3. Sorted(Tail(queue))
    <2> SUFFICES ASSUME NEW i \in DOMAIN Tail(queue), NEW j \in DOMAIN Tail(queue), i < j,
                        Tail(queue)[i].enveloped, Tail(queue)[j].enveloped
                 PROVE  ~Before(Tail(queue)[j].message, Tail(queue)[i].message)
      BY DEF Sorted
    <2>1. i + 1 < j + 1 /\ Tail(queue)[i] = queue[i + 1] /\ Tail(queue)[j] = queue[j + 1]
      BY <1>1, <1>2
    <2> QED BY <1>2, <2>1 DEF Sorted
  <1>4. Head(queue).enveloped => Precedes(Head(queue).message, Tail(queue))
    BY <1>1, <1>2 DEF Sorted, Precedes
  <1>5. \A m : Precedes(m, queue) => Precedes(m, Tail(queue))
    BY <1>1, <1>2 DEF Precedes
  <1> QED BY <1>3, <1>4, <1>5

(* A packet without its envelope at the end of the queue changes nothing. *)
LEMMA AppendBare ==
  ASSUME NEW queue \in Seq(Packet), NEW packet \in Packet, ~packet.enveloped, Sorted(queue)
  PROVE  /\ Sorted(Append(queue, packet))
         /\ \A m : Precedes(m, queue) => Precedes(m, Append(queue, packet))
  <1> DEFINE new == Append(queue, packet)
  <1>1. /\ DOMAIN queue = 1 .. Len(queue) /\ Len(queue) \in Nat
        /\ DOMAIN new = 1 .. Len(queue) + 1 /\ new[Len(queue) + 1] = packet
        /\ \A i \in DOMAIN queue : new[i] = queue[i]
    BY AppendProperties, LenProperties
  <1> HIDE DEF new
  <1>2. \A i \in DOMAIN new : new[i].enveloped => i \in DOMAIN queue /\ new[i] = queue[i]
    BY <1>1
  <1> QED BY <1>2 DEF Sorted, Precedes, new

BeforeNext(a, b) == \E i, j \in DOMAIN arrival' : i < j /\ arrival'[i] = a /\ arrival'[j] = b

(* What is published next comes before nothing that was published. *)
LEMMA PublishAtTheEnd ==
  ASSUME Inv, OnlyPublished, NEW m \in Message, Publish(m)
  PROVE  \A a, b : Published(b) /\ BeforeNext(a, b) => Before(a, b) /\ a # m
  <1>1. arrival \in Seq(Message) /\ arrival' = Append(arrival, m) /\ ~Published(m)
    BY DEF Publish, Inv, TypeOK
  <1>2. /\ DOMAIN arrival = 1 .. Len(arrival) /\ Len(arrival) \in Nat
        /\ DOMAIN arrival' = 1 .. Len(arrival) + 1
        /\ arrival'[Len(arrival) + 1] = m
        /\ \A i \in DOMAIN arrival : arrival'[i] = arrival[i]
    BY <1>1, AppendArrival
  <1> SUFFICES ASSUME NEW a, NEW b, Published(b),
                      NEW i \in DOMAIN arrival', NEW j \in DOMAIN arrival', i < j,
                      arrival'[i] = a, arrival'[j] = b
               PROVE  Before(a, b) /\ a # m
    BY DEF BeforeNext
  <1>3. j # Len(arrival) + 1
    BY <1>1, <1>2
  <1>4. i \in DOMAIN arrival /\ j \in DOMAIN arrival
    BY <1>2, <1>3
  <1>5. arrival[i] = a /\ arrival[j] = b
    BY <1>2, <1>4
  <1> QED BY <1>1, <1>4, <1>5 DEF Before, Published

LEMMA OrderPublish ==
  ASSUME Inv, OnlyPublished, InOrder, NEW m \in Message, Publish(m)
  PROVE  InOrder'
  <1> DEFINE Late(a, b) == ~BeforeNext(a, b)
  <1>1. /\ \A a, b : Published(b) /\ ~Before(a, b) => Late(a, b)
        /\ \A b : Published(b) => Late(m, b)
    BY PublishAtTheEnd
  <1>2. /\ \A i \in DOMAIN main : Published(main[i].message)
        /\ \A k \in DOMAIN applied : Published(applied[k])
        /\ \A c \in Channel : handler[c] # NULL => Published(MessageOf(c))
    BY DEF OnlyPublished
  <1>3. /\ main' = Append(main, Original(m)) /\ main \in Seq(Packet)
        /\ Original(m).message = m /\ Original(m) \in Packet
        /\ UNCHANGED <<handler, applied>>
    BY DEF Publish, Inv, TypeOK, Packet, Original, history
  <1>4. /\ DOMAIN main = 1 .. Len(main) /\ Len(main) \in Nat
        /\ DOMAIN main' = 1 .. Len(main) + 1 /\ main'[Len(main) + 1] = Original(m)
        /\ \A i \in DOMAIN main : main'[i] = main[i]
    BY <1>3, AppendProperties, LenProperties
  <1>5. \A i \in DOMAIN main' :
          \/ i \in DOMAIN main /\ main'[i] = main[i]
          \/ i = Len(main) + 1 /\ main'[i].message = m
    BY <1>3, <1>4
  <1> HIDE DEF Late
  <1>6. \A i, j \in DOMAIN main' : i < j /\ main'[i].enveloped /\ main'[j].enveloped =>
          Late(main'[j].message, main'[i].message)
    <2> SUFFICES ASSUME NEW i \in DOMAIN main', NEW j \in DOMAIN main', i < j,
                        main'[i].enveloped, main'[j].enveloped
                 PROVE  Late(main'[j].message, main'[i].message)
      OBVIOUS
    <2>1. i \in DOMAIN main /\ main'[i] = main[i]
      BY <1>4
    <2>2. CASE j \in DOMAIN main
      BY <1>1, <1>2, <1>4, <2>1, <2>2 DEF InOrder, Sorted
    <2>3. CASE j = Len(main) + 1
      BY <1>1, <1>2, <1>3, <1>4, <2>1, <2>3
    <2> QED BY <1>5, <2>2, <2>3
  <1>7. \A b, i : i \in DOMAIN main' /\ main'[i].enveloped /\ Published(b) /\ Precedes(b, main) =>
          Late(main'[i].message, b)
    BY <1>1, <1>5 DEF Precedes
  <1>8. \A k \in DOMAIN applied', i \in DOMAIN main' :
          main'[i].enveloped => Late(main'[i].message, applied'[k])
    BY <1>2, <1>3, <1>7 DEF InOrder
  <1>9. \A c \in Channel : handler'[c] # NULL =>
          /\ \A i \in DOMAIN main' : main'[i].enveloped => Late(main'[i].message, handler'[c].packet.message)
          /\ \A k \in DOMAIN applied' : Late(handler'[c].packet.message, applied'[k])
    BY <1>1, <1>2, <1>3, <1>7 DEF InOrder, MessageOf
  <1>10. \A i, j \in DOMAIN applied' : i < j => Late(applied'[j], applied'[i])
    BY <1>1, <1>2, <1>3 DEF InOrder
  <1> QED
    BY <1>6, <1>8, <1>9, <1>10
    DEF InOrder, Sorted, Precedes, Late, Before, BeforeNext, MessageOf

(* The other steps leave the publications as they are. *)
LEMMA OrderUnchanged ==
  ASSUME UNCHANGED arrival, Sorted(main'),
         \A k \in DOMAIN applied' : Precedes(applied'[k], main'),
         \A c \in Channel : handler'[c] # NULL =>
           /\ Precedes(handler'[c].packet.message, main')
           /\ \A k \in DOMAIN applied' : ~Before(handler'[c].packet.message, applied'[k]),
         \A i, j \in DOMAIN applied' : i < j => ~Before(applied'[j], applied'[i])
  PROVE  InOrder'
  BY DEF InOrder, Sorted, Precedes, Before, MessageOf

(* The handler holds what comes next: it can add its effect at the end. *)
LEMMA OrderRun ==
  ASSUME Inv, OnlyPublished, InOrder, channel = 0, NEW c \in Channel, Run(c), losses' = 0
  PROVE  InOrder'
  <1> USE DEF Inv, TypeOK
  <1>1. UNCHANGED <<arrival, main>>
    BY DEF Run, HandleEnds, Answer, Succeed, Throw, Refuse, Ack, Nack, Retry, history
  <1>2. /\ handler[c] # NULL /\ handler[c] \in Handler /\ MessageOf(c) \in Message
        /\ Published(MessageOf(c))
    BY DEF Run, HandleEnds, Answer, Succeed, Throw, Refuse, Ack, Nack, Retry, At, Handler,
           OnlyPublished, MessageOf, Packet
  <1>3. \A d \in Channel : handler[d] # NULL => d = c
    <2>1. \A d \in Channel : handler[d] # NULL => d <= 0 /\ d \in Nat
      BY DEF OnlyPublished, Channel
    <2>2. \A d \in Channel : handler[d] # NULL => d = 0
      BY <2>1
    <2> QED BY <1>2, <2>2
  <1>4. \A d \in Channel : handler'[d] # NULL =>
          d = c /\ handler'[d].packet.message = MessageOf(c)
    <2>1. \A d \in Channel : d # c => handler'[d] = handler[d]
      BY DEF Run, HandleEnds, Answer, Succeed, Throw, Refuse, Ack, Nack, Retry, Reach, EndHandler
    <2>2. handler'[c] = NULL \/ handler'[c].packet = handler[c].packet
      BY <1>2
      DEF Run, HandleEnds, Answer, Succeed, Throw, Refuse, Ack, Nack, Retry, Reach, EndHandler,
          Handler
    <2> QED BY <1>3, <2>1, <2>2 DEF MessageOf
  <1>5. /\ Precedes(MessageOf(c), main)
        /\ \A k \in DOMAIN applied : ~Before(MessageOf(c), applied[k])
    BY <1>2 DEF InOrder
  <1>6. ~Before(MessageOf(c), MessageOf(c))
    <2>1. arrival \in Seq(Message) /\ \A i, j \in DOMAIN arrival : arrival[i] = arrival[j] => i = j
      BY DEF OnlyPublished
    <2>2. \A i \in DOMAIN arrival : i \in Nat
      BY <2>1, LenProperties
    <2> SUFFICES ASSUME NEW i \in DOMAIN arrival, NEW j \in DOMAIN arrival, i < j,
                        arrival[i] = arrival[j]
                 PROVE  FALSE
      BY DEF Before
    <2>3. i = j
      BY <2>1
    <2> QED BY <2>2, <2>3
  <1>7. applied' = applied \/ applied' = Append(applied, MessageOf(c))
    BY DEF Run, HandleEnds, Answer, Succeed, Throw, Refuse, Ack, Nack, Retry, history
  <1>8. CASE applied' = applied
    BY <1>1, <1>4, <1>5, <1>8, OrderUnchanged DEF InOrder
  <1>9. CASE applied' = Append(applied, MessageOf(c))
    <2>1. /\ DOMAIN applied' = 1 .. Len(applied) + 1 /\ DOMAIN applied = 1 .. Len(applied)
          /\ Len(applied) \in Nat /\ applied'[Len(applied) + 1] = MessageOf(c)
          /\ \A i \in DOMAIN applied : applied'[i] = applied[i]
      BY <1>2, <1>9, AppendArrival
    <2>2. \A k \in DOMAIN applied' :
            \/ k \in DOMAIN applied /\ applied'[k] = applied[k]
            \/ k = Len(applied) + 1 /\ applied'[k] = MessageOf(c)
      BY <2>1
    <2>3. \A k \in DOMAIN applied' : Precedes(applied'[k], main')
      BY <1>1, <1>5, <2>2 DEF InOrder
    <2>4. \A k \in DOMAIN applied' : ~Before(MessageOf(c), applied'[k])
      BY <1>5, <1>6, <2>2
    <2>5. ASSUME NEW i \in DOMAIN applied', NEW j \in DOMAIN applied', i < j
          PROVE  ~Before(applied'[j], applied'[i])
      <3>1. i \in DOMAIN applied /\ applied'[i] = applied[i]
        BY <2>1, <2>5
      <3> QED BY <1>5, <2>2, <2>5, <3>1 DEF InOrder
    <2>6. Sorted(main')
      BY <1>1 DEF InOrder
    <2>7. \A d \in Channel : handler'[d] # NULL =>
            /\ Precedes(handler'[d].packet.message, main')
            /\ \A k \in DOMAIN applied' : ~Before(handler'[d].packet.message, applied'[k])
      BY <1>1, <1>4, <1>5, <2>4
    <2> QED BY <1>1, <2>3, <2>5, <2>6, <2>7, OrderUnchanged
  <1> QED BY <1>7, <1>8, <1>9

LEMMA OrderStep ==
  ASSUME Inv, OnlyPublished, OrderInv, [Next]_vars
  PROVE  OrderInv'
  <1> USE DEF Inv, TypeOK
  <1> SUFFICES ASSUME losses' = 0 PROVE channel' = 0 /\ InOrder'
    BY DEF OrderInv
  <1>1. ~LoseChannel /\ ~LoseDlqAck
    BY DEF LoseChannel, LoseDlqAck
  <1>2. losses = 0 /\ UNCHANGED channel
    BY <1>1
    DEF Next, vars, Publish, Deliver, Run, HandleEnds, Answer, Succeed, Throw, Refuse, Ack, Nack,
        Retry, LoseConnection, Crash, ConsumeDlq, Idle
  <1>3. channel = 0 /\ channel' = 0 /\ InOrder
    BY <1>2 DEF OrderInv
  <1>4. \A m \in Message : Publish(m) => InOrder'
    BY <1>3, OrderPublish
  <1>5. \A c \in Channel : Run(c) => InOrder'
    BY <1>3, OrderRun
  <1>6. CASE Deliver
    <2>1. main # <<>> /\ main' = Tail(main) /\ UNCHANGED <<arrival, applied>>
      BY <1>6 DEF Deliver, history
    <2>2. /\ Sorted(main') /\ \A m : Precedes(m, main) => Precedes(m, main')
          /\ Head(main).enveloped => Precedes(Head(main).message, main')
      BY <1>3, <2>1, TailSorted DEF InOrder
    <2>3. ASSUME NEW c \in Channel, handler'[c] # NULL
          PROVE  /\ Precedes(handler'[c].packet.message, main')
                 /\ \A k \in DOMAIN applied' : ~Before(handler'[c].packet.message, applied'[k])
      <3>1. CASE handler'[c] = handler[c]
        BY <1>3, <2>1, <2>2, <2>3, <3>1 DEF InOrder, MessageOf
      <3>2. CASE handler'[c] # handler[c]
        <4>1. Head(main).enveloped /\ handler'[c].packet = Head(main)
          BY <1>6, <3>2 DEF Deliver, HasHandler
        <4>2. \A k \in DOMAIN applied : ~Before(Head(main).message, applied[k])
          <5>1. 1 \in DOMAIN main /\ Head(main) = main[1]
            BY <2>1, HeadTailProperties, EmptySeq, LenProperties
          <5> QED BY <1>3, <4>1, <5>1 DEF InOrder, Precedes
        <4> QED BY <2>1, <2>2, <4>1, <4>2
      <3> QED BY <3>1, <3>2
    <2>4. \A k \in DOMAIN applied' : Precedes(applied'[k], main')
      BY <1>3, <2>1, <2>2 DEF InOrder
    <2>5. \A i, j \in DOMAIN applied' : i < j => ~Before(applied'[j], applied'[i])
      BY <1>3, <2>1 DEF InOrder
    <2> QED BY <1>3, <2>1, <2>2, <2>3, <2>4, <2>5, OrderUnchanged
  <1>7. CASE ConsumeDlq
    <2> DEFINE bare == [Head(dlq) EXCEPT !.enveloped = FALSE]
    <2>1. Head(dlq) \in Packet /\ UNCHANGED <<arrival, handler, applied>>
          /\ (main' = main \/ main' = Append(main, bare))
      BY <1>7, TailPackets DEF ConsumeDlq
    <2>2. bare \in Packet /\ ~bare.enveloped
      BY <2>1 DEF Packet
    <2> HIDE DEF bare
    <2>3. Sorted(main') /\ \A m : Precedes(m, main) => Precedes(m, main')
      BY <1>3, <2>1, <2>2, AppendBare DEF InOrder
    <2> QED BY <1>3, <2>1, <2>3, OrderUnchanged DEF InOrder, MessageOf
  <1>8. CASE UNCHANGED vars
    BY <1>3, <1>8, OrderUnchanged DEF vars, history, InOrder, MessageOf
  <1> QED
    BY <1>1, <1>3, <1>4, <1>5, <1>6, <1>7, <1>8
    DEF Next, LoseConnection, Crash, Idle

LEMMA OrderInit == Init => OnlyPublished /\ OrderInv
  BY DEF Init, OnlyPublished, OrderInv, InOrder, Sorted

LEMMA OrderHolds == Spec => [](Inv /\ OnlyPublished /\ OrderInv)
  <1>1. Inv /\ OnlyPublished /\ OrderInv /\ [Next]_vars => OnlyPublished' /\ OrderInv'
    BY OnlyPublishedStep, OrderStep
  <1> QED BY <1>1, OrderInit, InvHolds, PTL DEF Spec

(* While no connection is lost, strategy.handle takes effect in the order  *)
(* in which messages were published, however often each is retried: the    *)
(* prefetch of one lets none overtake the one in hand.                     *)
THEOREM EffectsInOrder == Spec => []OrderedWithoutLoss
  <1>1. OrderInv => OrderedWithoutLoss
    BY DEF OrderInv, InOrder, OrderedWithoutLoss
  <1> QED BY <1>1, OrderHolds, PTL

-----------------------------------------------------------------------------
(* One copy: p is in the queue at most once, if it has its envelope. *)
Once(queue) ==
  \A i, j \in DOMAIN queue : queue[i].enveloped /\ queue[i] = queue[j] => i = j

In(queue, packet) == \E i \in DOMAIN queue : queue[i] = packet

Holds(m) == handler[channel] # NULL /\ handler[channel].packet = Original(m)

OneCopy ==
  /\ Once(main) /\ Once(dlq)
  /\ \A m \in Message :
       /\ In(main, Original(m)) => ~Holds(m) /\ ~In(dlq, Original(m)) /\ m \notin acked
       /\ Holds(m) => ~In(dlq, Original(m)) /\ m \notin acked
       /\ In(dlq, Original(m)) => m \notin acked

LEMMA Envelopes ==
  /\ \A m \in Message : /\ Original(m) \in Packet
                         /\ Original(m).message = m /\ Original(m).enveloped
  /\ \A p \in Packet : p.enveloped => p = Original(p.message) /\ p.message \in Message
  BY DEF Original, Packet

LEMMA TailOnce ==
  ASSUME NEW queue \in Seq(Packet), queue # <<>>, Once(queue)
  PROVE  /\ Once(Tail(queue)) /\ Tail(queue) \in Seq(Packet) /\ Head(queue) \in Packet
         /\ In(queue, Head(queue))
         /\ \A p : p.enveloped => (In(Tail(queue), p) <=> In(queue, p) /\ p # Head(queue))
  <1>1. /\ DOMAIN queue = 1 .. Len(queue) /\ Len(queue) \in Nat
        /\ 1 \in DOMAIN queue /\ Head(queue) = queue[1]
        /\ DOMAIN Tail(queue) = 1 .. Len(queue) - 1
        /\ \A i \in 1 .. Len(queue) - 1 : Tail(queue)[i] = queue[i + 1]
        /\ Tail(queue) \in Seq(Packet) /\ Head(queue) \in Packet
    BY HeadTailProperties, EmptySeq, LenProperties
  <1>2. \A i \in DOMAIN Tail(queue) :
          i \in Nat /\ i + 1 \in DOMAIN queue /\ i + 1 # 1 /\ Tail(queue)[i] = queue[i + 1]
    BY <1>1
  <1>3. \A j \in DOMAIN queue : j # 1 => j - 1 \in DOMAIN Tail(queue) /\ Tail(queue)[j - 1] = queue[j]
    BY <1>1
  <1>4. Once(Tail(queue))
    <2> SUFFICES ASSUME NEW i \in DOMAIN Tail(queue), NEW j \in DOMAIN Tail(queue),
                        Tail(queue)[i].enveloped, Tail(queue)[i] = Tail(queue)[j]
                 PROVE  i = j
      BY DEF Once
    <2>1. i + 1 = j + 1
      BY <1>2 DEF Once
    <2> QED BY <1>2, <2>1
  <1>5. ASSUME NEW p, p.enveloped PROVE In(Tail(queue), p) <=> In(queue, p) /\ p # Head(queue)
    <2>1. In(Tail(queue), p) => In(queue, p) /\ p # Head(queue)
      BY <1>1, <1>2, <1>5 DEF In, Once
    <2>2. In(queue, p) /\ p # Head(queue) => In(Tail(queue), p)
      BY <1>1, <1>3 DEF In
    <2> QED BY <2>1, <2>2
  <1>6. In(queue, Head(queue))
    BY <1>1 DEF In
  <1> QED BY <1>1, <1>4, <1>5, <1>6

LEMMA AppendOnce ==
  ASSUME NEW queue \in Seq(Packet), Once(queue), NEW packet \in Packet,
         packet.enveloped => ~In(queue, packet)
  PROVE  LET new == Append(queue, packet) IN
         Once(new) /\ \A p : In(new, p) <=> In(queue, p) \/ p = packet
  <1> DEFINE new == Append(queue, packet)
  <1>1. /\ DOMAIN queue = 1 .. Len(queue) /\ Len(queue) \in Nat
        /\ DOMAIN new = 1 .. Len(queue) + 1 /\ new[Len(queue) + 1] = packet
        /\ \A i \in DOMAIN queue : new[i] = queue[i]
    BY AppendProperties, LenProperties
  <1> HIDE DEF new
  <1>2. /\ \A i \in DOMAIN new :
             \/ i \in DOMAIN queue /\ new[i] = queue[i]
             \/ i = Len(queue) + 1 /\ new[i] = packet
        /\ \A i \in DOMAIN queue : i \in DOMAIN new
        /\ Len(queue) + 1 \in DOMAIN new
    BY <1>1
  <1>3. Once(new)
    BY <1>1, <1>2 DEF Once, In
  <1>4. \A p : In(new, p) <=> In(queue, p) \/ p = packet
    BY <1>1, <1>2 DEF In
  <1> QED BY <1>3, <1>4 DEF new

LEMMA RequeueOnce ==
  ASSUME NEW queue \in Seq(Packet), Once(queue), NEW packet \in Packet,
         packet.enveloped => ~In(queue, packet)
  PROVE  LET new == <<packet>> \o queue IN
         Once(new) /\ \A p : In(new, p) <=> In(queue, p) \/ p = packet
  <1> DEFINE new == <<packet>> \o queue
  <1>1. /\ Len(queue) \in Nat
        /\ DOMAIN queue = 1 .. Len(queue) /\ DOMAIN new = 1 .. Len(queue) + 1
        /\ new[1] = packet
        /\ \A i \in 2 .. Len(queue) + 1 : new[i] = queue[i - 1]
    <2>1. <<packet>> \in Seq(Packet) /\ Len(<<packet>>) = 1 /\ <<packet>>[1] = packet
      OBVIOUS
    <2> QED BY <2>1, ConcatProperties, LenProperties
  <1> HIDE DEF new
  <1>2. /\ \A i \in DOMAIN new :
             \/ i - 1 \in DOMAIN queue /\ new[i] = queue[i - 1]
             \/ i = 1 /\ new[i] = packet
        /\ \A i \in DOMAIN queue : i + 1 \in DOMAIN new /\ new[i + 1] = queue[i]
        /\ 1 \in DOMAIN new /\ \A i \in DOMAIN new : i \in Nat
    BY <1>1
  <1>3. Once(new)
    <2> SUFFICES ASSUME NEW i \in DOMAIN new, NEW j \in DOMAIN new,
                        new[i].enveloped, new[i] = new[j]
                 PROVE  i = j
      BY DEF Once
    <2>1. CASE i = 1 BY <1>1, <1>2, <2>1 DEF In
    <2>2. CASE j = 1 BY <1>1, <1>2, <2>2 DEF In
    <2>3. CASE i # 1 /\ j # 1
      <3>1. i - 1 = j - 1 BY <1>2, <2>3 DEF Once
      <3> QED BY <1>2, <3>1
    <2> QED BY <2>1, <2>2, <2>3
  <1>4. \A p : In(new, p) <=> In(queue, p) \/ p = packet
    BY <1>1, <1>2 DEF In
  <1> QED BY <1>3, <1>4 DEF new

-----------------------------------------------------------------------------
(* The fate of a message follows from where its copy is. *)
LEMMA FateCases ==
  ASSUME NEW m \in Message
  PROVE  /\ ~Published(m) => FateOf(m) = "unsent"
         /\ Published(m) /\ m \in acked => FateOf(m) = "acked"
         /\ Published(m) /\ m \notin acked /\ In(main, Original(m)) => FateOf(m) = "waiting"
         /\ Published(m) /\ m \notin acked /\ ~In(main, Original(m)) =>
              /\ Holds(m) => FateOf(m) = "held"
              /\ ~Holds(m) /\ In(dlq, Original(m)) => FateOf(m) = "dead"
              /\ ~Holds(m) /\ ~In(dlq, Original(m)) => FateOf(m) = "buried"
  BY DEF FateOf, In, Holds

LEMMA FateCasesNext ==
  ASSUME NEW m \in Message
  PROVE  /\ ~Published(m)' => FateOf(m)' = "unsent"
         /\ Published(m)' /\ m \in acked' => FateOf(m)' = "acked"
         /\ Published(m)' /\ m \notin acked' /\ In(main', Original(m)) => FateOf(m)' = "waiting"
         /\ Published(m)' /\ m \notin acked' /\ ~In(main', Original(m)) =>
              /\ Holds(m)' => FateOf(m)' = "held"
              /\ ~Holds(m)' /\ In(dlq', Original(m)) => FateOf(m)' = "dead"
              /\ ~Holds(m)' /\ ~In(dlq', Original(m)) => FateOf(m)' = "buried"
  BY DEF FateOf, In, Holds, Original

(* A message whose copy stays where it is keeps its fate. *)
LEMMA FateKept ==
  ASSUME NEW m \in Message,
         Published(m)' <=> Published(m), m \in acked' <=> m \in acked,
         In(main', Original(m)) <=> In(main, Original(m)),
         Holds(m)' <=> Holds(m),
         In(dlq', Original(m)) <=> In(dlq, Original(m))
  PROVE  FateOf(m)' = FateOf(m)
  BY FateCases, FateCasesNext

LEMMA FateTurns ==
  ASSUME NEW m \in Message, NEW from, NEW to, FateOf(m) \in from, FateOf(m)' = to,
         \A n \in Message : n # m => FateOf(n)' = FateOf(n),
         UNCHANGED applied
  PROVE  Promise!Turn(m, from, to)
  BY DEF Promise!Turn

LEMMA FateStutters ==
  ASSUME \A n \in Message : FateOf(n)' = FateOf(n), UNCHANGED applied
  PROVE  UNCHANGED Promise!vars
  BY DEF Promise!vars

LEMMA OneCopyNext ==
  ASSUME Once(main'), Once(dlq'),
         \A m \in Message :
           /\ In(main', Original(m)) =>
                ~Holds(m)' /\ ~In(dlq', Original(m)) /\ m \notin acked'
           /\ Holds(m)' => ~In(dlq', Original(m)) /\ m \notin acked'
           /\ In(dlq', Original(m)) => m \notin acked'
  PROVE  OneCopy'
  BY DEF OneCopy, Once, In, Original, Holds

LEMMA OneCopyKept ==
  ASSUME OneCopy, Once(main'), Once(dlq'),
         \A m \in Message :
           /\ m \in acked' <=> m \in acked
           /\ In(main', Original(m)) <=> In(main, Original(m))
           /\ Holds(m)' <=> Holds(m)
           /\ In(dlq', Original(m)) <=> In(dlq, Original(m))
  PROVE  OneCopy'
  BY OneCopyNext DEF OneCopy

(* What was not published is nowhere. *)
LEMMA Unpublished ==
  ASSUME Inv, OnlyPublished, NEW m \in Message, ~Published(m)
  PROVE  m \notin acked /\ ~In(main, Original(m)) /\ ~In(dlq, Original(m)) /\ ~Holds(m)
  <1>1. channel \in Channel
    BY ConsumerAssumption DEF Inv, TypeOK, Channel
  <1> QED BY <1>1, Envelopes DEF OnlyPublished, In, Holds, MessageOf

LEMMA FatePublish ==
  ASSUME Inv, OnlyPublished, OneCopy, NEW m \in Message, Publish(m)
  PROVE  OneCopy' /\ Promise!Publish(m)
  <1>1. /\ main' = Append(main, Original(m)) /\ arrival' = Append(arrival, m) /\ ~Published(m)
        /\ UNCHANGED <<dlq, handler, channel, acked, applied>>
        /\ main \in Seq(Packet) /\ arrival \in Seq(Message)
    BY DEF Publish, Original, history, Inv, TypeOK
  <1>2. m \notin acked /\ ~In(main, Original(m)) /\ ~In(dlq, Original(m)) /\ ~Holds(m)
    BY <1>1, Unpublished
  <1>3. Once(main') /\ \A n \in Message : In(main', Original(n)) <=> In(main, Original(n)) \/ n = m
    <2>1. Once(main)
      BY DEF OneCopy
    <2> QED BY <1>1, <1>2, <2>1, AppendOnce, Envelopes
  <1>4. \A n \in Message : Published(n)' <=> Published(n) \/ n = m
    <2>1. /\ DOMAIN arrival = 1 .. Len(arrival) /\ Len(arrival) \in Nat
          /\ DOMAIN arrival' = 1 .. Len(arrival) + 1
          /\ arrival'[Len(arrival) + 1] = m
          /\ \A i \in DOMAIN arrival : arrival'[i] = arrival[i]
      BY <1>1, AppendArrival
    <2>2. /\ \A i \in DOMAIN arrival' : i \in DOMAIN arrival \/ i = Len(arrival) + 1
          /\ \A i \in DOMAIN arrival : i \in DOMAIN arrival'
          /\ Len(arrival) + 1 \in DOMAIN arrival'
      BY <2>1
    <2> QED BY <2>1, <2>2 DEF Published
  <1>5. \A n \in Message : Holds(n)' <=> Holds(n)
    BY <1>1 DEF Holds
  <1>6. OneCopy'
    BY <1>1, <1>2, <1>3, <1>5, OneCopyNext DEF OneCopy
  <1>7. FateOf(m) = "unsent" /\ FateOf(m)' = "waiting"
    BY <1>1, <1>2, <1>3, <1>4, FateCases, FateCasesNext
  <1>8. \A n \in Message : n # m => FateOf(n)' = FateOf(n)
    BY <1>1, <1>3, <1>4, <1>5, FateKept
  <1> QED BY <1>1, <1>6, <1>7, <1>8, FateTurns DEF Promise!Publish

(* The rest of the steps publish nothing. *)
LEMMA FateDeliver ==
  ASSUME Inv, OnlyPublished, OneCopy, Deliver
  PROVE  OneCopy' /\ [Promise!Next]_(Promise!vars)
  <1>1. /\ channel \in Channel /\ handler[channel] = NULL /\ main # <<>> /\ main' = Tail(main)
        /\ UNCHANGED <<arrival, channel, acked, applied>>
    BY ConsumerAssumption DEF Deliver, history, Channel, Inv, TypeOK
  <1>2. Once(main) /\ Once(dlq) /\ main \in Seq(Packet) /\ dlq \in Seq(Packet)
        /\ handler \in [Channel -> Handler \cup {NULL}]
    BY DEF OneCopy, Inv, TypeOK
  <1>9. PICK head \in Packet : head = Head(main)
    BY <1>1, <1>2, TailPackets
  <1>10. PICK m \in Message : m = head.message
    BY DEF Packet
  <1>3. /\ Once(main') /\ head \in Packet /\ In(main, head)
        /\ \A n \in Message : In(main', Original(n)) <=> In(main, Original(n)) /\ Original(n) # head
    BY <1>1, <1>2, <1>9, TailOnce, Envelopes
  <1>4. m \in Message /\ (head.enveloped => head = Original(m))
    BY <1>10, Envelopes
  <1>5. \A n \in Message : n # m => Original(n) # head
    BY <1>10, Envelopes
  <1>6. \A n \in Message : ~Holds(n) /\ (Published(n)' <=> Published(n))
    BY <1>1 DEF Holds, Published
  <1>7. CASE head.enveloped
    <2>1. head = Original(m) /\ In(main, Original(m)) /\ ~In(main', Original(m))
          /\ \A n \in Message : n # m => (In(main', Original(n)) <=> In(main, Original(n)))
      BY <1>3, <1>4, <1>5, <1>7
    <2>2. m \notin acked /\ ~In(dlq, Original(m)) /\ Published(m)
      BY <1>1, <1>4, <2>1, Unpublished DEF OneCopy
    <2>3. FateOf(m) = "waiting"
      BY <1>4, <2>1, <2>2, FateCases
    <2>4. CASE HasHandler(head)
      <3>1. handler'[channel'] = [packet |-> head, attempt |-> 1, at |-> "handle"]
            /\ UNCHANGED dlq
        BY <1>1, <1>2, <1>9, <2>4 DEF Deliver
      <3>2. handler'[channel'] # NULL /\ handler'[channel'].packet = head
        <4>1. 1 \in 1 .. MaxRetries BY ConsumerAssumption
        <4>2. handler'[channel'] \in Handler BY <1>3, <3>1, <4>1 DEF Handler
        <4> QED BY <3>1, <4>2, NoHandlerAssumption
      <3>3. \A n \in Message : Holds(n)' <=> n = m
        BY <1>4, <1>5, <2>1, <3>2 DEF Holds, Original
      <3>4. OneCopy'
        BY <1>1, <1>2, <1>3, <2>1, <2>2, <3>1, <3>3, OneCopyNext DEF OneCopy
      <3>5. FateOf(m)' = "held"
        BY <1>1, <1>4, <1>6, <2>1, <2>2, <3>3, FateCasesNext
      <3>6. \A n \in Message : n # m => FateOf(n)' = FateOf(n)
        BY <1>1, <1>6, <2>1, <3>1, <3>3, FateKept
      <3>7. Promise!Turn(m, {"waiting"}, "held")
        BY <1>1, <1>4, <2>3, <3>5, <3>6, FateTurns
      <3>8. Promise!Deliver(m)
        BY <3>7 DEF Promise!Deliver
      <3> QED BY <1>4, <3>4, <3>8 DEF Promise!Next
    <2>5. CASE ~HasHandler(head)
      <3>1. dlq' = Append(dlq, head) /\ UNCHANGED handler
        BY <1>9, <2>5 DEF Deliver
      <3>2. /\ Once(dlq')
            /\ \A n \in Message : In(dlq', Original(n)) <=> In(dlq, Original(n)) \/ n = m
        <4>1. ~In(dlq, head)
          BY <2>1, <2>2
        <4>2. Once(dlq') /\ \A p : In(dlq', p) <=> In(dlq, p) \/ p = head
          BY <1>2, <1>3, <3>1, <4>1, AppendOnce
        <4> QED BY <1>5, <2>1, <4>2
      <3>3. \A n \in Message : ~Holds(n)'
        BY <1>1, <3>1 DEF Holds
      <3>4. OneCopy'
        BY <1>1, <1>3, <2>1, <2>2, <3>2, <3>3, OneCopyNext DEF OneCopy
      <3>5. FateOf(m)' = "dead"
        BY <1>1, <1>4, <1>6, <2>1, <2>2, <3>2, <3>3, FateCasesNext
      <3>6. \A n \in Message : n # m => FateOf(n)' = FateOf(n)
        BY <1>1, <1>6, <2>1, <3>2, <3>3, FateKept
      <3>7. Promise!Reject(m)
        BY <1>1, <1>4, <2>3, <3>5, <3>6, FateTurns DEF Promise!Reject
      <3> QED BY <1>4, <3>4, <3>7 DEF Promise!Next
    <2> QED BY <2>4, <2>5
  <1>8. CASE ~head.enveloped
    <2>1. \A n \in Message : Original(n) # head
      BY <1>8, Envelopes
    <2>2. dlq' = Append(dlq, head) /\ UNCHANGED handler
      BY <1>8, <1>9 DEF Deliver, HasHandler
    <2>3. Once(dlq') /\ \A n \in Message : In(dlq', Original(n)) <=> In(dlq, Original(n))
      BY <1>2, <1>3, <1>8, <2>1, <2>2, AppendOnce
    <2>4. \A n \in Message : Holds(n)' <=> Holds(n)
      BY <1>1, <2>2 DEF Holds
    <2>5. \A n \in Message : In(main', Original(n)) <=> In(main, Original(n))
      BY <1>3, <2>1
    <2>6. OneCopy'
      BY <1>1, <1>3, <2>3, <2>4, <2>5, OneCopyKept
    <2>7. \A n \in Message : FateOf(n)' = FateOf(n)
      BY <1>1, <1>6, <2>3, <2>4, <2>5, FateKept
    <2> QED BY <1>1, <2>6, <2>7, FateStutters
  <1> QED BY <1>7, <1>8

(* A handler holds the copy of its message, on its own channel. *)
LEMMA Handling ==
  ASSUME Inv, OnlyPublished, NEW c \in Channel, handler[c] # NULL
  PROVE  /\ handler[c] \in Handler /\ MessageOf(c) \in Message /\ Published(MessageOf(c))
         /\ handler[c].packet = Original(MessageOf(c)) /\ c <= channel
  <1>1. handler[c] \in Handler /\ handler[c].packet \in Packet /\ handler[c].packet.enveloped
    BY DEF Inv, TypeOK, Owes, Handler
  <1> QED BY <1>1, Envelopes DEF MessageOf, OnlyPublished

LEMMA EffectedGrows ==
  ASSUME NEW m \in Message, applied \in Seq(Message), applied' = Append(applied, m)
  PROVE  {applied'[i] : i \in DOMAIN applied'} = {applied[i] : i \in DOMAIN applied} \cup {m}
  <1>1. /\ DOMAIN applied = 1 .. Len(applied) /\ Len(applied) \in Nat
        /\ DOMAIN applied' = 1 .. Len(applied) + 1
        /\ applied'[Len(applied) + 1] = m
        /\ \A i \in DOMAIN applied : applied'[i] = applied[i]
    BY AppendArrival
  <1>2. /\ \A i \in DOMAIN applied' : i \in DOMAIN applied \/ i = Len(applied) + 1
        /\ \A i \in DOMAIN applied : i \in DOMAIN applied'
        /\ Len(applied) + 1 \in DOMAIN applied'
    BY <1>1
  <1> QED BY <1>1, <1>2

(* The handler goes on with its copy; it may have had its effect. *)
LEMMA FateHandle ==
  ASSUME Inv, OnlyPublished, OneCopy, NEW c \in Channel, HandleEnds(c) \/ Retry(c)
  PROVE  OneCopy' /\ [Promise!Next]_(Promise!vars)
  <1>1. handler[c] # NULL /\ handler \in [Channel -> Handler \cup {NULL}]
        /\ channel \in Channel /\ applied \in Seq(Message)
    BY ConsumerAssumption
    DEF HandleEnds, Succeed, Throw, Refuse, Retry, At, Inv, TypeOK, Channel
  <1>2. /\ handler[c] \in Handler /\ MessageOf(c) \in Message /\ Published(MessageOf(c))
        /\ UNCHANGED <<arrival, main, dlq, channel, acked>>
    BY <1>1, Handling DEF HandleEnds, Succeed, Throw, Refuse, Retry, history
  <1>3. /\ \A d \in Channel : d # c => handler'[d] = handler[d]
        /\ handler'[c] # NULL /\ handler'[c].packet = handler[c].packet
    <2>1. CASE HandleEnds(c)
      <3>1. PICK point \in {"handled", "failed", "invalid"} : Reach(c, point)
        BY <2>1 DEF HandleEnds, Succeed, Throw, Refuse
      <3>2. handler'[c] = [handler[c] EXCEPT !.at = point]
            /\ \A d \in Channel : d # c => handler'[d] = handler[d]
        BY <1>1, <3>1 DEF Reach
      <3>3. handler'[c] \in Handler /\ handler'[c].packet = handler[c].packet
        BY <1>2, <3>2 DEF Handler
      <3> QED BY <3>2, <3>3, NoHandlerAssumption
    <2>2. CASE Retry(c)
      <3>1. /\ handler'[c] = [handler[c] EXCEPT !.at = "handle", !.attempt = @ + 1]
            /\ handler[c].attempt < MaxRetries
            /\ \A d \in Channel : d # c => handler'[d] = handler[d]
        BY <1>1, <2>2 DEF Retry
      <3>2. handler[c].attempt + 1 \in 1 .. MaxRetries
        BY <1>2, <3>1, ConsumerAssumption DEF Handler
      <3>3. handler'[c] \in Handler /\ handler'[c].packet = handler[c].packet
        BY <1>2, <3>1, <3>2 DEF Handler
      <3> QED BY <3>1, <3>3, NoHandlerAssumption
    <2> QED BY <2>1, <2>2
  <1>4. \A n \in Message : (Holds(n)' <=> Holds(n)) /\ (Published(n)' <=> Published(n))
    BY <1>1, <1>2, <1>3 DEF Holds, Original, Published
  <1>5. OneCopy'
    <2>1. Once(main') /\ Once(dlq')
      BY <1>2 DEF OneCopy
    <2> QED BY <1>2, <1>4, <2>1, OneCopyKept
  <1>6. \A n \in Message : FateOf(n)' = FateOf(n)
    BY <1>2, <1>4, FateKept
  <1>7. CASE applied' = applied
    BY <1>5, <1>6, <1>7, FateStutters
  <1>8. CASE applied' = Append(applied, MessageOf(c))
    <2>1. PICK m \in Message : m = MessageOf(c)
      BY <1>2
    <2>2. FateOf(m) # "unsent"
      BY <1>2, <2>1 DEF FateOf
    <2>3. {applied'[i] : i \in DOMAIN applied'} = {applied[i] : i \in DOMAIN applied} \cup {m}
      BY <1>1, <1>8, <2>1, EffectedGrows
    <2>4. Promise!Effect(m)
      BY <1>6, <2>2, <2>3 DEF Promise!Effect
    <2> QED BY <1>5, <2>4 DEF Promise!Next
  <1> QED
    BY <1>7, <1>8 DEF HandleEnds, Succeed, Throw, Refuse, Retry, history

(* A handler on a lost channel answers nobody. *)
LEMMA FateAnswer ==
  ASSUME Inv, OnlyPublished, OneCopy, NEW c \in Channel, Ack(c) \/ Nack(c)
  PROVE  OneCopy' /\ [Promise!Next]_(Promise!vars)
  <1>1. handler[c] # NULL /\ handler \in [Channel -> Handler \cup {NULL}]
        /\ channel \in Channel /\ main \in Seq(Packet) /\ dlq \in Seq(Packet)
    BY ConsumerAssumption DEF Ack, Nack, At, Inv, TypeOK, Channel
  <1>2. PICK m \in Message : m = MessageOf(c)
    BY <1>1, Handling
  <1>3. /\ Published(m) /\ handler[c].packet = Original(m)
        /\ UNCHANGED <<arrival, main, channel, applied>>
        /\ handler'[c] = NULL /\ \A d \in Channel : d # c => handler'[d] = handler[d]
    BY <1>1, <1>2, Handling DEF Ack, Nack, EndHandler, history
  <1>4. Once(main') /\ Once(dlq) /\ \A n \in Message : Published(n)' <=> Published(n)
    BY <1>3 DEF OneCopy, Published
  <1>5. CASE c # channel
    <2>1. UNCHANGED <<dlq, acked>>
      BY <1>5 DEF Ack, Nack, history
    <2>2. \A n \in Message : Holds(n)' <=> Holds(n)
      BY <1>1, <1>3, <1>5 DEF Holds, Original
    <2>3. OneCopy'
      BY <1>3, <1>4, <2>1, <2>2, OneCopyKept
    <2>4. \A n \in Message : FateOf(n)' = FateOf(n)
      BY <1>3, <1>4, <2>1, <2>2, FateKept
    <2> QED BY <1>3, <2>3, <2>4, FateStutters
  <1>6. CASE c = channel
    <2>1. \A n \in Message : Holds(n) <=> n = m
      BY <1>1, <1>3, <1>6, Envelopes DEF Holds
    <2>2. \A n \in Message : ~Holds(n)'
      BY <1>3, <1>6 DEF Holds
    <2>3. m \notin acked /\ ~In(main, Original(m)) /\ ~In(dlq, Original(m))
      BY <2>1 DEF OneCopy
    <2>4. FateOf(m) = "held"
      BY <1>3, <2>1, <2>3, FateCases
    <2>5. CASE Ack(c)
      <3>1. acked' = acked \cup {m} /\ UNCHANGED dlq
        BY <1>2, <1>6, <2>5 DEF Ack
      <3>2. OneCopy'
        BY <1>3, <1>4, <2>2, <2>3, <3>1, OneCopyNext DEF OneCopy
      <3>3. FateOf(m)' = "acked"
        BY <1>3, <1>4, <3>1, FateCasesNext
      <3>4. \A n \in Message : n # m => FateOf(n)' = FateOf(n)
        BY <1>3, <1>4, <2>1, <2>2, <3>1, FateKept
      <3>5. m \in {applied[i] : i \in DOMAIN applied}
        BY <1>1, <1>2, <2>5 DEF Ack, At, Inv, Owes, Occurs
      <3>6. Promise!Turn(m, {"held"}, "acked")
        BY <1>3, <2>4, <3>3, <3>4, FateTurns
      <3>7. Promise!Acknowledge(m)
        BY <3>5, <3>6 DEF Promise!Acknowledge
      <3> QED BY <3>2, <3>7 DEF Promise!Next
    <2>6. CASE Nack(c)
      <3>1. dlq' = Append(dlq, Original(m)) /\ UNCHANGED acked
        BY <1>3, <1>6, <2>6 DEF Nack, history
      <3>2. Once(dlq') /\ \A n \in Message : In(dlq', Original(n)) <=> In(dlq, Original(n)) \/ n = m
        BY <1>1, <1>4, <2>3, <3>1, AppendOnce, Envelopes
      <3>3. OneCopy'
        BY <1>3, <1>4, <2>2, <2>3, <3>1, <3>2, OneCopyNext DEF OneCopy
      <3>4. FateOf(m)' = "dead"
        BY <1>3, <1>4, <2>2, <2>3, <3>1, <3>2, FateCasesNext
      <3>5. \A n \in Message : n # m => FateOf(n)' = FateOf(n)
        BY <1>3, <1>4, <2>1, <2>2, <3>1, <3>2, FateKept
      <3>6. Promise!Reject(m)
        BY <1>3, <2>4, <3>4, <3>5, FateTurns DEF Promise!Reject
      <3> QED BY <3>3, <3>6 DEF Promise!Next
    <2> QED BY <2>5, <2>6
  <1> QED BY <1>5, <1>6

(* Handlers are on the channels opened so far. *)
LEMMA FateLose ==
  ASSUME Inv, OnlyPublished, OneCopy, LoseConnection \/ Crash
  PROVE  OneCopy' /\ [Promise!Next]_(Promise!vars)
  <1>1. /\ channel \in Channel /\ channel' = channel + 1 /\ channel' \in Channel
        /\ handler \in [Channel -> Handler \cup {NULL}]
        /\ main \in Seq(Packet)
        /\ main' = IF handler[channel] = NULL THEN main ELSE <<handler[channel].packet>> \o main
        /\ UNCHANGED <<arrival, dlq, acked, applied>>
    BY ConsumerAssumption DEF LoseConnection, Crash, LoseChannel, history, Inv, TypeOK, Channel
  <1>2. handler'[channel'] = NULL
    <2>1. handler[channel + 1] = NULL
      <3>1. ~(channel + 1 <= channel)
        BY <1>1 DEF Channel
      <3> QED BY <1>1, <3>1 DEF OnlyPublished
    <2> QED BY <1>1, <2>1 DEF LoseConnection, Crash
  <1>3. /\ Once(main) /\ Once(dlq')
        /\ \A n \in Message : ~Holds(n)' /\ (Published(n)' <=> Published(n))
    BY <1>1, <1>2 DEF OneCopy, Holds, Published
  <1>4. CASE handler[channel] = NULL
    <2>1. \A n \in Message : ~Holds(n)
      BY <1>4 DEF Holds
    <2>2. UNCHANGED main
      BY <1>1, <1>4
    <2>3. OneCopy'
      BY <1>1, <1>3, <2>1, <2>2, OneCopyKept
    <2>4. \A n \in Message : FateOf(n)' = FateOf(n)
      BY <1>1, <1>3, <2>1, <2>2, FateKept
    <2> QED BY <1>1, <2>3, <2>4, FateStutters
  <1>5. CASE handler[channel] # NULL
    <2>1. PICK m \in Message : m = MessageOf(channel)
      BY <1>1, <1>5, Handling
    <2>2. handler[channel].packet = Original(m) /\ Published(m)
      BY <1>1, <1>5, <2>1, Handling
    <2>3. \A n \in Message : Holds(n) <=> n = m
      BY <1>5, <2>2, Envelopes DEF Holds
    <2>4. m \notin acked /\ ~In(main, Original(m)) /\ ~In(dlq, Original(m))
      BY <2>3 DEF OneCopy
    <2>5. Once(main') /\ \A n \in Message : In(main', Original(n)) <=> In(main, Original(n)) \/ n = m
      <3>1. main' = <<Original(m)>> \o main
        BY <1>1, <1>5, <2>2
      <3> QED BY <1>1, <1>3, <2>4, <3>1, RequeueOnce, Envelopes
    <2>6. OneCopy'
      BY <1>1, <1>3, <2>4, <2>5, OneCopyNext DEF OneCopy
    <2>7. FateOf(m) = "held"
      BY <2>2, <2>3, <2>4, FateCases
    <2>8. FateOf(m)' = "waiting"
      BY <1>1, <1>3, <2>2, <2>4, <2>5, FateCasesNext
    <2>9. \A n \in Message : n # m => FateOf(n)' = FateOf(n)
      BY <1>1, <1>3, <2>3, <2>5, FateKept
    <2>10. Promise!Turn(m, {"held"}, "waiting")
      BY <1>1, <2>7, <2>8, <2>9, FateTurns
    <2>11. Promise!Return(m)
      BY <2>10 DEF Promise!Return
    <2> QED BY <2>6, <2>11 DEF Promise!Next
  <1> QED BY <1>4, <1>5

(* What goes from the dead letters back to the queue has lost its envelope. *)
LEMMA FateDlq ==
  ASSUME Inv, OnlyPublished, OneCopy, ConsumeDlq \/ LoseDlqAck
  PROVE  OneCopy' /\ [Promise!Next]_(Promise!vars)
  <1>1. /\ main \in Seq(Packet) /\ dlq \in Seq(Packet) /\ dlq # <<>>
        /\ UNCHANGED <<arrival, handler, channel, acked, applied>>
    BY DEF ConsumeDlq, LoseDlqAck, history, Inv, TypeOK
  <1>2. PICK head \in Packet : head = Head(dlq)
    BY <1>1, TailPackets
  <1>3. PICK bare \in Packet : bare = [head EXCEPT !.enveloped = FALSE]
    BY DEF Packet
  <1>4. ~bare.enveloped
    BY <1>3 DEF Packet
  <1>5. main' = main \/ main' = Append(main, bare)
    BY <1>2, <1>3 DEF ConsumeDlq, LoseDlqAck
  <1>6. /\ Once(main) /\ Once(dlq)
        /\ \A n \in Message : Original(n) # bare
    BY <1>4, Envelopes DEF OneCopy
  <1>7. Once(main') /\ \A n \in Message : In(main', Original(n)) <=> In(main, Original(n))
    <2>1. CASE main' = main
      BY <1>6, <2>1
    <2>2. CASE main' = Append(main, bare)
      <3>1. Once(main') /\ \A p : In(main', p) <=> In(main, p) \/ p = bare
        BY <1>1, <1>4, <1>6, <2>2, AppendOnce
      <3> QED BY <1>6, <3>1
    <2> QED BY <1>5, <2>1, <2>2
  <1>8. \A n \in Message : (Holds(n)' <=> Holds(n)) /\ (Published(n)' <=> Published(n))
    BY <1>1 DEF Holds, Published
  <1>9. ASSUME Once(dlq'), \A n \in Message : In(dlq', Original(n)) <=> In(dlq, Original(n))
        PROVE  OneCopy' /\ UNCHANGED Promise!vars
    <2>1. OneCopy'
      BY <1>1, <1>7, <1>8, <1>9, OneCopyKept
    <2>2. \A n \in Message : FateOf(n)' = FateOf(n)
      BY <1>1, <1>7, <1>8, <1>9, FateKept
    <2> QED BY <1>1, <2>1, <2>2, FateStutters
  <1>10. CASE LoseDlqAck
    <2>1. UNCHANGED dlq
      BY <1>10 DEF LoseDlqAck
    <2> QED BY <1>6, <1>9, <2>1
  <1>11. CASE ConsumeDlq
    <2>1. /\ dlq' = Tail(dlq) /\ Once(dlq') /\ In(dlq, head)
          /\ \A n \in Message : In(dlq', Original(n)) <=> In(dlq, Original(n)) /\ Original(n) # head
      BY <1>1, <1>2, <1>6, <1>11, TailOnce, Envelopes DEF ConsumeDlq
    <2>2. CASE ~head.enveloped
      <3>1. \A n \in Message : Original(n) # head
        BY <2>2, Envelopes
      <3> QED BY <1>9, <2>1, <3>1
    <2>3. CASE head.enveloped
      <3>1. PICK m \in Message : head = Original(m)
        BY <2>3, Envelopes
      <3>2. /\ In(dlq, Original(m)) /\ ~In(dlq', Original(m))
            /\ \A n \in Message : n # m => (In(dlq', Original(n)) <=> In(dlq, Original(n)))
        BY <2>1, <3>1, Envelopes
      <3>3. m \notin acked /\ ~In(main, Original(m)) /\ ~Holds(m) /\ Published(m)
        BY <3>2, Unpublished DEF OneCopy
      <3>4. OneCopy'
        BY <1>1, <1>7, <1>8, <2>1, OneCopyNext DEF OneCopy
      <3>5. FateOf(m) = "dead"
        BY <3>2, <3>3, FateCases
      <3>6. FateOf(m)' = "buried"
        BY <1>1, <1>7, <1>8, <3>2, <3>3, FateCasesNext
      <3>7. \A n \in Message : n # m => FateOf(n)' = FateOf(n)
        BY <1>1, <1>7, <1>8, <3>2, FateKept
      <3>8. Promise!Turn(m, {"dead"}, "buried")
        BY <1>1, <3>5, <3>6, <3>7, FateTurns
      <3>9. Promise!Bury(m)
        BY <3>8 DEF Promise!Bury
      <3> QED BY <3>4, <3>9 DEF Promise!Next
    <2> QED BY <2>2, <2>3
  <1> QED BY <1>10, <1>11

LEMMA FateStep ==
  ASSUME Inv, OnlyPublished, OneCopy, [Next]_vars
  PROVE  OneCopy' /\ [Promise!Next]_(Promise!vars)
  <1>1. ASSUME NEW m \in Message, Publish(m)
        PROVE  OneCopy' /\ [Promise!Next]_(Promise!vars)
    BY <1>1, FatePublish DEF Promise!Next
  <1>2. ASSUME UNCHANGED vars
        PROVE  OneCopy' /\ [Promise!Next]_(Promise!vars)
    <2>1. UNCHANGED <<arrival, main, dlq, channel, handler, acked, applied>>
      BY <1>2 DEF vars, history
    <2>2. \A n \in Message : (Holds(n)' <=> Holds(n)) /\ (Published(n)' <=> Published(n))
      BY <2>1 DEF Holds, Published
    <2>3. OneCopy'
      BY <2>1, <2>2, OneCopyKept DEF OneCopy
    <2>4. \A n \in Message : FateOf(n)' = FateOf(n)
      BY <2>1, <2>2, FateKept
    <2> QED BY <2>1, <2>3, <2>4, FateStutters
  <1>3. ASSUME NEW c \in Channel, Run(c)
        PROVE  OneCopy' /\ [Promise!Next]_(Promise!vars)
    BY <1>3, FateHandle, FateAnswer DEF Run, Answer
  <1> QED
    BY <1>1, <1>2, <1>3, FateDeliver, FateLose, FateDlq DEF Next, Idle

LEMMA FateInit == Init => OneCopy /\ Promise!Init
  <1> SUFFICES ASSUME Init PROVE OneCopy /\ Promise!Init
    OBVIOUS
  <1>1. DOMAIN arrival = {} /\ DOMAIN main = {} /\ DOMAIN dlq = {} /\ DOMAIN applied = {}
    BY DEF Init
  <1>2. handler[channel] = NULL
    BY ConsumerAssumption DEF Init, Channel
  <1>3. OneCopy
    BY <1>1, <1>2 DEF OneCopy, Once, In, Holds
  <1>4. \A m \in Message : FateOf(m) = "unsent"
    BY <1>1 DEF FateOf, Published
  <1> QED BY <1>1, <1>3, <1>4 DEF Promise!Init

LEMMA CopiesHold == Spec => []OneCopy
  <1>1. Inv /\ OnlyPublished /\ OneCopy /\ [Next]_vars => OneCopy'
    BY FateStep
  <1> QED BY <1>1, FateInit, OrderHolds, PTL DEF Spec

(* Whatever fails, the published copy of a message goes through its fates  *)
(* as MessageFate allows: it is answered for once, by the handler on the   *)
(* live channel, acknowledged only after its effect, and buried only from  *)
(* the dead letters.                                                       *)
THEOREM FateIsImplemented == Spec => ImplementsMessageFate
  <1>1. Inv /\ OnlyPublished /\ OneCopy /\ [Next]_vars => [Promise!Next]_(Promise!vars)
    BY FateStep
  <1> QED
    BY <1>1, FateInit, OrderHolds, CopiesHold, PTL DEF Spec, ImplementsMessageFate, Promise!Spec

-----------------------------------------------------------------------------
(* What is settled stays so: the copy that was thrown away is nowhere.     *)
Thrown == \A m \in Message : Original(m) \in discarded => FateOf(m) = "buried"

LEMMA BuriedForGood ==
  ASSUME NEW m \in Message, FateOf(m) = "buried", [Promise!Next]_(Promise!vars)
  PROVE  FateOf(m)' = "buried"
  <1>1. ASSUME NEW n \in Message, NEW from, NEW to, "buried" \notin from, Promise!Turn(n, from, to)
        PROVE  FateOf(m)' = "buried"
    <2>1. FateOf(n) \in from
      BY <1>1 DEF Promise!Turn
    <2>2. n # m
      BY <1>1, <2>1
    <2> QED BY <1>1, <2>2 DEF Promise!Turn
  <1>2. ASSUME NEW n \in Message, Promise!Effect(n) PROVE FateOf(m)' = "buried"
    BY <1>2 DEF Promise!Effect
  <1>3. UNCHANGED Promise!vars => FateOf(m)' = "buried"
    BY DEF Promise!vars
  <1> QED
    BY <1>1, <1>2, <1>3
    DEF Promise!Next, Promise!Publish, Promise!Deliver, Promise!Return, Promise!Acknowledge,
        Promise!Reject, Promise!Bury

LEMMA ThrownStep ==
  ASSUME Inv, OnlyPublished, OneCopy, Thrown, [Next]_vars
  PROVE  Thrown'
  <1>1. ASSUME NEW m \in Message, Original(m) \in discarded PROVE FateOf(m)' = "buried"
    BY <1>1, FateStep, BuriedForGood DEF Thrown
  <1>2. ASSUME ConsumeDlq, NEW m \in Message, Original(m) \in discarded', Original(m) \notin discarded
        PROVE  FateOf(m)' = "buried"
    <2>1. /\ dlq \in Seq(Packet) /\ dlq # <<>> /\ dlq' = Tail(dlq)
          /\ Original(m) = Head(dlq)
          /\ UNCHANGED <<arrival, main, handler, channel, acked>>
      BY <1>2 DEF ConsumeDlq, Inv, TypeOK
    <2>2. In(dlq, Original(m)) /\ ~In(dlq', Original(m))
      BY <2>1, TailOnce, Envelopes DEF OneCopy
    <2>3. m \notin acked /\ ~In(main, Original(m)) /\ ~Holds(m) /\ Published(m)
      BY <2>2, Unpublished DEF OneCopy
    <2>4. (Holds(m)' <=> Holds(m)) /\ (Published(m)' <=> Published(m))
      BY <2>1 DEF Holds, Published
    <2> QED BY <2>1, <2>2, <2>3, <2>4, FateCasesNext
  <1>3. ~ConsumeDlq => UNCHANGED discarded
    BY DEF Next, vars, history, Publish, Deliver, Run, HandleEnds, Answer, Succeed, Throw, Refuse,
           Ack, Nack, Retry, LoseConnection, Crash, LoseChannel, LoseDlqAck, Idle
  <1>4. \A m \in Message : Original(m)' = Original(m)
    BY DEF Original
  <1> QED BY <1>1, <1>2, <1>3, <1>4 DEF Thrown

LEMMA SettledIsNotHeld ==
  ASSUME Inv, OnlyPublished, OneCopy, Thrown, NEW m \in Message,
         m \in acked \/ Original(m) \in discarded
  PROVE  ~Holds(m)
  <1> SUFFICES ASSUME Holds(m) PROVE FALSE
    OBVIOUS
  <1>1. m \notin acked /\ ~In(main, Original(m)) /\ Published(m)
    BY Unpublished DEF OneCopy
  <1> QED BY <1>1, FateCases DEF Thrown

(* Where nothing is republished every packet has its envelope. *)
Enveloped ==
  ~Republish =>
    /\ \A i \in DOMAIN main : main[i].enveloped
    /\ \A i \in DOMAIN dlq : dlq[i].enveloped
    /\ \A packet \in discarded : packet.enveloped

LEMMA EnvelopedStep ==
  ASSUME Inv, Enveloped, [Next]_vars
  PROVE  Enveloped'
  <1> DEFINE All(queue) == \A i \in DOMAIN queue : queue[i].enveloped
  <1> SUFFICES ASSUME ~Republish
               PROVE  All(main') /\ All(dlq') /\ \A packet \in discarded' : packet.enveloped
    BY DEF Enveloped
  <1>1. /\ All(main) /\ All(dlq) /\ \A packet \in discarded : packet.enveloped
        /\ main \in Seq(Packet) /\ dlq \in Seq(Packet) /\ channel \in Channel
        /\ handler \in [Channel -> Handler \cup {NULL}]
    BY ConsumerAssumption DEF Enveloped, Inv, TypeOK, Channel
  <1>2. ASSUME NEW queue \in Seq(Packet), All(queue), NEW packet \in Packet, packet.enveloped
        PROVE  All(Append(queue, packet)) /\ All(<<packet>> \o queue)
    BY <1>2, AppendPackets, RequeuePackets
  <1>3. ASSUME NEW queue \in Seq(Packet), queue # <<>>, All(queue)
        PROVE  All(Tail(queue)) /\ Head(queue) \in Packet /\ Head(queue).enveloped
    BY <1>3, TailPackets
  <1>4. \A c \in Channel : handler[c] # NULL =>
          handler[c].packet \in Packet /\ handler[c].packet.enveloped
    BY <1>1 DEF Inv, Owes, Handler
  <1> HIDE DEF All
  <1>5. ASSUME NEW m \in Message, Publish(m)
        PROVE  All(main') /\ UNCHANGED <<dlq, discarded>>
    <2>1. main' = Append(main, Original(m))
      BY <1>5 DEF Publish, Original
    <2> QED BY <1>1, <1>2, <1>5, <2>1, Envelopes DEF Publish, history
  <1>6. Deliver => All(main') /\ All(dlq') /\ UNCHANGED discarded
    BY <1>1, <1>2, <1>3 DEF Deliver, history
  <1>7. ASSUME NEW c \in Channel, Run(c)
        PROVE  All(dlq') /\ UNCHANGED <<main, discarded>>
    BY <1>1, <1>2, <1>4, <1>7
    DEF Run, HandleEnds, Answer, Succeed, Throw, Refuse, Ack, Nack, Retry, At, history
  <1>8. LoseChannel => All(main') /\ UNCHANGED <<dlq, discarded>>
    BY <1>1, <1>2, <1>4 DEF LoseChannel, history
  <1>9. ConsumeDlq => /\ All(dlq') /\ UNCHANGED main
                      /\ \A packet \in discarded' : packet.enveloped
    BY <1>1, <1>3 DEF ConsumeDlq
  <1>10. ~LoseDlqAck
    BY DEF LoseDlqAck
  <1>11. UNCHANGED vars => UNCHANGED <<main, dlq, discarded>>
    BY DEF vars, history
  <1> QED
    BY <1>1, <1>5, <1>6, <1>7, <1>8, <1>9, <1>10, <1>11
    DEF Next, LoseConnection, Crash, Idle

Copies == OnlyPublished /\ OneCopy /\ Thrown /\ Enveloped

LEMMA CopiesInit == Init => Copies
  <1> SUFFICES ASSUME Init PROVE Copies
    OBVIOUS
  <1>1. OnlyPublished
    BY DEF Init, OnlyPublished
  <1>2. Thrown /\ Enveloped
    BY DEF Init, Thrown, Enveloped
  <1> QED BY <1>1, <1>2, FateInit DEF Copies

LEMMA CopiesStep == Inv /\ Copies /\ [Next]_vars => Copies'
  BY OnlyPublishedStep, FateStep, ThrownStep, EnvelopedStep DEF Copies
=============================================================================
