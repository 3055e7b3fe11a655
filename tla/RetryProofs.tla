------------------------------ MODULE RetryProofs ------------------------------
(***************************************************************************)
(* Proof that MessageConsumer bounds the retries of a message.             *)
(*                                                                         *)
(* Handlers of one message may run on several channels at once, so no      *)
(* single counter bounds its failures.  The invariant is a running total   *)
(* s: s[c] failed on the channels before c.  No channel adds more than     *)
(* MaxRetries, because a channel is delivered the one copy at most once.   *)
(***************************************************************************)
EXTENDS MessageFateProofs

Channels == 0 .. MaxLosses + 1

Bounded(s) ==
  /\ s \in [Channels -> Nat] /\ s[0] = 0
  /\ \A a, b \in Channels : a <= b => s[b] - s[a] <= (b - a) * MaxRetries

(* The running total of the failures of m agrees with its handlers. *)
Tallies(m, s) ==
  /\ failures[m] = s[channel + 1]
  /\ \A b \in Channels : b > channel => s[b] = s[channel + 1]
  /\ In(main, Original(m)) \/ ~Published(m) => s[channel + 1] = s[channel]
  /\ \A c \in Channel : handler[c] # NULL /\ MessageOf(c) = m =>
       /\ handler[c].at = "handle" => s[c + 1] - s[c] < handler[c].attempt
       /\ handler[c].at = "failed" => s[c + 1] - s[c] <= handler[c].attempt

Accounted == \A m \in Message : \E s : Bounded(s) /\ Tallies(m, s)

(* One more failure on channel c. *)
Raised(s, c) == [b \in Channels |-> IF b > c THEN s[b] + 1 ELSE s[b]]

LEMMA Places ==
  /\ \A c \in Channel : c \in Channels /\ c + 1 \in Channels /\ c \in Nat
  /\ \A b \in Channels : b \in Nat
  BY ConsumerAssumption DEF Channel, Channels

LEMMA RaisedBounded ==
  ASSUME NEW s, Bounded(s), NEW c \in Channel, s[c + 1] - s[c] < MaxRetries
  PROVE  Bounded(Raised(s, c))
  <1> DEFINE t == Raised(s, c)
  <1>1. t \in [Channels -> Nat] /\ t[0] = 0
    <2>1. 0 \in Channels /\ ~(0 > c) /\ s \in [Channels -> Nat] /\ s[0] = 0
      <3>1. 0 \in Channels
        BY ConsumerAssumption DEF Channels
      <3>2. ~(0 > c)
        BY Places
      <3> QED BY <3>1, <3>2 DEF Bounded
    <2> QED BY <2>1 DEF Raised
  <1>2. MaxRetries \in Nat /\ c \in Nat /\ c \in Channels /\ c + 1 \in Channels
    BY ConsumerAssumption, Places
  <1>3. ASSUME NEW a \in Channels, NEW b \in Channels, a <= b
        PROVE  t[b] - t[a] <= (b - a) * MaxRetries
    <2>1. a \in Nat /\ b \in Nat /\ s[a] \in Nat /\ s[b] \in Nat /\ s[c] \in Nat /\ s[c + 1] \in Nat
      BY <1>2, Places DEF Bounded
    <2>2. CASE a > c \/ b <= c
      <3>1. t[b] - t[a] = s[b] - s[a]
        BY <1>2, <1>3, <2>1, <2>2 DEF Raised
      <3> QED BY <1>3, <3>1 DEF Bounded
    <2>3. CASE a <= c /\ c < b
      <3>1. t[b] = s[b] + 1 /\ t[a] = s[a]
        BY <1>2, <2>1, <2>3 DEF Raised
      <3>2. /\ s[c] - s[a] <= (c - a) * MaxRetries
            /\ s[b] - s[c + 1] <= (b - (c + 1)) * MaxRetries
        BY <1>2, <2>1, <2>3 DEF Bounded
      <3>3. (b - a) * MaxRetries = (c - a) * MaxRetries + (b - (c + 1)) * MaxRetries + MaxRetries
        BY <1>2, <2>1
      <3>4. (b - a) * MaxRetries \in Int /\ (c - a) * MaxRetries \in Int
            /\ (b - (c + 1)) * MaxRetries \in Int
        BY <1>2, <2>1
      <3> QED BY <1>2, <2>1, <3>1, <3>2, <3>3, <3>4
    <2> QED BY <1>2, <2>1, <2>2, <2>3
  <1> QED BY <1>1, <1>3 DEF Bounded

(* Steps at which nothing fails on the same channel. *)
LEMMA TallyKept ==
  ASSUME NEW m \in Message, NEW s, Tallies(m, s), UNCHANGED channel, failures'[m] = failures[m],
         In(main', Original(m)) \/ ~Published(m)' => In(main, Original(m)) \/ ~Published(m),
         \A c \in Channel : handler'[c] # NULL /\ handler'[c].packet.message = m =>
           \/ handler'[c] = handler[c]
           \/ /\ handler'[c].at = "handle" => s[c + 1] - s[c] < handler'[c].attempt
              /\ handler'[c].at = "failed" => s[c + 1] - s[c] <= handler'[c].attempt
  PROVE  Tallies(m, s)'
  <1>1. In(main, Original(m))' <=> In(main', Original(m))
    BY DEF In, Original
  <1> QED BY <1>1 DEF Tallies, MessageOf

LEMMA TallyPublish ==
  ASSUME Inv, OnlyPublished, NEW m \in Message, NEW s, Tallies(m, s), NEW n \in Message, Publish(n)
  PROVE  Tallies(m, s)'
  <1>1. /\ main' = Append(main, Original(n)) /\ main \in Seq(Packet)
        /\ UNCHANGED <<channel, handler, failures>> /\ ~Published(n)
    BY DEF Publish, Original, history, Inv, TypeOK
  <1>2. In(main', Original(m)) => In(main, Original(m)) \/ n = m
    <2>1. \A i \in DOMAIN main' : main'[i] = Original(n) \/ \E j \in DOMAIN main : main'[i] = main[j]
      BY <1>1, AppendPackets, Envelopes
    <2> QED BY <2>1, Envelopes DEF In
  <1>3. Published(m) => Published(m)'
    BY PublishedStep DEF Next, Published, PublishedNext
  <1> QED BY <1>1, <1>2, <1>3, TallyKept

LEMMA TallyDeliver ==
  ASSUME Inv, OnlyPublished, NEW m \in Message, NEW s, Bounded(s), Tallies(m, s), Deliver
  PROVE  Tallies(m, s)'
  <1>1. /\ channel \in Channel /\ main \in Seq(Packet) /\ main # <<>> /\ main' = Tail(main)
        /\ handler \in [Channel -> Handler \cup {NULL}]
        /\ UNCHANGED <<arrival, channel, failures>>
    BY ConsumerAssumption DEF Deliver, history, Inv, TypeOK, Channel
  <1>2. PICK head \in Packet : head = Head(main)
    BY <1>1, TailPackets
  <1>3. /\ \E j \in DOMAIN main : head = main[j]
        /\ In(main', Original(m)) => In(main, Original(m))
    BY <1>1, <1>2, TailPackets DEF In
  <1>4. ASSUME NEW c \in Channel, handler'[c] # NULL, handler'[c].packet.message = m,
               handler'[c] # handler[c]
        PROVE  handler'[c].at = "handle" /\ s[c + 1] - s[c] < handler'[c].attempt
    <2>1. c = channel /\ HasHandler(head)
          /\ handler'[c] = [packet |-> head, attempt |-> 1, at |-> "handle"]
      BY <1>1, <1>2, <1>4 DEF Deliver
    <2>2. head = Original(m)
      BY <1>4, <2>1, Envelopes DEF HasHandler
    <2>3. s[c + 1] = s[c]
      BY <1>3, <2>1, <2>2 DEF Tallies, In
    <2>4. s[c + 1] - s[c] < 1
      BY <2>3, Places DEF Bounded
    <2> QED BY <2>1, <2>4
  <1>5. Published(m)' <=> Published(m)
    BY <1>1 DEF Published
  <1> QED BY <1>1, <1>3, <1>4, <1>5, TallyKept

(* A failed attempt is the only step that counts. *)
LEMMA TallyThrow ==
  ASSUME Inv, OnlyPublished, OneCopy, NEW m \in Message, NEW s, Bounded(s), Tallies(m, s),
         NEW c \in Channel, Throw(c)
  PROVE  \E t : Bounded(t) /\ Tallies(m, t)'
  <1>1. /\ channel \in Channel /\ handler \in [Channel -> Handler \cup {NULL}]
        /\ failures \in [Message -> Nat]
        /\ handler[c] # NULL /\ handler[c].at = "handle"
        /\ failures' = [failures EXCEPT ![MessageOf(c)] = @ + 1]
        /\ UNCHANGED <<arrival, main, channel>>
    BY ConsumerAssumption DEF Throw, At, Inv, TypeOK, Channel
  <1>2. handler[c] \in Handler /\ MessageOf(c) \in Message /\ Published(MessageOf(c))
        /\ handler[c].packet = Original(MessageOf(c)) /\ c <= channel
    BY <1>1, Handling
  <1>3. /\ \A d \in Channel : d # c => handler'[d] = handler[d]
        /\ handler'[c] = [handler[c] EXCEPT !.at = "failed"]
    BY <1>1 DEF Throw, Reach
  <1>4. /\ handler'[c].at = "failed" /\ handler'[c].attempt = handler[c].attempt
        /\ handler'[c].packet = handler[c].packet
        /\ handler[c].attempt \in 1 .. MaxRetries
    BY <1>2, <1>3 DEF Handler
  <1>5. Published(m)' <=> Published(m)
    BY <1>1 DEF Published
  <1>6. CASE MessageOf(c) # m
    <2>1. failures'[m] = failures[m]
      BY <1>1, <1>6
    <2>2. \A d \in Channel : handler'[d] # NULL /\ handler'[d].packet.message = m =>
            handler'[d] = handler[d]
      BY <1>3, <1>4, <1>6 DEF MessageOf
    <2>3. Tallies(m, s)'
      BY <1>1, <1>5, <2>1, <2>2, TallyKept
    <2> QED BY <2>3
  <1>7. CASE MessageOf(c) = m
    <2>1. PICK t : t = Raised(s, c)
      OBVIOUS
    <2>2. s[c + 1] - s[c] < handler[c].attempt
      BY <1>1, <1>7 DEF Tallies
    <2>3. /\ c \in Nat /\ channel \in Nat /\ channel + 1 \in Channels /\ channel \in Channels
          /\ c \in Channels /\ c + 1 \in Channels /\ MaxRetries \in Nat
          /\ \A b \in Channels : b \in Nat /\ s[b] \in Nat
      BY <1>1, ConsumerAssumption, Places DEF Bounded
    <2>4. \A b \in Channels : t[b] = IF b > c THEN s[b] + 1 ELSE s[b]
      BY <2>1 DEF Raised
    <2>5. Bounded(t)
      <3>1. s[c + 1] - s[c] < MaxRetries
        BY <1>4, <2>2, <2>3
      <3> QED BY <2>1, <3>1, RaisedBounded
    <2>6. failures'[m] = t[channel + 1]
      <3>1. failures'[m] = failures[m] + 1
        BY <1>1, <1>7
      <3>2. channel + 1 > c
        BY <1>2, <2>3
      <3> QED BY <2>3, <2>4, <3>1, <3>2 DEF Tallies
    <2>7. ASSUME NEW b \in Channels, b > channel PROVE t[b] = t[channel + 1]
      <3>1. b > c /\ channel + 1 > c
        BY <1>2, <2>3, <2>7
      <3> QED BY <2>3, <2>4, <2>7, <3>1 DEF Tallies
    <2>8. ASSUME In(main', Original(m)) \/ ~Published(m)'
          PROVE  t[channel + 1] = t[channel]
      <3>1. In(main, Original(m)) /\ Published(m)
        BY <1>1, <1>2, <1>5, <1>7, <2>8
      <3>2. c # channel
        BY <1>1, <1>2, <1>7, <3>1 DEF OneCopy, Holds
      <3>3. channel > c /\ channel + 1 > c
        BY <1>2, <2>3, <3>2
      <3> QED BY <2>3, <2>4, <3>1, <3>3 DEF Tallies
    <2>9. ASSUME NEW d \in Channel, handler'[d] # NULL, handler'[d].packet.message = m
          PROVE  /\ handler'[d].at = "handle" => t[d + 1] - t[d] < handler'[d].attempt
                 /\ handler'[d].at = "failed" => t[d + 1] - t[d] <= handler'[d].attempt
      <3>1. d \in Nat /\ d \in Channels /\ d + 1 \in Channels
        BY Places
      <3>2. CASE d = c
        <4>1. t[d + 1] = s[c + 1] + 1 /\ t[d] = s[c]
          BY <2>3, <2>4, <3>1, <3>2
        <4>2. t[d + 1] - t[d] <= handler[c].attempt
          BY <1>4, <2>2, <2>3, <4>1
        <4> QED BY <1>4, <3>2, <4>2
      <3>3. CASE d # c
        <4>1. handler'[d] = handler[d] /\ MessageOf(d) = m
          BY <1>3, <2>9, <3>3 DEF MessageOf
        <4>2. t[d + 1] - t[d] = s[d + 1] - s[d]
          BY <2>3, <2>4, <3>1, <3>3
        <4> QED BY <2>9, <4>1, <4>2 DEF Tallies
      <3> QED BY <3>2, <3>3
    <2>10. Tallies(m, t)'
      <3>1. In(main, Original(m))' <=> In(main', Original(m))
        BY DEF In, Original
      <3> QED BY <1>1, <2>6, <2>7, <2>8, <2>9, <3>1 DEF Tallies, MessageOf
    <2> QED BY <2>5, <2>10
  <1> QED BY <1>6, <1>7

(* The next channel starts from the total of this one. *)
LEMMA TallyLose ==
  ASSUME Inv, OnlyPublished, NEW m \in Message, NEW s, Bounded(s), Tallies(m, s),
         LoseConnection \/ Crash
  PROVE  Tallies(m, s)'
  <1>1. /\ channel \in Channel /\ channel' = channel + 1 /\ channel' \in Channel
        /\ UNCHANGED failures
        /\ UNCHANGED handler \/ handler' = [c \in Channel |-> NULL]
    BY ConsumerAssumption DEF LoseConnection, Crash, LoseChannel, history, Inv, TypeOK, Channel
  <1>2. /\ channel \in Nat /\ channel + 1 \in Channels /\ channel + 2 \in Channels
        /\ channel' + 1 = channel + 2 /\ \A b \in Channels : b \in Nat
    <2>1. channel \in Nat /\ (channel + 1) + 1 = channel + 2
      BY <1>1, Places
    <2> QED BY <1>1, <2>1, Places
  <1>3. s[channel + 2] = s[channel + 1]
    <2>1. channel + 2 > channel
      BY <1>2
    <2> QED BY <1>2, <2>1 DEF Tallies
  <1>4. failures'[m] = s[channel' + 1] /\ s[channel' + 1] = s[channel']
    BY <1>1, <1>2, <1>3 DEF Tallies
  <1>5. \A b \in Channels : b > channel' => s[b] = s[channel' + 1]
    <2>1. \A b \in Channels : b > channel' => b > channel
      BY <1>1, <1>2
    <2> QED BY <1>2, <1>3, <2>1 DEF Tallies
  <1>6. \A c \in Channel : handler'[c] # NULL /\ handler'[c].packet.message = m =>
          /\ handler'[c].at = "handle" => s[c + 1] - s[c] < handler'[c].attempt
          /\ handler'[c].at = "failed" => s[c + 1] - s[c] <= handler'[c].attempt
    BY <1>1 DEF Tallies, MessageOf
  <1> QED BY <1>4, <1>5, <1>6 DEF Tallies, MessageOf

LEMMA TallyDlq ==
  ASSUME Inv, NEW m \in Message, NEW s, Tallies(m, s), ConsumeDlq \/ LoseDlqAck
  PROVE  Tallies(m, s)'
  <1>1. /\ main \in Seq(Packet) /\ dlq \in Seq(Packet) /\ dlq # <<>>
        /\ UNCHANGED <<arrival, handler, channel, failures>>
    BY DEF ConsumeDlq, LoseDlqAck, history, Inv, TypeOK
  <1>2. PICK bare \in Packet : bare = [Head(dlq) EXCEPT !.enveloped = FALSE]
    BY <1>1, TailPackets DEF Packet
  <1>3. (main' = main \/ main' = Append(main, bare)) /\ Original(m) # bare
    <2>1. ~bare.enveloped
      BY <1>1, <1>2, TailPackets DEF Packet
    <2> QED BY <1>2, <2>1, Envelopes DEF ConsumeDlq, LoseDlqAck
  <1>4. In(main', Original(m)) => In(main, Original(m))
    <2>1. CASE main' = main
      BY <2>1
    <2>2. CASE main' = Append(main, bare)
      <3>1. \A i \in DOMAIN main' : main'[i] = bare \/ \E j \in DOMAIN main : main'[i] = main[j]
        BY <1>1, <2>2, AppendPackets
      <3> QED BY <1>3, <3>1 DEF In
    <2> QED BY <1>3, <2>1, <2>2
  <1>5. Published(m)' <=> Published(m)
    BY <1>1 DEF Published
  <1> QED BY <1>1, <1>4, <1>5, TallyKept

(* The rest of a handler's run: a retry raises its attempt. *)
LEMMA TallyRun ==
  ASSUME Inv, OnlyPublished, NEW m \in Message, NEW s, Bounded(s), Tallies(m, s),
         NEW c \in Channel, Run(c), ~Throw(c)
  PROVE  Tallies(m, s)'
  <1>1. /\ channel \in Channel /\ handler \in [Channel -> Handler \cup {NULL}]
        /\ handler[c] # NULL /\ handler[c] \in Handler
        /\ UNCHANGED <<arrival, main, channel, failures>>
    BY ConsumerAssumption
    DEF Run, HandleEnds, Answer, Succeed, Refuse, Ack, Nack, Retry, At, history, Inv, TypeOK,
        Channel
  <1>2. \A d \in Channel : d # c => handler'[d] = handler[d]
    BY <1>1
    DEF Run, HandleEnds, Answer, Succeed, Refuse, Ack, Nack, Retry, Reach, EndHandler
  <1>3. \/ handler'[c] = NULL
        \/ handler'[c].at \in {"handled", "invalid"}
        \/ /\ handler[c].at = "failed"
           /\ handler'[c] = [handler[c] EXCEPT !.at = "handle", !.attempt = @ + 1]
    BY <1>1
    DEF Run, HandleEnds, Answer, Succeed, Refuse, Ack, Nack, Retry, Reach, EndHandler, At, Handler
  <1>4. ASSUME handler'[c] # NULL, handler'[c].packet.message = m
        PROVE  /\ handler'[c].at = "handle" => s[c + 1] - s[c] < handler'[c].attempt
               /\ handler'[c].at = "failed" => s[c + 1] - s[c] <= handler'[c].attempt
    <2>1. CASE handler'[c].at \in {"handled", "invalid"}
      BY <2>1
    <2>2. CASE /\ handler[c].at = "failed"
               /\ handler'[c] = [handler[c] EXCEPT !.at = "handle", !.attempt = @ + 1]
      <3>1. /\ handler'[c].packet = handler[c].packet /\ handler'[c].at = "handle"
            /\ handler'[c].attempt = handler[c].attempt + 1 /\ handler[c].attempt \in Nat
        BY <1>1, <2>2 DEF Handler
      <3>2. s[c + 1] - s[c] <= handler[c].attempt
        BY <1>1, <1>4, <2>2, <3>1 DEF Tallies, MessageOf
      <3>3. s[c + 1] \in Nat /\ s[c] \in Nat
        BY Places DEF Bounded
      <3> QED BY <3>1, <3>2, <3>3
    <2> QED BY <1>3, <1>4, <2>1, <2>2
  <1>5. Published(m)' <=> Published(m)
    BY <1>1 DEF Published
  <1> QED BY <1>1, <1>2, <1>4, <1>5, TallyKept

LEMMA AccountedStep ==
  ASSUME Inv, OnlyPublished, OneCopy, Accounted, [Next]_vars
  PROVE  Accounted'
  <1> SUFFICES ASSUME NEW m \in Message PROVE \E t : Bounded(t) /\ Tallies(m, t)'
    BY DEF Accounted, Bounded
  <1>1. PICK s : Bounded(s) /\ Tallies(m, s)
    BY DEF Accounted
  <1>2. ASSUME NEW n \in Message, Publish(n) PROVE Tallies(m, s)'
    BY <1>1, <1>2, TallyPublish
  <1>3. Deliver => Tallies(m, s)'
    BY <1>1, TallyDeliver
  <1>4. ASSUME NEW c \in Channel, Run(c) PROVE \E t : Bounded(t) /\ Tallies(m, t)'
    <2>1. CASE Throw(c)
      BY <1>1, <2>1, TallyThrow
    <2>2. CASE ~Throw(c)
      <3>1. Tallies(m, s)'
        BY <1>1, <1>4, <2>2, TallyRun
      <3> QED BY <1>1, <3>1
    <2> QED BY <2>1, <2>2
  <1>5. LoseConnection \/ Crash => Tallies(m, s)'
    BY <1>1, TallyLose
  <1>6. ConsumeDlq \/ LoseDlqAck => Tallies(m, s)'
    BY <1>1, TallyDlq
  <1>7. ASSUME UNCHANGED vars PROVE Tallies(m, s)'
    BY <1>1, <1>7 DEF vars, history, Tallies, In, Original, Published, MessageOf
  <1> QED BY <1>1, <1>2, <1>3, <1>4, <1>5, <1>6, <1>7 DEF Next, Idle

LEMMA AccountedInit == Init => Accounted
  <1> SUFFICES ASSUME Init, NEW m \in Message PROVE \E s : Bounded(s) /\ Tallies(m, s)
    BY DEF Accounted
  <1>1. PICK s : s = [b \in Channels |-> 0]
    OBVIOUS
  <1>2. 0 \in Channels /\ 1 \in Channels /\ channel = 0 /\ channel + 1 = 1
    BY ConsumerAssumption DEF Init, Channels
  <1>3. Bounded(s)
    <2>1. ASSUME NEW a \in Channels, NEW b \in Channels, a <= b
          PROVE  0 <= (b - a) * MaxRetries
      BY <2>1, ConsumerAssumption, Places
    <2> QED BY <1>1, <1>2, <2>1 DEF Bounded
  <1>4. Tallies(m, s)
    BY <1>1, <1>2 DEF Init, Tallies
  <1> QED BY <1>3, <1>4

LEMMA AccountedBounds == Inv /\ Accounted => RetriesAreBounded
  <1> SUFFICES ASSUME Inv, Accounted, NEW m \in Message
               PROVE  failures[m] <= MaxRetries * (1 + losses)
    BY DEF RetriesAreBounded
  <1>1. PICK s : Bounded(s) /\ Tallies(m, s)
    BY DEF Accounted
  <1>2. /\ channel \in Nat /\ losses \in Nat /\ channel <= losses /\ MaxRetries \in Nat
        /\ 0 \in Channels /\ channel + 1 \in Channels
    BY ConsumerAssumption DEF Inv, TypeOK, Channels
  <1>3. failures[m] <= (channel + 1) * MaxRetries
    <2>1. failures[m] = s[channel + 1] /\ s[0] = 0 /\ s[channel + 1] \in Nat
      BY <1>1, <1>2 DEF Bounded, Tallies
    <2>2. s[channel + 1] - s[0] <= ((channel + 1) - 0) * MaxRetries
      <3>1. 0 <= channel + 1
        BY <1>2
      <3> QED BY <1>1, <1>2, <3>1 DEF Bounded
    <2> QED BY <1>2, <2>1, <2>2
  <1>4. failures[m] \in Nat
    BY DEF Inv, TypeOK
  <1>5. (channel + 1) * MaxRetries <= (1 + losses) * MaxRetries
    <2>1. PICK k \in Nat : losses = channel + k
      <3>1. losses - channel \in Nat /\ losses = channel + (losses - channel)
        BY <1>2
      <3> QED BY <3>1
    <2>2. (1 + losses) * MaxRetries = (channel + 1) * MaxRetries + k * MaxRetries
      BY <1>2, <2>1
    <2>3. k * MaxRetries \in Nat /\ (channel + 1) * MaxRetries \in Nat
      BY <1>2
    <2> QED BY <2>2, <2>3
  <1> QED BY <1>2, <1>3, <1>4, <1>5

(* A message fails at most MaxRetries times for its delivery and for each  *)
(* connection lost, though the handlers of lost channels retry on beside   *)
(* the one on the live channel.                                            *)
THEOREM RetriesBounded == Spec => []RetriesAreBounded
  <1>1. Inv /\ OnlyPublished /\ OneCopy /\ Accounted /\ [Next]_vars => Accounted'
    BY AccountedStep
  <1> QED BY <1>1, AccountedInit, AccountedBounds, OrderHolds, CopiesHold, PTL DEF Spec
=============================================================================
