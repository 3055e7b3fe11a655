----------------------------- MODULE TopologyProofs -----------------------------
(***************************************************************************)
(* Proofs about Topology, for every set of processes and messages and any  *)
(* number of replaced brokers.                                             *)
(***************************************************************************)
EXTENDS Topology, SequenceTheorems, TLAPS

Key == {"receiveWorkOrder", "sendStatusUpdate", "sagaCompensateProduction"}

MainBinding(key) ==
  [exchange |-> Config[key].exchange, queue |-> Config[key].queue,
   routingKey |-> Config[key].routingKey]

DeadBinding(key) ==
  [exchange |-> Config[key].deadLetterExchange, queue |-> DeadLetterQueue(Config[key].queue),
   routingKey |-> Config[key].deadLetterRoutingKey]

LEMMA Keys ==
  /\ ConfigKey = Key /\ Consumed = {"receiveWorkOrder", "sagaCompensateProduction"}
  /\ Strategy \subseteq Consumed /\ Consumed \subseteq ConfigKey
  BY DEF ConfigKey, Config, Key, Consumed, Strategy

(* No two configurations share a queue or an exchange. *)
LEMMA NamesDiffer ==
  ASSUME NEW a \in ConfigKey, NEW b \in ConfigKey
  PROVE  /\ Config[a].queue = Config[b].queue => a = b
         /\ Config[a].exchange = Config[b].exchange => a = b
         /\ Config[a].deadLetterExchange = Config[b].deadLetterExchange => a = b
         /\ Config[a].exchange # Config[b].deadLetterExchange
  BY DEF ConfigKey, Config

LEMMA OneConfig ==
  ASSUME NEW key \in ConfigKey
  PROVE  /\ ConfigOf(Config[key].queue) = key
         /\ MainOf(DeadLetterQueue(Config[key].queue)) = key
  BY NamesDiffer, QueueNamesAssumption DEF ConfigOf, MainOf

LEMMA Registered ==
  ASSUME NEW key \in Consumed, NEW routingKey
  PROVE  GetStrategy(Config[key].queue, routingKey) = key
  <1>1. key \in Strategy /\ Consumed = Strategy
    BY Keys DEF Strategy
  <1>2. \A other \in Strategy : Config[key].queue \in Names(other) => other = key
    BY <1>1 DEF Names, Config, Strategy
  <1>3. Config[key].queue \in Names(key)
    BY DEF Names
  <1>4. Position(key) \in Nat
    BY <1>1 DEF Position, Listed, Strategy
  <1>5. Config[key].queue \in DOMAIN Registry
    BY <1>1, <1>3 DEF Registry
  <1>6. Registry[Config[key].queue] = key
    BY <1>1, <1>2, <1>3, <1>4, <1>5 DEF Registry
  <1> QED BY <1>5, <1>6 DEF GetStrategy

-----------------------------------------------------------------------------
(* The declarations, configuration by configuration. *)
(* d is a declaration of an exchange, a queue or a binding. *)
Makes(d, op, what) ==
  /\ d.op = op
  /\ op = "bind" => d.binding = what
  /\ op # "bind" => d.name = what

LEMMA Six ==
  ASSUME NEW key
  PROVE  /\ Len(CreateExchangeAndQueue(key)) = 6
         /\ Makes(CreateExchangeAndQueue(key)[1], "exchange", Config[key].deadLetterExchange)
         /\ Makes(CreateExchangeAndQueue(key)[2], "queue", DeadLetterQueue(Config[key].queue))
         /\ Makes(CreateExchangeAndQueue(key)[3], "bind", DeadBinding(key))
         /\ Makes(CreateExchangeAndQueue(key)[4], "exchange", Config[key].exchange)
         /\ Makes(CreateExchangeAndQueue(key)[5], "queue", Config[key].queue)
         /\ Makes(CreateExchangeAndQueue(key)[6], "bind", MainBinding(key))
  BY DEF CreateExchangeAndQueue, Bind, DeadBinding, MainBinding, Makes

LEMMA SixAreASequence ==
  ASSUME NEW X, NEW a \in X, NEW b \in X, NEW c \in X, NEW d \in X, NEW e \in X, NEW f \in X
  PROVE  <<a, b, c, d, e, f>> \in Seq(X)
  OBVIOUS

ThreeParts(all, s, t, u) ==
  /\ Len(all) = 18
  /\ \A j \in 1 .. 6 : all[j] = s[j] /\ all[j + 6] = t[j] /\ all[j + 12] = u[j]

LEMMA ThreeSixes ==
  ASSUME NEW X, NEW s \in Seq(X), NEW t \in Seq(X), NEW u \in Seq(X),
         Len(s) = 6, Len(t) = 6, Len(u) = 6
  PROVE  ThreeParts((s \o t) \o u, s, t, u)
  <1>1. s \o t \in Seq(X)
    BY ConcatProperties
  <1>2. PICK st \in Seq(X) : st = s \o t
    BY <1>1
  <1>3. /\ Len(st) = Len(s) + Len(t)
        /\ \A i \in 1 .. Len(s) + Len(t) :
             st[i] = IF i <= Len(s) THEN s[i] ELSE t[i - Len(s)]
    BY <1>2, ConcatProperties, Zenon
  <1>4. PICK all : all = st \o u
    OBVIOUS
  <1>5. /\ Len(all) = Len(st) + Len(u)
        /\ \A i \in 1 .. Len(st) + Len(u) :
             all[i] = IF i <= Len(st) THEN st[i] ELSE u[i - Len(st)]
    <2>1. st \in Seq(X)
      OBVIOUS
    <2>2. /\ Len(st \o u) = Len(st) + Len(u)
          /\ \A i \in 1 .. Len(st) + Len(u) :
             (st \o u)[i] = IF i <= Len(st) THEN st[i] ELSE u[i - Len(st)]
      BY <2>1, ConcatProperties
    <2> QED BY <1>4, <2>2, Zenon
  <1>6. Len(st) = 12 /\ Len(all) = 18
    BY <1>3, <1>5
  <1>7. ASSUME NEW j \in 1 .. 6
        PROVE  all[j] = s[j] /\ all[j + 6] = t[j] /\ all[j + 12] = u[j]
    <2>1. st[j] = s[j] /\ st[j + 6] = t[j]
      <3>1. \A i \in 1 .. 12 : st[i] = IF i <= 6 THEN s[i] ELSE t[i - 6]
        BY <1>3
      <3>2. j \in 1 .. 12 /\ j + 6 \in 1 .. 12 /\ j <= 6 /\ ~(j + 6 <= 6) /\ (j + 6) - 6 = j
        OBVIOUS
      <3>3. st[j + 6] = t[(j + 6) - 6]
        BY <3>1, <3>2
      <3> QED BY <3>1, <3>2, <3>3
    <2>2. all[j] = st[j] /\ all[j + 6] = st[j + 6] /\ all[j + 12] = u[j]
      <3>1. \A i \in 1 .. 18 : all[i] = IF i <= 12 THEN st[i] ELSE u[i - 12]
        BY <1>5, <1>6
      <3>2. /\ j \in 1 .. 18 /\ j + 6 \in 1 .. 18 /\ j + 12 \in 1 .. 18
            /\ j <= 12 /\ j + 6 <= 12 /\ ~(j + 12 <= 12) /\ (j + 12) - 12 = j
        OBVIOUS
      <3>3. all[j] = st[j] /\ all[j + 6] = st[j + 6]
        BY <3>1, <3>2
      <3>4. all[j + 12] = u[(j + 12) - 12]
        BY <3>1, <3>2
      <3> QED BY <3>2, <3>3, <3>4
    <2> QED BY <2>1, <2>2
  <1>8. ThreeParts(all, s, t, u)
    BY <1>6, <1>7 DEF ThreeParts
  <1> QED BY <1>2, <1>4, <1>8, Zenon

LEMMA Eighteen ==
  /\ Len(Declarations) = 18
  /\ \A j \in 1 .. 6 :
       /\ Declarations[j] = CreateExchangeAndQueue("receiveWorkOrder")[j]
       /\ Declarations[j + 6] = CreateExchangeAndQueue("sendStatusUpdate")[j]
       /\ Declarations[j + 12] = CreateExchangeAndQueue("sagaCompensateProduction")[j]
  <1> DEFINE X == {CreateExchangeAndQueue(key)[j] : key \in Key, j \in 1 .. 6}
  <1>1. ASSUME NEW key \in Key PROVE CreateExchangeAndQueue(key) \in Seq(X)
    <2> DEFINE c == CreateExchangeAndQueue(key)
    <2>1. c = <<c[1], c[2], c[3], c[4], c[5], c[6]>>
      BY DEF CreateExchangeAndQueue
    <2>2. \A j \in 1 .. 6 : c[j] \in X
      OBVIOUS
    <2>3. c[1] \in X /\ c[2] \in X /\ c[3] \in X /\ c[4] \in X /\ c[5] \in X /\ c[6] \in X
      BY <2>2
    <2> HIDE DEF c, X
    <2>4. <<c[1], c[2], c[3], c[4], c[5], c[6]>> \in Seq(X)
      BY <2>3, SixAreASequence
    <2> QED BY <2>1, <2>4 DEF c
  <1> HIDE DEF X
  <1>2. ASSUME NEW s \in Seq(X), NEW t \in Seq(X), NEW u \in Seq(X),
               s = CreateExchangeAndQueue("receiveWorkOrder"),
               t = CreateExchangeAndQueue("sendStatusUpdate"),
               u = CreateExchangeAndQueue("sagaCompensateProduction")
        PROVE  ThreeParts(Declarations, s, t, u)
    <2>1. Len(s) = 6 /\ Len(t) = 6 /\ Len(u) = 6
      BY <1>2, Six
    <2>2. Declarations = (s \o t) \o u
      BY <1>2 DEF Declarations, Listed
    <2>3. ThreeParts((s \o t) \o u, s, t, u)
      BY <2>1, ThreeSixes, Zenon
    <2> QED BY <2>2, <2>3, Zenon
  <1> QED BY <1>1, <1>2 DEF Key, ThreeParts

(* Where the six declarations of a configuration start. *)
Base == [receiveWorkOrder |-> 0, sendStatusUpdate |-> 6, sagaCompensateProduction |-> 12]

LEMMA Placed ==
  ASSUME NEW key \in ConfigKey, NEW j \in 1 .. 6
  PROVE  /\ Base[key] \in Nat /\ Base[key] <= 12 /\ Base[key] + j \in 1 .. 18
         /\ Declarations[Base[key] + j] = CreateExchangeAndQueue(key)[j]
  <1>1. /\ Declarations[0 + j] = CreateExchangeAndQueue("receiveWorkOrder")[j]
        /\ Declarations[6 + j] = CreateExchangeAndQueue("sendStatusUpdate")[j]
        /\ Declarations[12 + j] = CreateExchangeAndQueue("sagaCompensateProduction")[j]
    BY Eighteen
  <1>2. Base[key] \in Nat /\ Base[key] <= 12 /\ Base[key] + j \in 1 .. 18
    BY Keys DEF Key, Base
  <1>3. Declarations[Base[key] + j] = CreateExchangeAndQueue(key)[j]
    <2>1. CASE key = "receiveWorkOrder" BY <2>1, <1>1 DEF Base
    <2>2. CASE key = "sendStatusUpdate" BY <2>2, <1>1 DEF Base
    <2>3. CASE key = "sagaCompensateProduction" BY <2>3, <1>1 DEF Base
    <2> QED BY <2>1, <2>2, <2>3, Keys DEF Key
  <1> QED BY <1>2, <1>3

LEMMA EachIsPlaced ==
  ASSUME NEW i \in 1 .. 18
  PROVE  \E key \in ConfigKey : \E j \in 1 .. 6 : i = Base[key] + j
  <1>1. CASE i <= 6
    <2>1. i \in 1 .. 6 /\ i = Base["receiveWorkOrder"] + i
      BY <1>1 DEF Base
    <2> QED BY <2>1, Keys DEF Key
  <1>2. CASE 6 < i /\ i <= 12
    <2>1. i - 6 \in 1 .. 6 /\ i = Base["sendStatusUpdate"] + (i - 6)
      BY <1>2 DEF Base
    <2> QED BY <2>1, Keys DEF Key
  <1>3. CASE 12 < i
    <2>1. i - 12 \in 1 .. 6 /\ i = Base["sagaCompensateProduction"] + (i - 12)
      BY <1>3 DEF Base
    <2> QED BY <2>1, Keys DEF Key
  <1> QED BY <1>1, <1>2, <1>3

(* What the i-th declaration may be; a main queue comes after the binding  *)
(* of its dead-letter queue.                                               *)
Kind(i, key) ==
  \/ \E name \in {Config[key].exchange, Config[key].deadLetterExchange} :
       Makes(Declarations[i], "exchange", name)
  \/ Makes(Declarations[i], "queue", DeadLetterQueue(Config[key].queue))
  \/ /\ Makes(Declarations[i], "queue", Config[key].queue)
     /\ \E k \in 1 .. 18 : k < i /\ Makes(Declarations[k], "bind", DeadBinding(key))
  \/ \E b \in {MainBinding(key), DeadBinding(key)} : Makes(Declarations[i], "bind", b)

LEMMA Kinds ==
  ASSUME NEW i \in 1 .. 18
  PROVE  \E key \in ConfigKey : Kind(i, key)
  <1>1. PICK key \in ConfigKey, j \in 1 .. 6 : i = Base[key] + j
    BY EachIsPlaced
  <1>2. Declarations[i] = CreateExchangeAndQueue(key)[j]
    BY <1>1, Placed
  <1> SUFFICES Kind(i, key)
    OBVIOUS
  <1>3. CASE j = 1 \/ j = 4
    BY <1>2, <1>3, Six DEF Kind
  <1>4. CASE j = 2
    BY <1>2, <1>4, Six DEF Kind
  <1>5. CASE j = 3 \/ j = 6
    BY <1>2, <1>5, Six DEF Kind
  <1>6. CASE j = 5
    <2>1. Makes(Declarations[i], "queue", Config[key].queue)
      BY <1>2, <1>6, Six
    <2>2. /\ Base[key] \in Nat /\ Base[key] + 3 \in 1 .. 18
          /\ Declarations[Base[key] + 3] = CreateExchangeAndQueue(key)[3]
      BY Placed
    <2>3. Makes(Declarations[Base[key] + 3], "bind", DeadBinding(key))
      BY <2>2, Six
    <2>4. Base[key] + 3 < i
      BY <1>1, <1>6, <2>2
    <2> QED BY <2>1, <2>2, <2>3, <2>4 DEF Kind
  <1> QED BY <1>3, <1>4, <1>5, <1>6

LEMMA MainBound ==
  ASSUME NEW key \in ConfigKey
  PROVE  \E k \in 1 .. 18 : Makes(Declarations[k], "bind", MainBinding(key))
  <1>1. /\ Base[key] + 6 \in 1 .. 18
        /\ Declarations[Base[key] + 6] = CreateExchangeAndQueue(key)[6]
    BY Placed
  <1> QED BY <1>1, Six

(* The names and bindings of a configuration are of their types. *)
LEMMA Named ==
  ASSUME NEW key \in ConfigKey
  PROVE  /\ {Config[key].exchange, Config[key].deadLetterExchange} \subseteq Exchange
         /\ {Config[key].queue, DeadLetterQueue(Config[key].queue)} \subseteq Queue
         /\ {MainBinding(key), DeadBinding(key)} \subseteq Binding
  <1>1. {Config[key].exchange, Config[key].deadLetterExchange} \subseteq Exchange
    BY DEF Exchange
  <1>2. {Config[key].queue, DeadLetterQueue(Config[key].queue)} \subseteq Queue
    BY DEF Queue
  <1>3. {MainBinding(key), DeadBinding(key)} \subseteq Binding
    BY <1>1, <1>2 DEF Binding, MainBinding, DeadBinding
  <1> QED BY <1>1, <1>2, <1>3

-----------------------------------------------------------------------------
(* The inductive invariant.  Of what the broker has:                       *)

Made(i) ==
  /\ Declarations[i].op = "exchange" => Declarations[i].name \in exchanges
  /\ Declarations[i].op = "queue" => Declarations[i].name \in queues
  /\ Declarations[i].op = "bind" => Declarations[i].binding \in bindings

(* nothing but the bindings of the table is made; *)
Wired == \A b \in bindings : \E key \in ConfigKey : b \in {MainBinding(key), DeadBinding(key)}

(* a process in its setup has made every declaration before the next one, *)
(* and a process that completed its setup all of them;                    *)
Progress ==
  \A p \in Process :
    IF phase[p] = "setup" THEN \A i \in 1 .. 18 : i < step[p] => Made(i) ELSE step[p] = 1

Complete == completed => \A i \in 1 .. 18 : Made(i)

(* a main queue is there only with its dead letters provided for, which is *)
(* what makes a consumer safe, for a consumer's queue is there.            *)
Backed == \A key \in ConfigKey : Config[key].queue \in queues => DeadBinding(key) \in bindings

Served == \A c \in consumers : c[2] \in queues

Wiring == Wired /\ Progress /\ Complete /\ Backed /\ Served

Delivery == DeadLettersAreKept /\ RightStrategy /\ KeepsToItsQueues

IInv == TypeOK /\ Wiring /\ Delivery

LEMMA MadeIsMade ==
  ASSUME NEW i, NEW what, Made(i)
  PROVE  /\ Makes(Declarations[i], "queue", what) => what \in queues
         /\ Makes(Declarations[i], "bind", what) => what \in bindings
  BY DEF Made, Makes

LEMMA InitIsInvariant == Init => IInv
  <1> SUFFICES ASSUME Init PROVE IInv
    OBVIOUS
  <1>1. TypeOK
    <2>1. step \in [Process -> 1 .. Len(Declarations)] /\ phase \in [Process -> Phase]
      BY Eighteen DEF Init, Phase
    <2>2. wipes \in 0 .. MaxWipes
      BY TopologyAssumption DEF Init
    <2> QED BY <2>1, <2>2 DEF Init, TypeOK
  <1>2. Wiring
    BY DEF Init, Wiring, Wired, Progress, Complete, Backed, Served
  <1>3. Delivery
    BY DEF Init, Delivery, DeadLettersAreKept, RightStrategy, KeepsToItsQueues
  <1> QED BY <1>1, <1>2, <1>3 DEF IInv

LEMMA DeliveryStays ==
  ASSUME Delivery, UNCHANGED messages
  PROVE  Delivery'
  BY DEF Delivery, DeadLettersAreKept, RightStrategy, KeepsToItsQueues, messages

LEMMA WiringStays ==
  ASSUME Wiring, UNCHANGED <<broker, processes>>
  PROVE  Wiring'
  BY DEF Wiring, Wired, Progress, Complete, Backed, Served, Made, broker, processes

(* The steps of the processes. *)
LEMMA BootStep ==
  ASSUME IInv, NEW p \in Process, Boot(p)
  PROVE  IInv'
  <1>1. TypeOK'
    BY DEF IInv, TypeOK, Boot, Enter, Phase, broker, messages
  <1>2. Wiring'
    <2>1. step[p] = 1 /\ phase[p] = "down"
      BY DEF IInv, Wiring, Progress, Boot, Enter
    <2>2. Progress'
      BY <2>1 DEF IInv, TypeOK, Wiring, Progress, Boot, Enter, Made, broker
    <2>3. Wired' /\ Complete' /\ Backed' /\ Served'
      BY DEF IInv, Wiring, Wired, Complete, Backed, Served, Made, Boot, broker
    <2> QED BY <2>2, <2>3 DEF Wiring
  <1>3. Delivery'
    BY DeliveryStays DEF IInv, Boot
  <1> QED BY <1>1, <1>2, <1>3 DEF IInv

LEMMA SetupFailsStep ==
  ASSUME IInv, NEW p \in Process, SetupFails(p)
  PROVE  IInv'
  <1>1. TypeOK'
    BY Eighteen DEF IInv, TypeOK, SetupFails, Enter, Phase, broker, messages
  <1>2. Wiring'
    <2>1. Progress'
      BY DEF IInv, TypeOK, Wiring, Progress, SetupFails, Enter, Made, broker
    <2>2. Wired' /\ Complete' /\ Backed' /\ Served'
      BY DEF IInv, Wiring, Wired, Complete, Backed, Served, Made, SetupFails, broker
    <2> QED BY <2>1, <2>2 DEF Wiring
  <1>3. Delivery'
    BY DeliveryStays DEF IInv, SetupFails
  <1> QED BY <1>1, <1>2, <1>3 DEF IInv

LEMMA StopStep ==
  ASSUME IInv, NEW p \in Process, Stop(p)
  PROVE  IInv'
  <1>1. TypeOK'
    BY Eighteen DEF IInv, TypeOK, Stop, Phase, broker, messages
  <1>2. Wiring'
    <2>1. Progress'
      BY DEF IInv, TypeOK, Wiring, Progress, Stop, Made, broker
    <2>2. Wired' /\ Complete' /\ Backed' /\ Served'
      BY DEF IInv, Wiring, Wired, Complete, Backed, Served, Made, Stop, broker
    <2> QED BY <2>1, <2>2 DEF Wiring
  <1>3. Delivery'
    BY DeliveryStays DEF IInv, Stop
  <1> QED BY <1>1, <1>2, <1>3 DEF IInv

LEMMA ConsumeStep ==
  ASSUME IInv, NEW p \in Process, NEW queue \in Queue, Consume(p, queue)
  PROVE  IInv'
  <1>1. TypeOK'
    BY DEF IInv, TypeOK, Consume, broker, messages
  <1>2. Wiring'
    <2>1. Progress'
      BY DEF IInv, Wiring, Progress, Consume, Made, broker
    <2>2. Served'
      BY DEF IInv, Wiring, Served, Consume, broker
    <2>3. Wired' /\ Complete' /\ Backed'
      BY DEF IInv, Wiring, Wired, Complete, Backed, Made, Consume, broker
    <2> QED BY <2>1, <2>2, <2>3 DEF Wiring
  <1>3. Delivery'
    BY DeliveryStays DEF IInv, Consume
  <1> QED BY <1>1, <1>2, <1>3 DEF IInv

LEMMA ReplaceBrokerStep ==
  ASSUME IInv, ReplaceBroker
  PROVE  IInv'
  <1>1. TypeOK'
    <2>1. wipes' \in 0 .. MaxWipes
      BY TopologyAssumption DEF IInv, TypeOK, ReplaceBroker
    <2>2. step' \in [Process -> 1 .. Len(Declarations)]
      BY Eighteen DEF ReplaceBroker
    <2>3. phase' \in [Process -> Phase]
      BY DEF IInv, TypeOK, ReplaceBroker, Phase
    <2> QED BY <2>1, <2>2, <2>3 DEF IInv, TypeOK, ReplaceBroker
  <1>2. Wiring'
    <2>1. Progress'
      BY DEF IInv, TypeOK, Wiring, Progress, ReplaceBroker
    <2>2. Wired' /\ Complete' /\ Backed' /\ Served'
      BY DEF Wired, Complete, Backed, Served, ReplaceBroker
    <2> QED BY <2>1, <2>2 DEF Wiring
  <1>3. Delivery'
    BY DEF IInv, Delivery, DeadLettersAreKept, RightStrategy, KeepsToItsQueues, ReplaceBroker
  <1> QED BY <1>1, <1>2, <1>3 DEF IInv

(* One declaration: what was made stays, and the i-th is added. *)
LEMMA DeclareStep ==
  ASSUME IInv, NEW p \in Process, Declare(p)
  PROVE  IInv'
  <1>1. PICK n \in 1 .. 18 : n = step[p]
    BY Eighteen DEF IInv, TypeOK
  <1>2. PICK own \in ConfigKey : Kind(n, own)
    BY Kinds
  <1>3. /\ exchanges \subseteq exchanges' /\ queues \subseteq queues' /\ bindings \subseteq bindings'
        /\ Made(n)'
    <2>1. exchanges \subseteq exchanges' /\ queues \subseteq queues' /\ bindings \subseteq bindings'
      BY DEF Declare
    <2>2. Made(n)'
      BY <1>1 DEF Declare, Made
    <2> QED BY <2>1, <2>2
  <1>4. \A i : Made(i) => Made(i)'
    BY <1>3 DEF Made
  <1>5. \A i \in 1 .. 18 : i < n => Made(i)
    BY <1>1 DEF IInv, Wiring, Progress, Declare
  <1>6. \A q \in queues' : q \in queues \/ Makes(Declarations[n], "queue", q)
    BY <1>1 DEF Declare, Makes
  <1>7. \A b \in bindings' : b \in bindings \/ Makes(Declarations[n], "bind", b)
    BY <1>1 DEF Declare, Makes
  <1>8. Wired'
    <2>1. ASSUME NEW b, Makes(Declarations[n], "bind", b)
          PROVE  b \in {MainBinding(own), DeadBinding(own)}
      BY <1>2, <2>1 DEF Kind, Makes
    <2> QED BY <1>7, <2>1 DEF IInv, Wiring, Wired
  <1>9. \A i \in 1 .. 18 : i < n + 1 => Made(i)'
    BY <1>3, <1>4, <1>5
  <1>10. Progress'
    <2>1. ASSUME NEW q \in Process
          PROVE  IF phase'[q] = "setup" THEN \A i \in 1 .. 18 : i < step'[q] => Made(i)'
                 ELSE step'[q] = 1
      <3>1. CASE q = p
        BY <1>1, <1>9, <3>1 DEF IInv, TypeOK, Declare
      <3>2. CASE q # p
        BY <1>4, <3>2 DEF IInv, TypeOK, Wiring, Progress, Declare
      <3> QED BY <3>1, <3>2
    <2> QED BY <2>1 DEF Progress
  <1>11. Complete'
    <2>1. CASE completed
      BY <1>4, <2>1 DEF IInv, Wiring, Complete
    <2>2. CASE LastCall(p)
      <3>1. n = 18
        BY <1>1, <2>2, Eighteen DEF LastCall
      <3>2. \A i \in 1 .. 18 : Made(i)'
        BY <1>9, <3>1
      <3> QED BY <3>2 DEF Complete
    <2>3. CASE ~completed /\ ~LastCall(p)
      BY <2>3 DEF Complete, Declare
    <2> QED BY <2>1, <2>2, <2>3
  <1>12. Backed'
    <2>1. ASSUME NEW key \in ConfigKey, Makes(Declarations[n], "queue", Config[key].queue)
          PROVE  DeadBinding(key) \in bindings
      <3>1. \A other \in ConfigKey : Config[key].queue = Config[other].queue => other = key
        BY NamesDiffer
      <3>2. Config[key].queue # DeadLetterQueue(Config[own].queue)
        BY QueueNamesAssumption
      <3>3. \E k \in 1 .. 18 : k < n /\ Makes(Declarations[k], "bind", DeadBinding(key))
        BY <1>2, <2>1, <3>1, <3>2 DEF Kind, Makes
      <3> QED BY <1>5, <3>3, MadeIsMade
    <2> QED BY <1>3, <1>6, <2>1 DEF IInv, Wiring, Backed
  <1>13. Served'
    BY <1>3 DEF IInv, Wiring, Served, Declare
  <1>14. TypeOK'
    <2>1. /\ Declarations[n].op = "exchange" => Declarations[n].name \in Exchange
          /\ Declarations[n].op = "queue" => Declarations[n].name \in Queue
          /\ Declarations[n].op = "bind" => Declarations[n].binding \in Binding
      BY <1>2, Named DEF Kind, Makes
    <2>2. exchanges' \subseteq Exchange /\ queues' \subseteq Queue /\ bindings' \subseteq Binding
      BY <1>1, <2>1 DEF IInv, TypeOK, Declare
    <2>3. phase' \in [Process -> Phase]
      BY DEF IInv, TypeOK, Declare, Phase
    <2>4. step' \in [Process -> 1 .. Len(Declarations)]
      BY <1>1, Eighteen DEF IInv, TypeOK, Declare, LastCall
    <2>5. completed' \in BOOLEAN
      BY DEF IInv, TypeOK, Declare
    <2> QED BY <2>2, <2>3, <2>4, <2>5 DEF IInv, TypeOK, Declare, messages
  <1>15. Delivery'
    BY DeliveryStays DEF IInv, Declare
  <1> QED BY <1>8, <1>10, <1>11, <1>12, <1>13, <1>14, <1>15 DEF IInv, Wiring

-----------------------------------------------------------------------------
(* What a routing key of the table reaches. *)
LEMMA RoutesOfMain ==
  ASSUME Wired, NEW key \in ConfigKey
  PROVE  LET targets == Route(Config[key].exchange, Config[key].routingKey) IN
         /\ targets \subseteq {Config[key].queue}
         /\ MainBinding(key) \in bindings => targets # {}
  <1>1. ASSUME NEW b \in bindings, b.exchange = Config[key].exchange
        PROVE  b.queue = Config[key].queue
    <2>1. PICK other \in ConfigKey : b \in {MainBinding(other), DeadBinding(other)}
      BY DEF Wired
    <2>2. b = MainBinding(other) /\ other = key
      BY <1>1, <2>1, NamesDiffer DEF MainBinding, DeadBinding
    <2> QED BY <2>2 DEF MainBinding
  <1>2. Route(Config[key].exchange, Config[key].routingKey) \subseteq {Config[key].queue}
    BY <1>1 DEF Route
  <1>3. ASSUME MainBinding(key) \in bindings
        PROVE  Config[key].queue \in Route(Config[key].exchange, Config[key].routingKey)
    BY <1>3 DEF Route, MainBinding
  <1> QED BY <1>2, <1>3

LEMMA RoutesOfDead ==
  ASSUME Wired, NEW key \in ConfigKey
  PROVE  LET targets == Route(Config[key].deadLetterExchange, Config[key].deadLetterRoutingKey) IN
         /\ targets \subseteq {DeadLetterQueue(Config[key].queue)}
         /\ DeadBinding(key) \in bindings => targets # {}
  <1> DEFINE exchange == Config[key].deadLetterExchange
             routingKey == Config[key].deadLetterRoutingKey
             dlq == DeadLetterQueue(Config[key].queue)
  <1>1. ASSUME NEW b \in bindings, b.exchange = exchange
        PROVE  b.queue = dlq
    <2>1. PICK other \in ConfigKey : b \in {MainBinding(other), DeadBinding(other)}
      BY DEF Wired
    <2>2. b = DeadBinding(other) /\ other = key
      BY <1>1, <2>1, NamesDiffer DEF MainBinding, DeadBinding
    <2> QED BY <2>2 DEF DeadBinding
  <1>2. Route(exchange, routingKey) \subseteq {dlq}
    BY <1>1 DEF Route
  <1>3. ASSUME DeadBinding(key) \in bindings
        PROVE  dlq \in Route(exchange, routingKey)
    BY <1>3 DEF Route, DeadBinding
  <1> QED BY <1>2, <1>3

(* The steps of the messages leave what the broker has alone. *)
LEMMA PublishStep ==
  ASSUME IInv, NEW m \in Message, NEW key \in Consumed, NEW recognised \in BOOLEAN,
         Publish(m, key, recognised)
  PROVE  IInv'
  <1> DEFINE targets == Route(Config[key].exchange, Config[key].routingKey)
             packet(q) == [message |-> m, for |-> key, recognised |-> recognised, queue |-> q]
  <1>1. key \in ConfigKey
    BY Keys
  <1>2. targets \subseteq {Config[key].queue}
    BY <1>1, RoutesOfMain DEF IInv, Wiring
  <1>3. waiting' \subseteq waiting \cup {packet(Config[key].queue)}
    BY <1>2 DEF Publish
  <1>4. packet(Config[key].queue) \in Packet
    BY <1>1, Named DEF Packet
  <1>5. TypeOK'
    BY <1>3, <1>4 DEF IInv, TypeOK, Publish, broker, processes
  <1>6. Wiring'
    BY WiringStays DEF IInv, Publish
  <1>7. Delivery'
    BY <1>3 DEF IInv, Delivery, DeadLettersAreKept, RightStrategy, KeepsToItsQueues, Publish
  <1> QED BY <1>5, <1>6, <1>7 DEF IInv

(* A packet on a main queue is on the queue of its own configuration, one  *)
(* on no main queue is on its dead-letter queue.                           *)
LEMMA WhereItIs ==
  ASSUME KeepsToItsQueues, waiting \subseteq Packet, NEW packet \in waiting
  PROVE  /\ packet.for \in Consumed /\ packet.for \in ConfigKey
         /\ IF \E key \in Consumed : Config[key].queue = packet.queue
            THEN packet.queue = Config[packet.for].queue
            ELSE packet.queue = DeadLetterQueue(Config[packet.for].queue)
  <1>1. packet.for \in Consumed /\ packet.for \in ConfigKey
    BY Keys DEF Packet
  <1>2. packet.queue \in {Config[packet.for].queue, DeadLetterQueue(Config[packet.for].queue)}
    BY DEF KeepsToItsQueues
  <1>3. \A key \in Consumed : Config[key].queue # DeadLetterQueue(Config[packet.for].queue)
    BY <1>1, Keys, QueueNamesAssumption
  <1> QED BY <1>1, <1>2, <1>3

LEMMA HandleStep ==
  ASSUME IInv, NEW packet \in waiting, packet.queue = Config[packet.for].queue,
         packet.for \in Consumed, Handle(packet)
  PROVE  IInv'
  <1>1. GetStrategy(packet.queue, Config[packet.for].routingKey) = packet.for
    BY Registered
  <1>2. handled' = handled \cup {<<packet.for, packet.for>>}
    BY <1>1 DEF Handle
  <1>3. packet.for \in Strategy
    BY Keys DEF Strategy
  <1>4. TypeOK'
    BY <1>2, <1>3 DEF IInv, TypeOK, Handle, broker, processes
  <1>5. Wiring'
    BY WiringStays DEF IInv, Handle
  <1>6. Delivery'
    BY <1>2 DEF IInv, Delivery, DeadLettersAreKept, RightStrategy, KeepsToItsQueues, Handle
  <1> QED BY <1>4, <1>5, <1>6 DEF IInv

LEMMA RejectStep ==
  ASSUME IInv, NEW packet \in waiting, packet.queue = Config[packet.for].queue,
         packet.for \in ConfigKey, packet.queue \in queues, Reject(packet)
  PROVE  IInv'
  <1> DEFINE key == packet.for
             dlq == DeadLetterQueue(Config[key].queue)
             targets == Route(Config[key].deadLetterExchange, Config[key].deadLetterRoutingKey)
  <1>1. ConfigOf(packet.queue) = key
    BY OneConfig
  <1>2. targets = {dlq}
    <2>1. DeadBinding(key) \in bindings
      BY DEF IInv, Wiring, Backed
    <2> QED BY <2>1, RoutesOfDead DEF IInv, Wiring
  <1>3. dropped' = dropped
    BY <1>1, <1>2 DEF Reject
  <1>4. waiting' \subseteq waiting \cup {[packet EXCEPT !.queue = dlq]}
    BY <1>1, <1>2 DEF Reject
  <1>5. /\ [packet EXCEPT !.queue = dlq] \in Packet
        /\ [packet EXCEPT !.queue = dlq].queue = dlq /\ [packet EXCEPT !.queue = dlq].for = key
    <2>1. packet \in Packet /\ dlq \in Queue
      BY Named DEF IInv, TypeOK
    <2> HIDE DEF dlq
    <2> QED BY <2>1 DEF Packet
  <1>6. TypeOK'
    BY <1>3, <1>4, <1>5 DEF IInv, TypeOK, Reject, broker, processes
  <1>7. Wiring'
    BY WiringStays DEF IInv, Reject
  <1>8. Delivery'
    <2>1. KeepsToItsQueues'
      BY <1>4, <1>5 DEF IInv, Delivery, KeepsToItsQueues
    <2> QED BY <1>3, <2>1 DEF IInv, Delivery, DeadLettersAreKept, RightStrategy, Reject
  <1> QED BY <1>6, <1>7, <1>8 DEF IInv

LEMMA BuryStep ==
  ASSUME IInv, NEW packet \in waiting, packet.queue = DeadLetterQueue(Config[packet.for].queue),
         packet.for \in ConfigKey, Bury(packet)
  PROVE  IInv'
  <1> DEFINE key == packet.for
             main == Config[key].queue
             back == [packet EXCEPT !.queue = main, !.recognised = FALSE]
  <1>1. MainOf(packet.queue) = key
    BY OneConfig
  <1>2. Route(Config[key].exchange, Config[key].routingKey) \subseteq {main}
    BY RoutesOfMain DEF IInv, Wiring
  <1>3. waiting' \subseteq waiting \cup {back}
    BY <1>1, <1>2 DEF Bury
  <1>4. back \in Packet /\ back.queue = main /\ back.for = key
    <2>1. packet \in Packet /\ main \in Queue
      BY Named DEF IInv, TypeOK
    <2> HIDE DEF main
    <2> QED BY <2>1 DEF Packet
  <1>5. TypeOK'
    BY <1>3, <1>4 DEF IInv, TypeOK, Bury, broker, processes
  <1>6. Wiring'
    BY WiringStays DEF IInv, Bury
  <1>7. Delivery'
    <2>1. KeepsToItsQueues'
      BY <1>3, <1>4 DEF IInv, Delivery, KeepsToItsQueues
    <2> QED BY <2>1 DEF IInv, Delivery, DeadLettersAreKept, RightStrategy, Bury
  <1> QED BY <1>5, <1>6, <1>7 DEF IInv

LEMMA ReceiveStep ==
  ASSUME IInv, NEW p \in Process, NEW packet \in waiting, Receive(p, packet)
  PROVE  IInv'
  <1>1. /\ packet.for \in Consumed /\ packet.for \in ConfigKey
        /\ IF \E key \in Consumed : Config[key].queue = packet.queue
           THEN packet.queue = Config[packet.for].queue
           ELSE packet.queue = DeadLetterQueue(Config[packet.for].queue)
    BY WhereItIs DEF IInv, Delivery, TypeOK
  <1>2. packet.queue \in queues
    BY DEF Receive, IInv, Wiring, Served
  <1>3. CASE \E key \in Consumed : Config[key].queue = packet.queue
    BY <1>1, <1>2, <1>3, HandleStep, RejectStep DEF Receive
  <1>4. CASE ~\E key \in Consumed : Config[key].queue = packet.queue
    BY <1>1, <1>4, BuryStep DEF Receive
  <1> QED BY <1>3, <1>4

LEMMA NextIsInvariant == IInv /\ [Next]_vars => IInv'
  <1> SUFFICES ASSUME IInv, [Next]_vars PROVE IInv'
    OBVIOUS
  <1>1. ASSUME NEW p \in Process, Boot(p) PROVE IInv'
    BY <1>1, BootStep
  <1>2. ASSUME NEW p \in Process, Declare(p) PROVE IInv'
    BY <1>2, DeclareStep
  <1>3. ASSUME NEW p \in Process, SetupFails(p) PROVE IInv'
    BY <1>3, SetupFailsStep
  <1>4. ASSUME NEW p \in Process, Stop(p) PROVE IInv'
    BY <1>4, StopStep
  <1>5. ASSUME NEW p \in Process, NEW queue \in Queue, Consume(p, queue) PROVE IInv'
    BY <1>5, ConsumeStep
  <1>6. ASSUME NEW p \in Process, NEW packet \in waiting, Receive(p, packet) PROVE IInv'
    BY <1>6, ReceiveStep
  <1>7. ASSUME ReplaceBroker PROVE IInv'
    BY <1>7, ReplaceBrokerStep
  <1>8. ASSUME NEW m \in Message, NEW key \in Consumed, NEW recognised \in BOOLEAN,
               Publish(m, key, recognised)
        PROVE  IInv'
    BY <1>8, PublishStep
  <1>9. CASE UNCHANGED vars
    <2>1. TypeOK'
      BY <1>9 DEF IInv, TypeOK, vars, broker, processes, messages
    <2>2. Wiring' /\ Delivery'
      BY <1>9, WiringStays, DeliveryStays DEF IInv, vars
    <2> QED BY <2>1, <2>2 DEF IInv
  <1> QED BY <1>1, <1>2, <1>3, <1>4, <1>5, <1>6, <1>7, <1>8, <1>9 DEF Next

LEMMA Invariance == Spec => []IInv
  BY InitIsInvariant, NextIsInvariant, PTL DEF Spec

-----------------------------------------------------------------------------
(* Every variable keeps its type: no process runs past its last            *)
(* declaration, and nothing but the names of the table is ever declared.   *)
THEOREM StartupTypes == Spec => []TypeOK
  <1>1. IInv => TypeOK
    BY DEF IInv
  <1> QED BY <1>1, Invariance, PTL

(* No dead letter is dropped, however many processes declare the topology  *)
(* at once, however far each gets, and however often the broker is         *)
(* replaced: createExchangeAndQueue provides for the dead letters of a     *)
(* queue before it declares the queue.                                     *)
THEOREM DeadLettersSafe == Spec => []DeadLettersAreKept
  <1>1. IInv => DeadLettersAreKept
    BY DEF IInv, Delivery
  <1> QED BY <1>1, Invariance, PTL

(* The registry gives each message the strategy it was published for.      *)
THEOREM StrategiesRight == Spec => []RightStrategy
  <1>1. IInv => RightStrategy
    BY DEF IInv, Delivery
  <1> QED BY <1>1, Invariance, PTL

(* Rejected and republished any number of times, a message stays with the  *)
(* two queues of its configuration.                                        *)
THEOREM QueuesKept == Spec => []KeepsToItsQueues
  <1>1. IInv => KeepsToItsQueues
    BY DEF IInv, Delivery
  <1> QED BY <1>1, Invariance, PTL

(* After one complete setup of the present broker every message published  *)
(* reaches a queue.                                                        *)
THEOREM RoutedAfterSetup == Spec => RoutedOnceSetUp
  <1>1. ASSUME IInv, [Next]_vars, completed PROVE UNCHANGED unrouted
    <2>1. ASSUME NEW m \in Message, NEW key \in Consumed, NEW recognised \in BOOLEAN,
                 Publish(m, key, recognised)
          PROVE  UNCHANGED unrouted
      <3>1. key \in ConfigKey
        BY Keys
      <3>2. MainBinding(key) \in bindings
        BY <1>1, <3>1, MainBound, MadeIsMade DEF IInv, Wiring, Complete
      <3>3. Route(Config[key].exchange, Config[key].routingKey) # {}
        BY <1>1, <3>1, <3>2, RoutesOfMain DEF IInv, Wiring
      <3> QED BY <2>1, <3>3 DEF Publish
    <2>2. ASSUME NEW p \in Process, NEW packet \in waiting, Receive(p, packet)
          PROVE  UNCHANGED unrouted
      BY <2>2 DEF Receive, Handle, Reject, Bury
    <2>3. ASSUME NEW p \in Process,
                 \/ Boot(p) \/ Declare(p) \/ SetupFails(p) \/ Stop(p)
                 \/ \E queue \in Queue : Consume(p, queue)
          PROVE  UNCHANGED unrouted
      BY <2>3 DEF Boot, Declare, SetupFails, Stop, Consume, messages
    <2>4. CASE ReplaceBroker
      BY <2>4 DEF ReplaceBroker
    <2>5. CASE UNCHANGED vars
      BY <2>5 DEF vars, messages
    <2> QED BY <1>1, <2>1, <2>2, <2>3, <2>4, <2>5 DEF Next
  <1>2. IInv /\ [Next]_vars => [completed => UNCHANGED unrouted]_vars
    BY <1>1
  <1> QED BY <1>2, Invariance, PTL DEF Spec, RoutedOnceSetUp
=============================================================================
