------------------------------- MODULE Topology -------------------------------
(***************************************************************************)
(* How processes of the service start against one RabbitMQ broker, and     *)
(* what the exchanges, queues and bindings they declare do to messages.    *)
(*                                                                         *)
(* A process declares the whole topology, one awaited call after another,  *)
(* before it consumes.  When a call fails main.ts logs a warning and goes  *)
(* on to consume what there is.  Two processes may start at once (a        *)
(* rolling update), and any may stop at any time and start again.          *)
(* Everything declared is durable and nobody removes a queue, so autoDelete *)
(* never removes an exchange; but the broker of k8s/rabbitmq.yaml has no   *)
(* volume, and when its pod is replaced everything it had is gone.         *)
(***************************************************************************)
EXTENDS MessageRouting

CONSTANTS
  Process,      \* processes of the service
  Message,      \* messages other services publish
  Republish,    \* DLQ_REPUBLISH_TO_MAIN
  MaxWipes      \* bound on replacements of the broker

ASSUME TopologyAssumption == Republish \in BOOLEAN /\ MaxWipes \in Nat

Phase == {"down", "setup", "serving"}

(* A message waiting in a queue: the configuration it was published for,   *)
(* and whether its pattern is one the controller listens to.               *)
Packet == [message : Message, for : Consumed, recognised : BOOLEAN, queue : Queue]

VARIABLES
  exchanges, queues, bindings,   \* what the broker has
  phase,       \* how far each process has started
  step,        \* the declaration each process makes next, 1 outside the setup
  completed,   \* some process has made all its declarations to this broker
  wipes,       \* how often the broker was replaced
  consumers,   \* <<process, queue>> pairs with a consumer
  published,   \* messages published
  waiting,     \* packets in the queues
  handled,     \* <<configuration, strategy>> of the messages handed to a strategy
  unrouted,    \* messages published to no queue
  dropped      \* packets rejected on a main queue that reached no queue

broker == <<exchanges, queues, bindings, wipes>>
processes == <<phase, step, completed, consumers>>
messages == <<published, waiting, handled, unrouted, dropped>>
vars == <<broker, processes, messages>>

Init ==
  /\ exchanges = {} /\ queues = {} /\ bindings = {} /\ wipes = 0
  /\ phase = [p \in Process |-> "down"] /\ step = [p \in Process |-> 1]
  /\ completed = FALSE /\ consumers = {}
  /\ published = {} /\ waiting = {} /\ handled = {} /\ unrouted = {} /\ dropped = {}

Enter(p, from, to) == phase[p] = from /\ phase' = [phase EXCEPT ![p] = to]

-----------------------------------------------------------------------------
(* bootstrap up to the setup. *)
Boot(p) ==
  /\ Enter(p, "down", "setup")
  /\ UNCHANGED <<broker, messages, step, completed, consumers>>

(* A slip: the loop goes on past its last call. *)
OneCallTooMany(p) == step[p] > Len(Declarations)

LastCall(p) == step[p] = Len(Declarations)

(* One call of createExchangesAndQueues.  Declaring again what is there    *)
(* changes nothing.                                                        *)
Declare(p) ==
  LET d == Declarations[step[p]] IN
  /\ phase[p] = "setup"
  /\ exchanges' = IF d.op = "exchange" THEN exchanges \cup {d.name} ELSE exchanges
  /\ queues' = IF d.op = "queue" THEN queues \cup {d.name} ELSE queues
  /\ bindings' = IF d.op = "bind" THEN bindings \cup {d.binding} ELSE bindings
  /\ phase' = IF LastCall(p) THEN [phase EXCEPT ![p] = "serving"] ELSE phase
  /\ step' = [step EXCEPT ![p] = IF LastCall(p) THEN 1 ELSE @ + 1]
  /\ completed' = (completed \/ LastCall(p))
  /\ UNCHANGED <<messages, wipes, consumers>>

(* A slip: the failure of the setup is not noticed. *)
SetupFailsUnnoticed(p) ==
  /\ Enter(p, "setup", "serving")
  /\ step' = [step EXCEPT ![p] = 1]
  /\ completed' = TRUE
  /\ UNCHANGED <<broker, messages, consumers>>

(* The connection or a call fails: a warning, and on. *)
SetupFails(p) ==
  /\ Enter(p, "setup", "serving")
  /\ step' = [step EXCEPT ![p] = 1]
  /\ UNCHANGED <<broker, messages, completed, consumers>>

(* startAllMicroservices, one queue after another: of the queues a process *)
(* registers (main and dead letters of each consumed configuration) those  *)
(* that exist get a consumer.                                              *)
Consume(p, queue) ==
  /\ phase[p] = "serving"
  /\ queue \in queues
  /\ \E key \in Consumed : queue \in {Config[key].queue, DeadLetterQueue(Config[key].queue)}
  /\ <<p, queue>> \notin consumers
  /\ consumers' = consumers \cup {<<p, queue>>}
  /\ UNCHANGED <<broker, messages, phase, step, completed>>

Stop(p) ==
  /\ phase[p] # "down"
  /\ phase' = [phase EXCEPT ![p] = "down"]
  /\ step' = [step EXCEPT ![p] = 1]
  /\ consumers' = {c \in consumers : c[1] # p}
  /\ UNCHANGED <<broker, messages, completed>>

(* The broker is replaced by an empty one.  Every connection to the old    *)
(* one is lost, so the setups under way fail, and nobody declares anything *)
(* again before it starts anew.                                            *)
ReplaceBroker ==
  /\ wipes < MaxWipes
  /\ wipes' = wipes + 1
  /\ exchanges' = {} /\ queues' = {} /\ bindings' = {}
  /\ waiting' = {} /\ consumers' = {}
  /\ phase' = [p \in Process |-> IF phase[p] = "setup" THEN "serving" ELSE phase[p]]
  /\ step' = [p \in Process |-> 1]
  /\ completed' = FALSE
  /\ UNCHANGED <<published, handled, unrouted, dropped>>

-----------------------------------------------------------------------------
(* The queues a message published to an exchange goes to. *)
Route(exchange, routingKey) ==
  {b.queue : b \in {b \in bindings : b.exchange = exchange /\ b.routingKey = routingKey}}

Publish(m, key, recognised) ==
  LET targets == Route(Config[key].exchange, Config[key].routingKey) IN
  /\ m \notin published
  /\ published' = published \cup {m}
  /\ waiting' = waiting \cup
       {[message |-> m, for |-> key, recognised |-> recognised, queue |-> q] : q \in targets}
  /\ unrouted' = IF targets = {} THEN unrouted \cup {m} ELSE unrouted
  /\ UNCHANGED <<broker, processes, handled, dropped>>

(* handleMessage, up to the strategy and with its success. *)
Handle(packet) ==
  /\ packet.recognised
  /\ handled' = handled \cup
       {<<packet.for, GetStrategy(packet.queue, Config[packet.for].routingKey)>>}
  /\ waiting' = waiting \ {packet}
  /\ UNCHANGED <<broker, processes, published, unrouted, dropped>>

(* No handler for the pattern, a payload refused, or the last attempt      *)
(* failed: the queue's arguments say where its dead letters go.            *)
Reject(packet) ==
  LET c == Config[ConfigOf(packet.queue)]
      targets == Route(c.deadLetterExchange, c.deadLetterRoutingKey) IN
  /\ waiting' = (waiting \ {packet}) \cup {[packet EXCEPT !.queue = q] : q \in targets}
  /\ dropped' = IF targets = {} THEN dropped \cup {packet} ELSE dropped
  /\ UNCHANGED <<broker, processes, published, handled, unrouted>>

(* handleDlqMessage, or the rejection of what nobody listens to. *)
Bury(packet) ==
  LET c == Config[MainOf(packet.queue)]
      targets == IF packet.recognised /\ Republish
                 THEN Route(c.exchange, c.routingKey) ELSE {} IN
  /\ waiting' = (waiting \ {packet}) \cup
       {[packet EXCEPT !.queue = q, !.recognised = FALSE] : q \in targets}
  /\ UNCHANGED <<broker, processes, published, handled, unrouted, dropped>>

Receive(p, packet) ==
  /\ <<p, packet.queue>> \in consumers
  /\ IF \E key \in Consumed : Config[key].queue = packet.queue
     THEN Handle(packet) \/ Reject(packet)
     ELSE Bury(packet)

Next ==
  \/ \E p \in Process :
       \/ Boot(p) \/ Declare(p) \/ SetupFails(p) \/ Stop(p)
       \/ \E queue \in Queue : Consume(p, queue)
       \/ \E packet \in waiting : Receive(p, packet)
  \/ ReplaceBroker
  \/ \E m \in Message, key \in Consumed, recognised \in BOOLEAN : Publish(m, key, recognised)

Spec == Init /\ [][Next]_vars

-----------------------------------------------------------------------------
TypeOK ==
  /\ wipes \in 0 .. MaxWipes
  /\ exchanges \subseteq Exchange /\ queues \subseteq Queue /\ bindings \subseteq Binding
  /\ phase \in [Process -> Phase] /\ step \in [Process -> 1 .. Len(Declarations)]
  /\ completed \in BOOLEAN /\ consumers \subseteq Process \X Queue
  /\ published \subseteq Message /\ waiting \subseteq Packet
  /\ handled \subseteq Consumed \X (Strategy \cup {"none"})
  /\ unrouted \subseteq Message /\ dropped \subseteq Packet

(* Whatever setups failed, stopped half way or overlapped, what a consumer *)
(* rejects reaches a dead-letter queue: a main queue never exists before   *)
(* its dead letters have somewhere to go.                                  *)
DeadLettersAreKept == dropped = {}

(* A message that reaches a strategy reaches the one its publisher meant,  *)
(* and none finds getStrategy without an answer.                           *)
RightStrategy == \A pair \in handled : pair[1] = pair[2]

(* A message stays within the main queue and the dead-letter queue it was  *)
(* published for, rejected and republished as it may be.                   *)
KeepsToItsQueues ==
  \A packet \in waiting :
    packet.queue \in {Config[packet.for].queue, DeadLetterQueue(Config[packet.for].queue)}

(* Once some process has completed its setup every message published is    *)
(* routed, through restarts and failed setups that follow, until the       *)
(* broker itself is replaced.                                              *)
RoutedOnceSetUp == [][completed => UNCHANGED unrouted]_vars
=============================================================================
