---------------------------- MODULE MessageRouting ----------------------------
(***************************************************************************)
(* The queues of the service and who handles what arrives on them: the     *)
(* table of rabbitmq.config.ts, what rabbitmq.setup.service.ts declares    *)
(* for it, in which order, and the registry of strategies that             *)
(* HandleMessageStrategyFactory builds from it.  Constants only.           *)
(***************************************************************************)
EXTENDS Integers, Sequences

(* rabbitMQConfig.  Names are kept as they are: the registry is keyed by   *)
(* queue, routing key and exchange alike, so it matters which are equal.   *)
Config ==
  [receiveWorkOrder |->
     [exchange |-> "workorder.v1", queue |-> "workorder.v1.send-to-production",
      routingKey |-> "send-to-production", deadLetterExchange |-> "workorder.v1.dlq",
      deadLetterRoutingKey |-> "send-to-production.dlq", isConsumer |-> TRUE],
   sendStatusUpdate |->
     [exchange |-> "production.v1", queue |-> "production.v1.status-update",
      routingKey |-> "status-update", deadLetterExchange |-> "production.v1.dlq",
      deadLetterRoutingKey |-> "status-update.dlq", isConsumer |-> FALSE],
   sagaCompensateProduction |->
     [exchange |-> "saga.v1", queue |-> "saga.v1.compensate.production",
      routingKey |-> "compensate", deadLetterExchange |-> "saga.v1.dlq",
      deadLetterRoutingKey |-> "compensate.production.dlq", isConsumer |-> TRUE]]

ConfigKey == DOMAIN Config

(* The order of the object's properties, which every loop follows. *)
Listed == <<"receiveWorkOrder", "sendStatusUpdate", "sagaCompensateProduction">>

Consumed == {key \in ConfigKey : Config[key].isConsumer}

DeadLetterQueue(queue) == queue \o ".dlq"

Queue == UNION {{Config[key].queue, DeadLetterQueue(Config[key].queue)} : key \in ConfigKey}

(* The six queues are different ones, which the provers, who know nothing  *)
(* of the characters of a string, have to be told.                         *)
ASSUME QueueNamesAssumption ==
  \A a, b \in ConfigKey :
    LET dlq == DeadLetterQueue(Config[a].queue) IN
    dlq # Config[b].queue /\ (dlq = DeadLetterQueue(Config[b].queue) => a = b)

Exchange == UNION {{Config[key].exchange, Config[key].deadLetterExchange} : key \in ConfigKey}

Binding ==
  [exchange : Exchange, queue : Queue,
   routingKey : UNION {{Config[key].routingKey, Config[key].deadLetterRoutingKey} : key \in ConfigKey}]

Bind(queue, exchange, routingKey) ==
  [op |-> "bind",
   binding |-> [exchange |-> exchange, queue |-> queue, routingKey |-> routingKey]]

(* A slip: the dead letters of a queue are provided for after the queue. *)
DeclareMainFirst(key) ==
  LET c == Config[key]  dlq == DeadLetterQueue(c.queue) IN
  << [op |-> "exchange", name |-> c.exchange],
     [op |-> "queue", name |-> c.queue],
     Bind(c.queue, c.exchange, c.routingKey),
     [op |-> "exchange", name |-> c.deadLetterExchange],
     [op |-> "queue", name |-> dlq],
     Bind(dlq, c.deadLetterExchange, c.deadLetterRoutingKey) >>

(* createExchangeAndQueue: the dead-letter side first. *)
CreateExchangeAndQueue(key) ==
  LET c == Config[key]  dlq == DeadLetterQueue(c.queue) IN
  << [op |-> "exchange", name |-> c.deadLetterExchange],
     [op |-> "queue", name |-> dlq],
     Bind(dlq, c.deadLetterExchange, c.deadLetterRoutingKey),
     [op |-> "exchange", name |-> c.exchange],
     [op |-> "queue", name |-> c.queue],
     Bind(c.queue, c.exchange, c.routingKey) >>

Declarations ==
  CreateExchangeAndQueue(Listed[1]) \o CreateExchangeAndQueue(Listed[2])
    \o CreateExchangeAndQueue(Listed[3])

-----------------------------------------------------------------------------
(* The keys of strategyMap: the status update names a strategy that is not *)
(* among them, and is registered under no name.                            *)
Strategy == {"receiveWorkOrder", "sagaCompensateProduction"}

Names(key) == {Config[key].queue, Config[key].routingKey, Config[key].exchange}

Position(key) == CHOOSE i \in DOMAIN Listed : Listed[i] = key

(* A slip: every name ends up with the strategy of the last configuration. *)
RegistryOfLast ==
  [name \in UNION {Names(key) : key \in Strategy} |-> "sagaCompensateProduction"]

(* strategies: a name set twice keeps what the later configuration set. *)
Registry ==
  [name \in UNION {Names(key) : key \in Strategy} |->
     CHOOSE key \in Strategy :
       /\ name \in Names(key)
       /\ \A other \in Strategy : name \in Names(other) => Position(other) <= Position(key)]

(* getStrategy: by queue, then by routing key; "none" stands for its throw. *)
GetStrategy(queue, routingKey) ==
  IF queue \in DOMAIN Registry THEN Registry[queue]
  ELSE IF routingKey \in DOMAIN Registry THEN Registry[routingKey]
  ELSE "none"

(* The configuration of a queue, and of a dead-letter queue by the name    *)
(* without its suffix.                                                     *)
ConfigOf(queue) == CHOOSE key \in ConfigKey : Config[key].queue = queue

(* A slip: whatever the dead-letter queue, the first configuration. *)
MainOfFirst(dlq) == Listed[1]

MainOf(dlq) == CHOOSE key \in ConfigKey : DeadLetterQueue(Config[key].queue) = dlq
=============================================================================
