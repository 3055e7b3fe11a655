# A TLA+ model of the production service

The service (`src/`, TypeScript, NestJS 11) keeps the production queue of a
vehicle workshop. It receives work orders from the order service through
RabbitMQ, keeps one row per work order in PostgreSQL, lets operators move a work
order through diagnosis and repair with PATCH calls, tells the order service
when one is finished, and removes an order when a saga is compensated.

This directory holds TLA+ modules translated from that code, configurations that
check them with TLC, and proofs checked with TLAPS. `PROJECT.json` lists the
components, the runs, the mutants, the source lines each definition stands for,
the findings, the hazards and the theorems. Source paths below are relative to
`src/src/`.

## 1. The system

| Component | Code | State it keeps | Operations | Talks to |
|---|---|---|---|---|
| Production queue service | `modules/production/application/services/production-queue.service.ts`, entity, migration | table `production_queue_items`, UNIQUE on `work_order_id` | add, get, remove, update status, report | PostgreSQL through TypeORM |
| Status update use case | `.../use-cases/update-production-status.use-case.ts` | none | check, update, notify | queue service, status notification |
| Finish and report use cases | `.../use-cases/finish-production...`, `get-production-queue...` | none | finish (no caller), report | the two above |
| HTTP controller | `modules/production/infrastructure/web/` | none | `GET queue`, `PATCH :workOrderId/status` | use cases |
| Message consumer | `providers/rabbitmq/rabbitmq.controller.ts` | the message in hand, the attempt number | handle with retries, ack, nack, consume and republish dead letters | strategies, RabbitMQ |
| Strategies | `providers/rabbitmq/strategy/receive...`, `saga...` | none | validate, add or remove | queue service |
| Registry and queue configuration | `.../handleMessageStrategy.service.ts`, `rabbitmq.config.ts` | a map from names to strategies | lookup | consumer, setup |
| Broker setup and consumer registration | `rabbitmq.setup.service.ts`, `rabbitmq.service.ts` | exchanges, queues and bindings, in the broker | declare, register consumers | RabbitMQ |
| Status notification | `providers/production-status-queue.provider.ts` | none | publish | RabbitMQ |
| Bootstrap | `main.ts` | how far the process has started | schema, application, setup, listen, consume | all |
| Database and migrations | `common/service/database/`, `migrations/`, `scripts/run-migrations.ts`, the command of the `Dockerfile` | schema, ledger of migrations, type and table, in the database | migrate, revert, make the schema | PostgreSQL through TypeORM's executor |
| Authentication, logging, sanitising, health, environment | `common/`, `app.*` | none that others read | | |

Two kinds of actors change the table: PATCH handlers and message handlers. Each
is an async function, so it can be interleaved with the others at every `await`,
and nothing in the code (transaction, lock, version column) ties the statements
of one handler together. The queues are consumed with prefetch 1 and manual
acknowledgement; a failed message is retried in memory, then dead-lettered, and
the dead-letter queues are consumed too.

What is hard, and what makes each part correct:

- **Queue and use case.** Check, read, write and send are separate steps; copies
  of rows go stale; `save()` re-inserts a row that is gone. Correct means: one
  row per order, forward only, stamps that agree with the status, FINISHED sent
  exactly for what is finished.
- **Consumer.** Connections are lost while a handler runs, the handler runs on,
  the message is delivered again. Correct means: no message lost, an ack only for
  an effect, a dead letter only for a message given up, retries bounded, order
  kept when nothing is lost, and every message settled in the end.
- **Setup and bootstrap.** Eighteen calls that can fail between any two, a failure
  that is only logged, several processes at once. Correct means: dead letters
  always have a queue, messages reach the strategy they are meant for, and both
  again after the broker was replaced by an empty one.
- **Migrations.** Several containers, a script and reverts run the same executor
  on one database with no lock between them, and any of them may stop half way.
  Correct means: the ledger tells the truth about the table, nothing is recorded
  twice, nobody serves without the table, and every container whose image can run
  its command comes to serve.

## 2. The modules

| Module | What it is | Extends |
|---|---|---|
| `ProductionOrder` | the rows and what the code computes from them, as operators | |
| `OrderLifecycle` | the abstract promise: each order absent or one row, atomic steps | `ProductionOrder` |
| `ProductionQueue` | the handlers, statement by statement, on the table | `ProductionOrder`; instance of `OrderLifecycle` |
| `SerializedQueue` | the same handlers when requests on one order do not overlap | `ProductionQueue` |
| `MessageFate` | the abstract promise of a queue and its consumer: one copy of each message, answered for once | |
| `MessageConsumer` | one queue, its dead-letter queue and the controller | instance of `MessageFate` |
| `ProductionService` | both consumers, the PATCH handlers and the table together | `ProductionOrder`; instances of `ProductionQueue` and (twice) `MessageConsumer` |
| `MessageRouting` | the configuration, the declarations and the registry, as operators | |
| `Topology` | processes that start, declare, consume and stop against one broker, which may be replaced | `MessageRouting` |
| `Migrations` | containers, scripts and reverts that bring one database to its table | |
| `MCProductionQueue`, `MCSerializedQueue`, `MCMessageConsumer`, `MCProductionService`, `MCTopology`, `MCMigrations` | instances for TLC | the module named |
| `ProductionQueueProofs`, `MessageConsumerProofs`, `TopologyProofs`, `MigrationsProofs` | theorems | the module named, `TLAPS` |
| `LifecycleProofs` | the theorems that compare the queue with the lifecycle, with and without overlapping requests | `ProductionQueueProofs`, `SerializedQueue` |
| `MessageFateProofs`, `RetryProofs` | the consumer's refinement, its order, the bound on its retries | `MessageConsumerProofs`, `MessageFateProofs` |
| `ProductionServiceProofs` | theorems of the composition | `ProductionService`; instances of `LifecycleProofs` and (twice) `RetryProofs` |

An operator whose comment begins "A slip:" is a plausible mistake in the
definition that follows it. `PROJECT.json` ("mutants") says which property finds
it; no specification uses it.

### ProductionQueue and the code

A *request* is one run of a handler. `table` is the table, indexed by primary
key; a key is the request that first inserted the row, since a serial never
repeats. `pc[r]` is the next statement, `entity[r]` the item in the handler's
memory, `loaded[r]` the row `save()` reloaded, `published` what reached the order
service, and `disturbed` is history: the requests under which another request
wrote a row of the same work order. No guard reads `disturbed` or `published`.

| Action | Code |
|---|---|
| `AddWorkOrder`, `FindAny` | the two `findOne` of `addWorkOrderToQueue`, and what is built from the second |
| `ExecuteUpdate` | `execute` up to its two `BadRequestException` exits |
| `FindItem` | the `findOne` of `updateItemStatus` and the change of the copy |
| `Reload`, `Insert`, `InsertConflict`, `UpdateChanged` | TypeORM's `save()`: SELECT by id, then INSERT or UPDATE of the columns that differ |
| `RemoveFromQueue` | the DELETE of `removeFromQueueByWorkOrderId` |
| `Notify` | `sendStatusUpdate`, awaited |
| `Fail` | the next statement or send fails, or the process stops, after any step |

Abstractions: the four descriptive columns are one (`details`), written together;
a timestamp is the request that made it; `createdAt` and `updatedAt` are left out
because no rule reads them. Each statement is atomic, as under READ COMMITTED with one
row per work order. `getQueueStatus` only reads.

### MessageConsumer and the code

`main` and `dlq` are the queues. `channel` numbers the connection in use;
`handler[c]` is the run of `handleMessage` on connection `c`, so a handler whose
connection is gone is still there and its ack or nack reaches nobody. `content`
says what kind of message each is: *sound*, *malformed* (the strategy throws),
*invalid* (`InvalidPayloadError`), *foreign* (its pattern has no handler, so the
Nest server rejects it). `strategy.handle` either commits its effect and
returns, or throws, perhaps after the commit. `applied`, `failures`, `acked` and
`discarded` are histories. A saga message for another step is a sound one whose effect is
nothing.

A handler for a packet exists only when it has its `{pattern, data}` envelope:
`handleDlqMessage` publishes `data` alone, so what it republishes does not
(`enveloped = FALSE`). A dead letter that is not republished is gone: when it
has no handler, when republishing is off, and when the publish throws, which the code only logs.

`MessageFate` forgets queues, channels, attempts and copies: a message as it was
published is unsent, waiting, held, dead, acknowledged or buried. `FateOf` is the
refinement mapping. It asks for the packet with its envelope, since what is
republished is another thing, and for the handler on the live channel only, since
the others can answer nothing. `ImplementsMessageFate` says in particular that an
answer given on a lost channel settles nothing, that a message in the queue is
never also in hand, and that no connection lost after the ack brings it back.

### ProductionService and the code

Two instances of `MessageConsumer` with variables of their own, and one of
`ProductionQueue`. `run` says which request is the attempt in progress on each
channel. `ReceiveWorkOrder` and `CompensateProduction` start it, which is the first
statement of `addWorkOrderToQueue` and of `removeFromQueueByWorkOrderId`;
`ReceiptEnds` and `CompensationEnds` end it: as a success only when its last
statement is committed, as a throw when a statement failed, when the first never
reached the database, or when an answer was lost. `Statement` interleaves the
statements of all requests, `Crash` ends them all, `LoseConnection` leaves them
running. `faults` counts what goes wrong of itself, which `MaxFaults` bounds; a
conflict on the UNIQUE constraint is not one of them. `payload` is the work order a message is about; `early` is history, the
compensations sent before the messages of their order were settled.

### Topology and the code

A process goes `down`, `setup`, `serving`; `step` is its place in the eighteen calls
of `createExchangesAndQueues` (`Declare`). `SetupFails` is the `catch` in
`main.ts` that logs and goes on. `ReplaceBroker` is a new pod of the broker,
which `k8s/rabbitmq.yaml` gives no volume: what was declared and what was waiting
is gone, setups under way fail, and `completed` starts again. `Consume` gives a consumer to a queue that
exists; what happens to a consumer of a missing queue is the library's business, and here
it simply does not exist. `Handle`, `Reject` and `Bury` are the outcomes of a
delivery, each a step here because `MessageConsumer` has the detail.

### Migrations and the code

The code is three commands over TypeORM's executor: the command of the image
(`migration:run`, then `main.js` if it succeeds), `scripts/run-migrations.ts`
(which makes the schema first) and `migration:revert`. `phase[p]` is what a
process does next, `objects` what the database has, `recorded` the ledger,
`work[p]` the open transaction of a process and `seen[p]` what it read in the
ledger before. `crossed` is history, and read by no guard: two reverts have found the same
migration in the ledger. The containers of `WithTsNode` are those whose image has the
`ts-node` that their command needs. The image of the `Dockerfile` has not: line 24 removes
the development dependencies, of which it is one (`package.json:94`). So as the image is
built `WithTsNode` is empty, every `Start` ends at once, and no container serves; the rest
of the module says what happens once that is mended, and to the scripts, which run from a
checkout.

| Action | Code |
|---|---|
| `Start`, `Exit`, `Afterwards` | the command in the `Dockerfile`, which fails at once without `ts-node`: a failure ends the container, which is started again |
| `EnsureSchemaExists` | `ensureSchemaExists` of `data-source.ts`, which only the script calls |
| `Look`, `CreateLedger`, `Load`, `Commit`, `Forget` | the executor: is there a ledger, make it, read it, end the transaction, delete a record |
| `UpCreateSchema`, `UpCreateType`, `UpCreateTable`, `DropTable`, `DropType` | the statements of the two migrations |
| `Bootstrap` | `ensureSchemaExists` of `main.ts` and the connection of the application |
| `Stop` | any statement fails, or the process is stopped |

The executor and PostgreSQL are not in the repository and are modelled from how
the code relies on them: all pending migrations run in one transaction, the ledger
is made before it, a CREATE TYPE waits for another transaction that has created
the same type (`Locked`) and fails if that one commits, and a DROP waits for another
transaction that has dropped and not ended (`Dropping`). A revert reads the ledger before its transaction
and deletes from it at the end, whatever its DROP IF EXISTS found: two of them that cross a
migration applied in between leave a table without a record.

## 3. The runs

| Run | Result | What it shows |
|---|---|---|
| `queue_races` | pass | `OneRowPerWorkOrder`, `ConflictOnlyUnderRace`, `StampedIsAnnounced`, `UndisturbedStepsImplementLifecycle` for three requests on two work orders, all interleavings and failures |
| `queue_serialized` | pass | `ImplementsLifecycle`, `StampsMatchStatus` for four requests on two work orders, none overlapping on the same one; and `StatusNeverGoesBack`, `FinishedOnlyOnce`, `RemovedStaysRemoved`, which the next runs refute when they overlap |
| `status_goes_back` | violation | two overlapping PATCH calls move a row backwards |
| `finished_twice` | violation | two overlapping PATCH calls send FINISHED twice for one completion |
| `completed_unannounced` | violation | a send that fails after the save is never made up for |
| `removed_comes_back` | violation | a handler that read the row before the compensation re-inserts it |
| `consumer` | pass | `NoMessageLost`, `AckedIsApplied`, `GivenUpAfterRetries`, `RetriesAreBounded`, `OrderedWithoutLoss`, `SettledUnlessHung`, `ImplementsMessageFate`, with dead letters republished |
| `republished_is_dropped` | violation | a republished message is thrown away unseen |
| `service` | pass | `AckedOrderIsKept`, `OrderIsAccountedFor`, `CompensationHolds`, `ReceiptUndoesNoWork` with three runs of handlers and two faults anywhere |
| `startup` | pass | `DeadLettersAreKept`, `RightStrategy`, `KeepsToItsQueues`, `RoutedOnceSetUp`, with failed and overlapping setups and a broker replaced twice |
| `migrations` | pass | `RecordedMeansApplied`, `RecordedOnce`, `ServingFindsItsTable`, `SchemaThenServes` for two containers, a third whose image has no `ts-node`, a script and two reverts, one of them stopped anywhere |
| `fresh_database` | violation | on a database without the schema the container never starts, even with `ts-node`: what would make the schema runs after what needs it |

The refinement is stated twice because the code keeps its promise only in part.
`UndisturbedStepsImplementLifecycle` holds with no assumption on the environment:
a handler under which nobody wrote does only what `OrderLifecycle` allows, so
every departure from the lifecycle takes two handlers on one order at once. The
four violation runs of the queue show departures of that kind (and one, a failed
send, which the lifecycle permits because it promises only that what is announced
is finished). `SerializedQueue` then states the assumption under which the whole
lifecycle holds: one request at a time on each work order. Under it three of the claims
that those runs refute hold too (`queue_serialized`, proved in `LifecycleProofs`). The
fourth, `CompletedIsAnnounced`, fails without any overlap; what does hold is
`StampedIsAnnounced`: a completion on record was announced, or is about to be, unless the
very handler that stamped it failed, however often others have read the stamp and written it back.

`OrderIsAccountedFor` follows an order from the queue to the table. It joins what the
consumer promises of messages (`NoMessageLost`, `GivenUpAfterRetries`) with what the ack
means for the table (`AckedOrderIsKept`): the one way for an order to end without a row or
a compensation is its message among the dead letters, consumed or not, after `MaxRetries`
failures. With republishing off nothing brings it back.

The other properties of `ProductionService` name what can undo an order or a
compensation, and each exception they make is needed: TLC finds a counterexample
when any one of them is dropped. A compensation sent before the order was settled is
overtaken by the receipt; one sent afterwards is undone by a PATCH, which creates the
row of an unknown order, or by a receipt whose handler outlived its connection. An
order in progress goes back to QUEUED when its message is delivered twice, when an
attempt fails after the commit, and when a PATCH had created the row before the message
came.

Some hazards of `PROJECT.json` are therefore covered by no property. The code is exposed to
them, nothing in the repository says otherwise, and the properties nearest to them leave
them out by name: an overlapping writer's columns mixed into a row, FINISHED sent for a row
deleted meanwhile, a compensation that overtakes its order, a receipt delivered again to an
order in progress, two reverts that cross, and the `ts-node` that the image lacks. One more,
the pattern in the envelope of a compensation, depends on publishers outside this repository.

### Bounds

- Queue: three requests are the fewest in which a third can act between two
  others (read, compensate, save); four serialized ones reach the sequence
  receive, complete, receive again, complete again. Two work orders show that
  requests on different orders do not touch each other; one value of `details`
  beside NULL is enough for a coalesce. Requests and work orders are symmetric.
- Consumer: two messages are needed for order, three attempts are the deployed
  value, republishing is the setting with the longest ways (the deployed one, off, is
  that of `service`), and one loss gives an orphaned handler beside the live one and
  a message delivered twice. The proofs cover any number of losses.
- Service: one work order with one message and one compensation, two attempts,
  three runs of handlers (a receipt tried twice beside a compensation or a PATCH), PATCH
  calls to `PatchStatus` (COMPLETED alone: the last status, the only one that is announced;
  the queue's own runs have the others), two faults. A fault is
  a statement or a send that fails, an answer that is lost, a connection that is lost or
  a crash; two of them give a dead letter, a loss in the middle of a retry, or a
  second failure while the first is made up for. Each consumer loses one connection.
- Topology: two processes overlap; one message, since messages do not meet; the broker
  is replaced twice, so that a setup can meet the remains of one that was cut off.
- Migrations: two containers are a rolling update, with the script at any moment; two
  reverts are the fewest that can cross, and with one stop anywhere an executor leaves
  its work to the others. The proofs cover any number of each.

`MaxLosses`, `MaxFaults`, `MaxWipes`, `MaxStops` and `PatchStatus` are the only bounds
that are part of a specification. Every other variable is bounded by the finite sets of
requests, messages and processes. TLC checks for deadlock everywhere but in
`ProductionService`, which stops when the requests are used up or all is settled; in the
queue, the consumer and the migrations the finished states have an explicit stuttering
step (`AllEnded`, `Idle`). In `migrations` the container without `ts-node` can always start again,
so containers that wait for each other would show in `SchemaThenServes`, not as a deadlock.

### Fairness

`MessageConsumer`: `WF(Deliver)` and `WF(ConsumeDlq)`, since an idle consumer with
prefetch 1 is sent the next message, and `WF(Answer(channel))`, since after
`strategy.handle` there is only a `setTimeout`, an ack or a nack. That
`strategy.handle` ends is *not* assumed, because nothing in the code limits its time:
`SettledUnlessHung` instead has it as a premise, on the live channel only, so that
handlers hanging on lost channels are shown to hold nothing back. Nothing obliges a
publisher to publish, a strategy to succeed, or a loss to happen. The property rests
on the bounded attempts and on the envelope being lost when a dead letter is
republished: were the envelope kept, a message that always fails would circle for ever.

`Migrations`: `WF(Run(p))`, a process that runs goes on, since PostgreSQL answers or
fails; `WF(Start(p))` for containers only, which Kubernetes starts again when they end
(`k8s/deployment.yaml` leaves `restartPolicy` at `Always`). Nobody has to run a script.

## 4. The proofs

The theorems of all eight proof modules hold for every value of the constants under
the assumptions in the modules (`NULL` is no record, `MaxRetries` is positive, and
so on).

- **`ProductionQueueProofs`**: `TypeCorrect`, `OneRow`, `CompletionIsAnnounced`. `TypeOK` is not
  inductive: a handler about to save must have an entity, one about to update
  must have reloaded a row with the entity's id, and both must be of the work
  order of the job. `Inv` adds that, and that a row's key never changes work order. `OneRow`
  then follows step by step: only `Insert` adds a row, guarded by the constraint. For the
  announcement the rows are not enough, since a stamp leaves a row that is removed and
  comes back from the copy of a handler that had read it; `Stamps` follows the
  copies with the rows, and says that the stamp of a copy was announced or is the
  handler's own.
- **`LifecycleProofs`**: `ConflictIsRace`, `UndisturbedImplements`. The
  strengthening (`Views`) says what an undisturbed handler knows: the row it read is the
  row in the table, or there is none. With it each statement is shown to be a
  step of `OrderLifecycle` or to leave its variables alone, one lemma per action.
  For requests that do not overlap: `SerialImplements`, `SerialStamps`, `SerialForward`,
  `SerialRemoval`, `SerialAnnouncement`. The handlers in flight are undisturbed, so the
  previous theorems give the refinement; the stamps follow on the abstract level, the rest from
  what an undisturbed handler knows when it writes or sends.
- **`MessageConsumerProofs`**: `ConsumerTypes`, `NothingIsLost`, `AckIsEarned`,
  `DeadLettersAreGivenUp`. `Inv` says what a handler owes at each control point
  (attempts against failures, *handled* only after the effect), on whichever
  channel it runs, and that what sits in the queues without its envelope was given up. `NothingIsLost`
  follows a message through its four places.
- **`MigrationsProofs`**: `MigrationTypes`, `LedgerIsTrue`, `NothingRecordedTwice`,
  `ServedTableExists`. The strengthening is about open transactions: at most one of
  them has created the type, none of those while the type is committed, and whoever is
  about to record the table has created it. That is why two overlapping executors
  cannot both commit, although neither looks at the other. For the reverts: at most one open transaction has
  dropped anything, and what it has dropped is there until it commits (`OneDropper`), while
  what another one creates meanwhile needs a type that is gone; so what the ledger lists
  exists, without any condition. Conversely, until two reverts have crossed there is one at
  a time and it has dropped what it found before it deletes the record (`RevertInv`), so a
  table that is there is listed. Afterwards it need not be, as TLC shows.
- **`TopologyProofs`**: `StartupTypes`, `DeadLettersSafe`, `StrategiesRight`, `QueuesKept`,
  `RoutedAfterSetup`. `IInv` adds to the properties what the broker has (`Wiring`): a
  process has made every declaration before its next one (`Progress`) and, when it has
  completed its setup, all of them (`Complete`); only the bindings of the table are ever made
  (`Wired`); a main queue is there only with the binding of its dead letters (`Backed`); a
  consumer's queue is there (`Served`). `Progress` and the place of a queue among the
  eighteen declarations (`Kinds`) give `Backed` at each new queue, whichever process makes it;
  the others follow from the table, where no two configurations share a name. That
  the six queue names differ is `QueueNamesAssumption`, because the provers know
  nothing of the characters of a string; TLC evaluates it in `startup`.
- **`MessageFateProofs`**: `EffectsInOrder`, `FateIsImplemented`. `OnlyPublished` says
  that every place holds published messages only. For the order, `InOrder` says that while
  no connection is lost the queue is sorted by publication and everything in it comes
  after what was applied or is in hand. For the refinement, `OneCopy` says that the packet as it was
  published is at most once in the queue, in hand on the live channel or among the dead
  letters, and in none of these places once it was answered for; each action then moves
  one message from one fate to the next, or none.
- **`RetryProofs`**: `RetriesBounded`. Handlers of one message may overlap on several
  channels, so no counter of the model bounds the failures by itself. The invariant is
  about a running total over the channels: none of them adds more than `MaxRetries`, because the
  copy with its envelope is delivered to each at most once.
- **`ProductionServiceProofs`**: `ServiceTypes`, `AcknowledgedIsKept`, `NoOrderIsLost`,
  `CompensationIsKept`, `WorkIsNotUndone`. A step of the service is shown to be a step of each part, or to
  leave it alone, so the invariants of the parts carry over (`QueueP`, `WorkP` and `SagaP`
  are the proof modules of the parts, at the service's variables). The rest ties
  the parts together. For the ack: that an order is in the table or a compensation of it
  ran (`Kept`) never ceases to hold; a receipt that is done has made it hold
  (`Receipts`), and a handler past `strategy.handle` has such a receipt (`Attempts`,
  `Earned`). For the orders that never came so far: `NoMessageLost`, and that what was
  thrown away had been given up (`Abandoned`). For the compensation: when it was not early the order's own messages are
  settled and stay so (`Timely`); a receipt still at work belongs to a handler whose message
  is not settled (`InHand`, with `OneCopy` from `MessageFateProofs`), so an order that is gone
  comes back only by the exceptions the property names. For the receipt: when nothing failed and
  there is one message, there is one receipt (`Traced`, `Single`), and it is not the one
  that made the row it writes (`Keys`).

  Last, the parts keep in company what they promise alone (`TableIsSound`,
  `LifecycleInCompany`, `FatesInCompany`, `MessagesInCompany`, `RetriesInCompany`,
  `OrderInCompany`); the runs check the same properties of the parts by themselves. The invariants of the parts are joined in
  `CompanyInv`, and the one step that the parts' own proofs do not know, a crash that ends
  every request of the table at once (`Halt`), is shown to keep them.

Only model-checked: `SettledUnlessHung` and `SchemaThenServes`, which are liveness under fairness.

## 5. What is not modelled

- The finish use case (no caller: the description in
  `production.controller.ts:30` mentions `POST .../finish`, which does not
  exist) and the queue report, which only reads.
- Authentication, validation messages, logging, sanitising, health, CORS,
  documentation pages, environment parsing: stateless.
- `createQueue`: no configuration lacks an exchange. Queues declared by other
  services: the models assume that only this service declares its queues. The
  status client asserts the status queue when it first connects, perhaps before the setup has
  declared that queue's dead-letter side; that queue is not consumed here and is outside
  `DeadLettersAreKept`.
- More than one consumer of a queue. `k8s/deployment.yaml` has `replicas: 1`, and
  `MessageConsumer` one consuming process; but a rolling update briefly has two, each with a message
  in hand, and then effects can change places with no connection lost. `OrderedWithoutLoss`
  rests on there being one.
- Integer widths: `workOrderId` is only compared for equality, and the attempt
  counter is bounded.
- A broker that loses durable queues while messages wait in them (`Topology` has it
  replaced, `MessageConsumer` takes it to be durable), and a database that loses commits.
- Without `RABBITMQ_URL` the process does not start, although `env.ts:22` has it optional:
  `createClientOptions` (`rabbitmq.service.ts:15`) throws while the application is created.
  The models have the variable set.
- Of the migrations: reverting `CreateSchema`, which drops the ledger with the schema, so that the
  executor's DELETE fails and all is rolled back; the retries of the first connection by
  `@nestjs/typeorm`. The application's own executor looks in `dist/migrations`
  (`database.config.ts:31`), where the build puts nothing, and so runs none.

## 6. The plan

1. `ProductionOrder`, `OrderLifecycle`, `ProductionQueue`, `SerializedQueue` and their proofs: done.
2. `MessageConsumer`, `MessageFate`, the refinement and their proofs: done. `MessageRouting`,
   `Topology` and their proofs: done. `Migrations` and its safety proofs: done.
3. `ProductionService`, the proofs of its properties, and of its parts' promises within it: done.
4. To come: that the service as a whole implements the order lifecycle for the orders on
   which no handlers overlapped, as `SerializedQueue` does for the table alone.
