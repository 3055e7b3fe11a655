--------------------------- MODULE ProductionService ---------------------------
(***************************************************************************)
(* The service put together: the consumers of work orders and of saga      *)
(* compensations (two instances of MessageConsumer), the PATCH handlers,   *)
(* and the table they share (ProductionQueue).  What MessageConsumer takes *)
(* for granted, that a strategy succeeds or throws, is here a request that *)
(* runs its statements among those of the others.                          *)
(*                                                                         *)
(* Only sound messages are published: MessageConsumer covers the others,   *)
(* which never reach the table.                                            *)
(***************************************************************************)
EXTENDS ProductionOrder

CONSTANTS
  WorkOrderMessage,   \* messages of the order service
  SagaMessage,        \* compensations of the step send_to_production
  PatchStatus,        \* bound: the statuses that PATCH calls ask for
  MaxRetries,         \* RABBITMQ_CONSUMER_MAX_RETRIES
  MaxLosses,          \* bound on lost connections of each consumer
  MaxFaults           \* bound on what goes wrong of itself, in all

ASSUME BoundAssumption ==
  /\ PatchStatus \subseteq ProductionStatus
  /\ MaxRetries \in Nat \ {0} /\ MaxLosses \in Nat /\ MaxFaults \in Nat

VARIABLES
  table, pc, job, entity, loaded, published, disturbed,
  workContent, workArrival, workMain, workDlq, workChannel, workHandler,
  workLosses, workApplied, workFailures, workAcked, workDiscarded,
  sagaContent, sagaArrival, sagaMain, sagaDlq, sagaChannel, sagaHandler,
  sagaLosses, sagaApplied, sagaFailures, sagaAcked, sagaDiscarded,
  payload,     \* the work order each message is about
  run,         \* the request that is the current attempt on each channel
  early,       \* history: compensations sent before their order was settled
  faults       \* the number of faults so far

queueVars == <<table, pc, job, entity, loaded, published, disturbed>>

workVars ==
  <<workContent, workArrival, workMain, workDlq, workChannel, workHandler,
    workLosses, workApplied, workFailures, workAcked, workDiscarded>>

sagaVars ==
  <<sagaContent, sagaArrival, sagaMain, sagaDlq, sagaChannel, sagaHandler,
    sagaLosses, sagaApplied, sagaFailures, sagaAcked, sagaDiscarded>>

vars == <<queueVars, workVars, sagaVars, payload, run, early, faults>>

Queue == INSTANCE ProductionQueue

(* Dead letters are consumed and dropped: DLQ_REPUBLISH_TO_MAIN is false. *)
Work == INSTANCE MessageConsumer WITH
  Message <- WorkOrderMessage, Republish <- FALSE,
  content <- workContent, arrival <- workArrival, main <- workMain, dlq <- workDlq,
  channel <- workChannel, handler <- workHandler, losses <- workLosses,
  applied <- workApplied, failures <- workFailures, acked <- workAcked,
  discarded <- workDiscarded

Saga == INSTANCE MessageConsumer WITH
  Message <- SagaMessage, Republish <- FALSE,
  content <- sagaContent, arrival <- sagaArrival, main <- sagaMain, dlq <- sagaDlq,
  channel <- sagaChannel, handler <- sagaHandler, losses <- sagaLosses,
  applied <- sagaApplied, failures <- sagaFailures, acked <- sagaAcked,
  discarded <- sagaDiscarded

ASSUME NoRecordAssumption ==
  NULL \notin Queue!Job \cup Queue!Item \cup Work!Handler \cup Saga!Handler

Slot == {"work", "saga"} \X Work!Channel

Payload == [workOrderId : WorkOrder, details : Details \cup {NULL}]

About(wo) == {m \in WorkOrderMessage : payload[m].workOrderId = wo}

Init ==
  /\ Queue!Init /\ Work!Init /\ Saga!Init
  /\ workContent = [m \in WorkOrderMessage |-> "sound"]
  /\ sagaContent = [m \in SagaMessage |-> "sound"]
  /\ payload \in [WorkOrderMessage \cup SagaMessage -> Payload]
  /\ run = [slot \in Slot |-> NULL]
  /\ early = {} /\ faults = 0

Fault == faults < MaxFaults /\ faults' = faults + 1

Assign(slot, r) == run' = [run EXCEPT ![slot] = r]

-----------------------------------------------------------------------------
(* Each attempt of a handler calls strategy.handle afresh. *)
ReceiveWorkOrder(c) ==
  /\ Work!At(c, "handle") /\ run[<<"work", c>>] = NULL
  /\ \E r \in Request :
       LET p == payload[Work!MessageOf(c)] IN
       Queue!AddWorkOrder(r, p.workOrderId, p.details) /\ Assign(<<"work", c>>, r)
  /\ UNCHANGED <<workVars, sagaVars, payload, early, faults>>

CompensateProduction(c) ==
  /\ Saga!At(c, "handle") /\ run[<<"saga", c>>] = NULL
  /\ \E r \in Request :
       Queue!RemoveFromQueue(r, payload[Saga!MessageOf(c)].workOrderId)
         /\ Assign(<<"saga", c>>, r)
  /\ UNCHANGED <<workVars, sagaVars, payload, early, faults>>

(* How the request of an attempt stands; it has none while no statement    *)
(* of it has reached the database.                                         *)
Outcome(slot) == IF run[slot] = NULL THEN "unreached" ELSE pc[run[slot]]

(* A slip: an error of the database is caught and logged. *)
ReceiptSwallowsErrors(c) ==
  /\ Outcome(<<"work", c>>) \in Queue!Ended
  /\ Work!Succeed(c)
  /\ Assign(<<"work", c>>, NULL)
  /\ UNCHANGED <<queueVars, sagaVars, payload, early, faults>>

(* The attempt ends with its request.  It throws when the request failed,  *)
(* and it is a fault when the first statement does not reach the database, *)
(* or when what was committed is there but the answer is lost.             *)
ReceiptEnds(c) ==
  LET outcome == Outcome(<<"work", c>>) IN
  /\ \/ outcome = "done" /\ Work!Succeed(c) /\ UNCHANGED faults
     \/ outcome \in {"conflict", "failed"} /\ Work!Throw(c)
        /\ UNCHANGED <<faults, workApplied>>
     \/ outcome \in {"done", "unreached"} /\ Work!Throw(c) /\ Fault
        /\ (workApplied' # workApplied <=> outcome = "done")
  /\ Assign(<<"work", c>>, NULL)
  /\ UNCHANGED <<queueVars, sagaVars, payload, early>>

(* A slip: an error of the database is caught and logged. *)
CompensationSwallowsErrors(c) ==
  /\ Outcome(<<"saga", c>>) \in Queue!Ended \cup {"unreached"}
  /\ Saga!Succeed(c)
  /\ Assign(<<"saga", c>>, NULL)
  /\ UNCHANGED <<queueVars, workVars, payload, early, faults>>

CompensationEnds(c) ==
  LET outcome == Outcome(<<"saga", c>>) IN
  /\ \/ outcome = "done" /\ Saga!Succeed(c) /\ UNCHANGED faults
     \/ outcome \in {"done", "unreached"} /\ Saga!Throw(c) /\ Fault
        /\ (sagaApplied' # sagaApplied <=> outcome = "done")
  /\ Assign(<<"saga", c>>, NULL)
  /\ UNCHANGED <<queueVars, workVars, payload, early>>

(* What a consumer does without its strategy. *)
WorkConsumerStep ==
  /\ \/ \E m \in WorkOrderMessage : Work!Publish(m)
     \/ Work!Deliver \/ Work!ConsumeDlq
     \/ \E c \in Work!Channel : Work!Ack(c) \/ Work!Nack(c) \/ Work!Retry(c)
  /\ UNCHANGED <<queueVars, sagaVars, payload, run, early, faults>>

SagaConsumerStep ==
  /\ \/ Saga!Deliver \/ Saga!ConsumeDlq
     \/ \E c \in Saga!Channel : Saga!Ack(c) \/ Saga!Nack(c) \/ Saga!Retry(c)
  /\ UNCHANGED <<queueVars, workVars, payload, run, early, faults>>

(* The orchestrator compensates an order it has sent, perhaps before the   *)
(* order's message is settled here.                                        *)
PublishCompensation(m) ==
  /\ \A n \in About(payload[m].workOrderId) : Work!Published(n)
  /\ Saga!Publish(m)
  /\ early' = IF \A n \in About(payload[m].workOrderId) : Work!Settled(n)
              THEN early ELSE early \cup {m}
  /\ UNCHANGED <<queueVars, workVars, payload, run, faults>>

(* PATCH. *)
Patch ==
  /\ \E r \in Request, wo \in WorkOrder, status \in PatchStatus :
       Queue!ExecuteUpdate(r, wo, status)
  /\ UNCHANGED <<workVars, sagaVars, payload, run, early, faults>>

(* The next statement of a request, or its failure. *)
Statement(r) ==
  /\ Queue!Step(r)
  /\ IF pc'[r] = "failed" THEN Fault ELSE UNCHANGED faults
  /\ UNCHANGED <<workVars, sagaVars, payload, run, early>>

(* A consumer loses its connection, and its handler runs on. *)
LoseConnection ==
  /\ Fault
  /\ \/ Work!LoseConnection /\ UNCHANGED sagaVars
     \/ Saga!LoseConnection /\ UNCHANGED workVars
  /\ UNCHANGED <<queueVars, payload, run, early>>

(* The process stops: handlers and requests are gone, connections too. *)
Crash ==
  /\ Fault
  /\ Work!Crash /\ Saga!Crash
  /\ pc' = [r \in Request |-> IF pc[r] \in Queue!InFlight THEN "failed" ELSE pc[r]]
  /\ run' = [slot \in Slot |-> NULL]
  /\ UNCHANGED <<table, job, entity, loaded, published, disturbed, payload, early>>

Next ==
  \/ \E c \in Work!Channel :
       \/ ReceiveWorkOrder(c) \/ ReceiptEnds(c)
       \/ CompensateProduction(c) \/ CompensationEnds(c)
  \/ WorkConsumerStep \/ SagaConsumerStep
  \/ \E m \in SagaMessage : PublishCompensation(m)
  \/ \E r \in Request : Statement(r)
  \/ Patch \/ LoseConnection \/ Crash

Spec == Init /\ [][Next]_vars

-----------------------------------------------------------------------------
TypeOK ==
  /\ Queue!TypeOK /\ Work!TypeOK /\ Saga!TypeOK
  /\ payload \in [WorkOrderMessage \cup SagaMessage -> Payload]
  /\ run \in [Slot -> Request \cup {NULL}]
  /\ early \subseteq SagaMessage
  /\ faults \in 0 .. MaxFaults

Begun(kind, wo) ==
  {r \in Request : job[r] # NULL /\ job[r].kind = kind /\ job[r].workOrderId = wo}

(* A work order whose message was acknowledged is in the table, unless a   *)
(* compensation of it ran: no race with a PATCH, no conflict, retry, crash *)
(* or second delivery ends with an ack and no row.                         *)
AckedOrderIsKept ==
  \A m \in workAcked :
    LET wo == payload[m].workOrderId IN
    Queue!RowsOf(wo) # {} \/ Begun("remove", wo) # {}

(* No order is lost between the queue and the table: once its message is   *)
(* published it waits or is in hand, or the order came to the table, or    *)
(* the message is a dead letter and every attempt allowed at it failed.    *)
OrderIsAccountedFor ==
  \A m \in WorkOrderMessage :
    LET wo == payload[m].workOrderId
        DeadLetter == \/ Work!Within(workDlq, m)
                      \/ \E packet \in workDiscarded : packet.message = m
    IN
    Work!Published(m) =>
      \/ Work!Within(workMain, m) \/ Work!Held(m)
      \/ Queue!RowsOf(wo) # {} \/ Begun("remove", wo) # {}
      \/ DeadLetter /\ workFailures[m] >= MaxRetries

(* A compensation that was sent once the order's own messages were settled *)
(* holds from its ack on, although deliveries repeat and attempts fail:    *)
(* the order comes back only by a PATCH, or by a handler that outlived the *)
(* connection it was called from.                                          *)
CompensationHolds ==
  \A m \in sagaAcked \ early :
    LET wo == payload[m].workOrderId IN
    \/ Queue!RowsOf(wo) = {}
    \/ Begun("update", wo) # {}
    \/ workLosses > 0

(* A receipt puts an order on which work has begun back in the queue only  *)
(* if its message was delivered or attempted twice, or there are two, or   *)
(* the row was made by a PATCH before the message came.                    *)
ReceiptUndoesNoWork ==
  [][\A r, id \in Request :
       /\ pc'[r] # pc[r] /\ job'[r].kind = "add"
       /\ table[id] # NULL /\ table'[id] # NULL
       /\ table[id].status # "QUEUED" /\ table'[id].status = "QUEUED"
       => LET wo == table[id].workOrderId IN
          \/ workLosses > 0
          \/ \E m \in About(wo) : workFailures[m] > 0
          \/ \E m, n \in About(wo) : m # n
          \/ job[id].kind = "update"]_vars
=============================================================================
