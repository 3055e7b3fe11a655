------------------------ MODULE ProductionServiceProofs ------------------------
(***************************************************************************)
(* Proofs about the whole service: a step of ProductionService is a step   *)
(* of each part or leaves it alone, so the invariants of the parts hold of *)
(* it (QueueP, WorkP and SagaP are their proofs, of the instances named    *)
(* Queue, Work and Saga), and what ties the parts together is added here.  *)
(***************************************************************************)
EXTENDS ProductionService, Sequences, TLAPS

QueueP == INSTANCE LifecycleProofs

WorkP == INSTANCE RetryProofs WITH
  Message <- WorkOrderMessage, Republish <- FALSE,
  content <- workContent, arrival <- workArrival, main <- workMain, dlq <- workDlq,
  channel <- workChannel, handler <- workHandler, losses <- workLosses,
  applied <- workApplied, failures <- workFailures, acked <- workAcked,
  discarded <- workDiscarded

SagaP == INSTANCE RetryProofs WITH
  Message <- SagaMessage, Republish <- FALSE,
  content <- sagaContent, arrival <- sagaArrival, main <- sagaMain, dlq <- sagaDlq,
  channel <- sagaChannel, handler <- sagaHandler, losses <- sagaLosses,
  applied <- sagaApplied, failures <- sagaFailures, acked <- sagaAcked,
  discarded <- sagaDiscarded

LEMMA QueuePAssumptions == QueueP!NullAssumption /\ QueueP!NullRecordAssumption
  BY NullAssumption, NoRecordAssumption
  DEF QueueP!NullAssumption, QueueP!NullRecordAssumption, Row, QueueP!Row, Stamp, QueueP!Stamp,
      ProductionStatus, QueueP!ProductionStatus, Queue!Row, Queue!Stamp, Queue!ProductionStatus,
      Queue!Job, QueueP!Job, Queue!Item, QueueP!Item

LEMMA WorkPAssumptions == WorkP!ConsumerAssumption /\ WorkP!NoHandlerAssumption
  BY BoundAssumption, NoRecordAssumption
  DEF WorkP!ConsumerAssumption, WorkP!NoHandlerAssumption, Work!Handler, WorkP!Handler,
      Work!Packet, WorkP!Packet

LEMMA SagaPAssumptions == SagaP!ConsumerAssumption /\ SagaP!NoHandlerAssumption
  BY BoundAssumption, NoRecordAssumption
  DEF SagaP!ConsumerAssumption, SagaP!NoHandlerAssumption, Saga!Handler, SagaP!Handler,
      Saga!Packet, SagaP!Packet

-----------------------------------------------------------------------------
(* The definitions of an instance and of its proofs are the same. *)
LEMMA WorkSame == [Work!Next]_(Work!vars) => [WorkP!Next]_(WorkP!vars)
  BY DEF Work!Next, WorkP!Next, Work!Publish, WorkP!Publish,
         Work!Deliver, WorkP!Deliver, Work!Run, WorkP!Run,
         Work!HandleEnds, WorkP!HandleEnds, Work!Answer, WorkP!Answer,
         Work!Succeed, WorkP!Succeed, Work!Throw, WorkP!Throw,
         Work!Refuse, WorkP!Refuse, Work!Ack, WorkP!Ack, Work!Nack, WorkP!Nack,
         Work!Retry, WorkP!Retry, Work!LoseConnection, WorkP!LoseConnection,
         Work!Crash, WorkP!Crash, Work!LoseChannel, WorkP!LoseChannel,
         Work!ConsumeDlq, WorkP!ConsumeDlq, Work!LoseDlqAck, WorkP!LoseDlqAck,
         Work!Idle, WorkP!Idle, Work!At, WorkP!At, Work!Reach, WorkP!Reach,
         Work!EndHandler, WorkP!EndHandler, Work!MessageOf, WorkP!MessageOf,
         Work!HasHandler, WorkP!HasHandler, Work!Published, WorkP!Published,
         Work!Channel, WorkP!Channel, Work!vars, WorkP!vars, Work!history, WorkP!history

LEMMA SagaSame == [Saga!Next]_(Saga!vars) => [SagaP!Next]_(SagaP!vars)
  BY DEF Saga!Next, SagaP!Next, Saga!Publish, SagaP!Publish,
         Saga!Deliver, SagaP!Deliver, Saga!Run, SagaP!Run,
         Saga!HandleEnds, SagaP!HandleEnds, Saga!Answer, SagaP!Answer,
         Saga!Succeed, SagaP!Succeed, Saga!Throw, SagaP!Throw,
         Saga!Refuse, SagaP!Refuse, Saga!Ack, SagaP!Ack, Saga!Nack, SagaP!Nack,
         Saga!Retry, SagaP!Retry, Saga!LoseConnection, SagaP!LoseConnection,
         Saga!Crash, SagaP!Crash, Saga!LoseChannel, SagaP!LoseChannel,
         Saga!ConsumeDlq, SagaP!ConsumeDlq, Saga!LoseDlqAck, SagaP!LoseDlqAck,
         Saga!Idle, SagaP!Idle, Saga!At, SagaP!At, Saga!Reach, SagaP!Reach,
         Saga!EndHandler, SagaP!EndHandler, Saga!MessageOf, SagaP!MessageOf,
         Saga!HasHandler, SagaP!HasHandler, Saga!Published, SagaP!Published,
         Saga!Channel, SagaP!Channel, Saga!vars, SagaP!vars, Saga!history, SagaP!history

LEMMA StepSame == \A r \in Request : Queue!Step(r) => QueueP!Step(r)
  BY DEF Queue!Step, QueueP!Step, Queue!FindAny, QueueP!FindAny,
         Queue!FindItem, QueueP!FindItem, Queue!Reload, QueueP!Reload,
         Queue!Insert, QueueP!Insert, Queue!InsertConflict, QueueP!InsertConflict,
         Queue!UpdateChanged, QueueP!UpdateChanged, Queue!Notify, QueueP!Notify,
         Queue!Fail, QueueP!Fail, Queue!RowsOf, QueueP!RowsOf, Queue!Save, QueueP!Save,
         Queue!Goto, QueueP!Goto, Queue!Requeued, QueueP!Requeued,
         Queue!NewlyQueued, QueueP!NewlyQueued, Queue!Coalesce, QueueP!Coalesce,
         Queue!Updated, QueueP!Updated, Queue!NewWithStatus, QueueP!NewWithStatus,
         Queue!AfterSave, QueueP!AfterSave, Queue!ViolatesUnique, QueueP!ViolatesUnique,
         Queue!InsertedId, QueueP!InsertedId, Queue!Write, QueueP!Write,
         Queue!InFlight, QueueP!InFlight, Queue!ChangedColumns, QueueP!ChangedColumns,
         Queue!WorkOrderStatus, QueueP!WorkOrderStatus

LEMMA StartSame ==
  ASSUME NEW r \in Request, NEW wo
  PROVE  /\ \A d : Queue!AddWorkOrder(r, wo, d) => QueueP!AddWorkOrder(r, wo, d)
         /\ \A status : Queue!ExecuteUpdate(r, wo, status) => QueueP!ExecuteUpdate(r, wo, status)
         /\ Queue!RemoveFromQueue(r, wo) => QueueP!RemoveFromQueue(r, wo)
  BY DEF Queue!AddWorkOrder, QueueP!AddWorkOrder,
         Queue!ExecuteUpdate, QueueP!ExecuteUpdate,
         Queue!RemoveFromQueue, QueueP!RemoveFromQueue, Queue!Begin, QueueP!Begin,
         Queue!Goto, QueueP!Goto, Queue!RowsOf, QueueP!RowsOf,
         Queue!Rejects, QueueP!Rejects, Queue!StatusOrder, QueueP!StatusOrder,
         Queue!Write, QueueP!Write, Queue!InFlight, QueueP!InFlight

-----------------------------------------------------------------------------
(* What a step of the service does to the table and its handlers: a        *)
(* statement, or the end of the process.                                   *)
Halt ==
  /\ pc' = [r \in Request |-> IF pc[r] \in Queue!InFlight THEN "failed" ELSE pc[r]]
  /\ UNCHANGED <<table, job, entity, loaded, published, disturbed>>

QueueMove ==
  \/ \E r \in Request, wo \in WorkOrder : QueueP!Start(r, wo)
  \/ \E r \in Request : QueueP!Step(r)
  \/ Halt
  \/ UNCHANGED queueVars

LEMMA HaltInv == QueueP!Inv /\ Halt => QueueP!Inv'
  <1> SUFFICES ASSUME QueueP!Inv, Halt PROVE QueueP!Inv'
    OBVIOUS
  <1>1. \A r \in Request : 
          \/ pc'[r] = pc[r]
          \/ pc'[r] = "failed" /\ pc[r] \in Queue!InFlight
    BY DEF Halt
  <1>2. QueueP!TypeOK'
    BY DEF Halt, QueueP!Inv, QueueP!TypeOK, Queue!InFlight, QueueP!InFlight, QueueP!Ended
  <1>3. \A r \in Request : QueueP!Control(r)'
    BY <1>1 DEF Halt, QueueP!Inv, QueueP!Control, Queue!InFlight
  <1>4. (\A r \in Request : QueueP!Copy(r)') /\ QueueP!RowIdentity' /\ QueueP!OneRowPerWorkOrder'
    BY DEF Halt, QueueP!Inv, QueueP!Copy, QueueP!RowIdentity, QueueP!OneRowPerWorkOrder,
           QueueP!RowsOf
  <1> QED BY <1>2, <1>3, <1>4 DEF QueueP!Inv

LEMMA MoveInv == QueueP!Inv /\ QueueMove => QueueP!Inv'
  <1> SUFFICES ASSUME QueueP!Inv, QueueMove PROVE QueueP!Inv'
    OBVIOUS
  <1>1. CASE ~Halt
    <2>1. [QueueP!Next]_(QueueP!vars)
      BY <1>1 DEF QueueMove, QueueP!Next, QueueP!vars, queueVars
    <2> QED BY <2>1, QueueP!InvStep, QueuePAssumptions
  <1> QED BY <1>1, HaltInv

Typed ==
  /\ payload \in [WorkOrderMessage \cup SagaMessage -> Payload]
  /\ run \in [Slot -> Request \cup {NULL}]
  /\ early \subseteq SagaMessage
  /\ faults \in 0 .. MaxFaults

PartsInv == QueueP!Inv /\ WorkP!Inv /\ SagaP!Inv /\ Typed

(* A handler is about a message of its queue, and so about a work order. *)
LEMMA WorkPayload ==
  ASSUME WorkP!Inv, Typed, NEW c \in Work!Channel, workHandler[c] # NULL
  PROVE  /\ Work!MessageOf(c) \in WorkOrderMessage
         /\ payload[Work!MessageOf(c)].workOrderId \in WorkOrder
         /\ payload[Work!MessageOf(c)].details \in Details \cup {NULL}
  <1>1. Work!MessageOf(c) \in WorkOrderMessage
    BY DEF WorkP!Inv, WorkP!TypeOK, WorkP!Handler, WorkP!Packet, Work!Channel, WorkP!Channel,
           Work!MessageOf
  <1> QED BY <1>1 DEF Typed, Payload

LEMMA SagaPayload ==
  ASSUME SagaP!Inv, Typed, NEW c \in Work!Channel, sagaHandler[c] # NULL
  PROVE  /\ Saga!MessageOf(c) \in SagaMessage
         /\ payload[Saga!MessageOf(c)].workOrderId \in WorkOrder
  <1>1. Saga!MessageOf(c) \in SagaMessage
    BY DEF SagaP!Inv, SagaP!TypeOK, SagaP!Handler, SagaP!Packet, Work!Channel, SagaP!Channel,
           Saga!MessageOf
  <1> QED BY <1>1 DEF Typed, Payload

LEMMA QueueMoves ==
  ASSUME PartsInv, [Next]_vars
  PROVE  QueueMove
  <1> USE DEF PartsInv
  <1>1. ASSUME NEW c \in Work!Channel, ReceiveWorkOrder(c) PROVE QueueMove
    <2>1. PICK r \in Request :
            Queue!AddWorkOrder(r, payload[Work!MessageOf(c)].workOrderId,
                               payload[Work!MessageOf(c)].details)
      BY <1>1 DEF ReceiveWorkOrder
    <2>2. workHandler[c] # NULL
      BY <1>1 DEF ReceiveWorkOrder, Work!At
    <2> QED BY <2>1, <2>2, WorkPayload, StartSame DEF QueueMove, QueueP!Start
  <1>2. ASSUME NEW c \in Work!Channel, CompensateProduction(c) PROVE QueueMove
    <2>1. PICK r \in Request :
            Queue!RemoveFromQueue(r, payload[Saga!MessageOf(c)].workOrderId)
      BY <1>2 DEF CompensateProduction
    <2>2. sagaHandler[c] # NULL
      BY <1>2 DEF CompensateProduction, Saga!At
    <2> QED BY <2>1, <2>2, SagaPayload, StartSame DEF QueueMove, QueueP!Start
  <1>3. CASE Patch
    BY <1>3, StartSame, BoundAssumption
    DEF Patch, QueueMove, QueueP!Start, QueueP!ProductionStatus, ProductionStatus
  <1>4. ASSUME NEW r \in Request, Statement(r) PROVE QueueMove
    BY <1>4, StepSame DEF Statement, QueueMove
  <1>5. CASE Crash
    BY <1>5 DEF Crash, QueueMove, Halt
  <1>6. UNCHANGED queueVars => QueueMove
    BY DEF QueueMove
  <1> QED
    BY <1>1, <1>2, <1>3, <1>4, <1>5, <1>6
    DEF Next, vars, ReceiptEnds, CompensationEnds, WorkConsumerStep, SagaConsumerStep,
        PublishCompensation, LoseConnection

LEMMA WorkMoves ==
  ASSUME [Next]_vars
  PROVE  [Work!Next]_(Work!vars)
  <1>1. UNCHANGED workVars => UNCHANGED Work!vars
    BY DEF workVars, Work!vars
  <1>2. ASSUME NEW c \in Work!Channel, ReceiptEnds(c) PROVE Work!Next
    BY <1>2 DEF ReceiptEnds, Work!Next, Work!Run, Work!HandleEnds
  <1>3. WorkConsumerStep => Work!Next
    BY DEF WorkConsumerStep, Work!Next, Work!Run, Work!Answer
  <1>4. Crash => Work!Next
    BY DEF Crash, Work!Next
  <1>5. LoseConnection => Work!Next \/ UNCHANGED workVars
    BY DEF LoseConnection, Work!Next
  <1> QED
    BY <1>1, <1>2, <1>3, <1>4, <1>5
    DEF Next, vars, ReceiveWorkOrder, CompensateProduction, CompensationEnds, SagaConsumerStep,
        PublishCompensation, Statement, Patch

LEMMA SagaMoves ==
  ASSUME [Next]_vars
  PROVE  [Saga!Next]_(Saga!vars)
  <1>1. UNCHANGED sagaVars => UNCHANGED Saga!vars
    BY DEF sagaVars, Saga!vars
  <1>2. ASSUME NEW c \in Work!Channel, CompensationEnds(c) PROVE Saga!Next
    BY <1>2 DEF CompensationEnds, Saga!Next, Saga!Run, Saga!HandleEnds, Saga!Channel, Work!Channel
  <1>3. SagaConsumerStep => Saga!Next
    BY DEF SagaConsumerStep, Saga!Next, Saga!Run, Saga!Answer
  <1>4. Crash => Saga!Next
    BY DEF Crash, Saga!Next
  <1>5. LoseConnection => Saga!Next \/ UNCHANGED sagaVars
    BY DEF LoseConnection, Saga!Next
  <1>6. ASSUME NEW m \in SagaMessage, PublishCompensation(m) PROVE Saga!Next
    BY <1>6 DEF PublishCompensation, Saga!Next
  <1> QED
    BY <1>1, <1>2, <1>3, <1>4, <1>5, <1>6
    DEF Next, vars, ReceiveWorkOrder, CompensateProduction, ReceiptEnds, WorkConsumerStep,
        Statement, Patch

LEMMA TypedStep ==
  ASSUME Typed, [Next]_vars
  PROVE  Typed'
  <1>1. UNCHANGED payload
    BY DEF Next, vars, ReceiveWorkOrder, CompensateProduction, ReceiptEnds, CompensationEnds,
           WorkConsumerStep, SagaConsumerStep, PublishCompensation, Statement, Patch,
           LoseConnection, Crash
  <1>2. UNCHANGED early \/ \E m \in SagaMessage : early' = early \cup {m}
    BY DEF Next, vars, ReceiveWorkOrder, CompensateProduction, ReceiptEnds, CompensationEnds,
           WorkConsumerStep, SagaConsumerStep, PublishCompensation, Statement, Patch,
           LoseConnection, Crash
  <1>3. UNCHANGED faults \/ Fault
    BY DEF Next, vars, ReceiveWorkOrder, CompensateProduction, ReceiptEnds, CompensationEnds,
           WorkConsumerStep, SagaConsumerStep, PublishCompensation, Statement, Patch,
           LoseConnection, Crash
  <1>4. run' \in [Slot -> Request \cup {NULL}]
    <2>1. \/ UNCHANGED run
          \/ \E slot \in Slot, r \in Request \cup {NULL} : Assign(slot, r)
          \/ run' = [slot \in Slot |-> NULL]
      BY DEF Next, vars, ReceiveWorkOrder, CompensateProduction, ReceiptEnds, CompensationEnds,
             WorkConsumerStep, SagaConsumerStep, PublishCompensation, Statement, Patch,
             LoseConnection, Crash, Slot
    <2> QED BY <2>1 DEF Typed, Assign
  <1> QED BY <1>1, <1>2, <1>3, <1>4, BoundAssumption DEF Typed, Fault

LEMMA PartsStep == PartsInv /\ [Next]_vars => PartsInv'
  <1> SUFFICES ASSUME PartsInv, [Next]_vars PROVE PartsInv'
    OBVIOUS
  <1>1. QueueP!Inv'
    BY QueueMoves, MoveInv DEF PartsInv
  <1>2. WorkP!Inv'
    <2>1. [WorkP!Next]_(WorkP!vars)
      BY WorkMoves, WorkSame
    <2> QED BY <2>1, WorkP!InvStep, WorkPAssumptions DEF PartsInv
  <1>3. SagaP!Inv'
    <2>1. [SagaP!Next]_(SagaP!vars)
      BY SagaMoves, SagaSame
    <2> QED BY <2>1, SagaP!InvStep, SagaPAssumptions DEF PartsInv
  <1> QED BY <1>1, <1>2, <1>3, TypedStep DEF PartsInv

-----------------------------------------------------------------------------
(* A work order whose receipt took effect: it has a row, or a compensation *)
(* of it ran.                                                              *)
Kept(wo) == QueueP!RowsOf(wo) # {} \/ Begun("remove", wo) # {}

(* A receipt that found or wrote a row. *)
Receipts ==
  \A r \in Request :
    pc[r] \in {"reload", "update", "done"} /\ job[r].kind = "add" => Kept(job[r].workOrderId)

LEMMA Begins ==
  ASSUME QueueP!Inv, NEW r \in Request, NEW wo \in WorkOrder, QueueP!Start(r, wo)
  PROVE  \E request \in QueueP!Job, label \in QueueP!InFlight \cup QueueP!Ended :
           /\ job[r] = NULL /\ request.workOrderId = wo
           /\ job' = [job EXCEPT ![r] = request] /\ pc' = [pc EXCEPT ![r] = label]
           /\ UNCHANGED <<entity, loaded>>
           /\ \/ request.kind = "remove" /\ label = "done"
              \/ /\ UNCHANGED table
                 /\ \/ request.kind = "update" /\ label \in {"rejected", "findItem"}
                    \/ /\ request.kind = "add"
                       /\ \/ label = "findAny"
                          \/ label = "done" /\ QueueP!RowsOf(wo) # {}
  <1>1. pc[r] = "idle" /\ job[r] = NULL
    BY DEF QueueP!Start, QueueP!AddWorkOrder, QueueP!ExecuteUpdate, QueueP!RemoveFromQueue,
           QueueP!Begin, QueueP!Inv, QueueP!Control
  <1>2. ASSUME NEW d \in Details \cup {NULL}, QueueP!AddWorkOrder(r, wo, d)
        PROVE  /\ job' = [job EXCEPT ![r] = [kind |-> "add", workOrderId |-> wo, details |-> d]]
               /\ [kind |-> "add", workOrderId |-> wo, details |-> d] \in QueueP!Job
               /\ \E label : /\ pc' = [pc EXCEPT ![r] = label]
                             /\ \/ label = "findAny"
                                \/ label = "done" /\ QueueP!RowsOf(wo) # {}
               /\ UNCHANGED <<table, entity, loaded>>
    BY <1>2 DEF QueueP!AddWorkOrder, QueueP!Begin, QueueP!Goto, QueueP!Job
  <1>3. ASSUME NEW status \in QueueP!ProductionStatus, QueueP!ExecuteUpdate(r, wo, status)
        PROVE  /\ job' = [job EXCEPT ![r] = [kind |-> "update", workOrderId |-> wo, status |-> status]]
               /\ [kind |-> "update", workOrderId |-> wo, status |-> status] \in QueueP!Job
               /\ \E label \in {"rejected", "findItem"} : pc' = [pc EXCEPT ![r] = label]
               /\ UNCHANGED <<table, entity, loaded>>
    BY <1>3 DEF QueueP!ExecuteUpdate, QueueP!Begin, QueueP!Goto, QueueP!Job
  <1>4. ASSUME QueueP!RemoveFromQueue(r, wo)
        PROVE  /\ job' = [job EXCEPT ![r] = [kind |-> "remove", workOrderId |-> wo]]
               /\ [kind |-> "remove", workOrderId |-> wo] \in QueueP!Job
               /\ pc' = [pc EXCEPT ![r] = "done"]
               /\ UNCHANGED <<entity, loaded>>
    BY <1>4 DEF QueueP!RemoveFromQueue, QueueP!Begin, QueueP!Goto, QueueP!Job
  <1> QED
    BY <1>1, <1>2, <1>3, <1>4 DEF QueueP!Start, QueueP!InFlight, QueueP!Ended

(* What a request asks stays as it is. *)
LEMMA JobsStay ==
  ASSUME QueueP!Inv, QueueMove, NEW r \in Request, job[r] # NULL
  PROVE  job'[r] = job[r]
  <1>1. job \in [Request -> QueueP!Job \cup {NULL}]
    BY DEF QueueP!Inv, QueueP!TypeOK
  <1>2. ASSUME NEW q \in Request, NEW wo \in WorkOrder, QueueP!Start(q, wo)
        PROVE  job'[r] = job[r]
    BY <1>1, <1>2, Begins
  <1>3. (\E q \in Request : QueueP!Step(q)) => UNCHANGED job
    BY DEF QueueP!Step, QueueP!FindAny, QueueP!FindItem, QueueP!Reload, QueueP!Insert,
           QueueP!InsertConflict, QueueP!UpdateChanged, QueueP!Notify, QueueP!Fail
  <1> QED BY <1>2, <1>3 DEF QueueMove, Halt, queueVars

LEMMA BegunGrows ==
  ASSUME QueueP!Inv, QueueMove, NEW kind, NEW wo
  PROVE  Begun(kind, wo) # {} => Begun(kind, wo)' # {}
  <1> SUFFICES ASSUME NEW r \in Begun(kind, wo) PROVE r \in Begun(kind, wo)'
    OBVIOUS
  <1> QED BY JobsStay DEF Begun

(* No statement takes a row from its work order; a compensation deletes    *)
(* only those of its own.                                                  *)
LEMMA RowsStay ==
  ASSUME QueueP!Inv, QueueMove, NEW wo, NEW id \in QueueP!RowsOf(wo)
  PROVE  id \in QueueP!RowsOf(wo)' \/ Begun("remove", wo)' # {}
  <1>1. /\ id \in Request /\ table[id] # NULL /\ table[id].workOrderId = wo
        /\ table \in [Request -> QueueP!Row \cup {NULL}]
        /\ job \in [Request -> QueueP!Job \cup {NULL}]
    BY DEF QueueP!RowsOf, QueueP!Inv, QueueP!TypeOK
  <1>2. CASE UNCHANGED table
    BY <1>1, <1>2 DEF QueueP!RowsOf
  <1>3. ASSUME NEW r \in Request, NEW wo2 \in WorkOrder, QueueP!RemoveFromQueue(r, wo2)
        PROVE  id \in QueueP!RowsOf(wo)' \/ Begun("remove", wo)' # {}
    <2>1. \/ UNCHANGED table
          \/ \E id2 \in QueueP!RowsOf(wo2) : table' = [table EXCEPT ![id2] = NULL]
      BY <1>3 DEF QueueP!RemoveFromQueue, QueueP!Write
    <2>2. CASE wo2 = wo
      <3>1. job'[r] = [kind |-> "remove", workOrderId |-> wo]
        BY <1>1, <1>3, <2>2 DEF QueueP!RemoveFromQueue, QueueP!Begin
      <3>2. job'[r] # NULL
        <4>1. job'[r] \in QueueP!Job
          BY <1>3, <2>2, <3>1 DEF QueueP!Job
        <4> QED BY <4>1, QueuePAssumptions DEF QueueP!NullRecordAssumption
      <3> QED BY <3>1, <3>2 DEF Begun
    <2>3. CASE wo2 # wo
      <3>1. table'[id] = table[id]
        BY <1>1, <2>1, <2>3 DEF QueueP!RowsOf
      <3> QED BY <1>1, <3>1 DEF QueueP!RowsOf
    <2> QED BY <2>2, <2>3
  <1>4. ASSUME NEW r \in Request, QueueP!Insert(r)
        PROVE  id \in QueueP!RowsOf(wo)'
    <2>1. PICK new \in Request : new = QueueP!InsertedId(r)
      BY <1>4
      DEF QueueP!Insert, QueueP!InsertedId, QueueP!Coalesce, QueueP!Inv, QueueP!TypeOK,
          QueueP!Item, QueueP!Control
    <2> QED BY <1>1, <1>4 DEF QueueP!Insert, QueueP!ViolatesUnique, QueueP!Write, QueueP!RowsOf
  <1>5. ASSUME NEW r \in Request, QueueP!UpdateChanged(r)
        PROVE  id \in QueueP!RowsOf(wo)'
    <2>1. CASE UNCHANGED table
      BY <1>1, <2>1 DEF QueueP!RowsOf
    <2>2. CASE table[entity[r].id] # NULL
      <3>1. table' = [table EXCEPT ![entity[r].id] =
                        QueueP!ChangedColumns(table[entity[r].id], loaded[r], entity[r].row)]
        BY <1>5, <2>2 DEF QueueP!UpdateChanged, QueueP!Write
      <3>2. table'[id] = table[id] \/ entity[r].id = id
        BY <1>1, <3>1
      <3>3. CASE entity[r].id = id
        <4>1. table'[id] = QueueP!ChangedColumns(table[id], loaded[r], entity[r].row)
          BY <1>1, <3>1, <3>3
        <4>2. table'[id].workOrderId = wo
          BY <1>1, <4>1 DEF QueueP!ChangedColumns
        <4>3. table'[id] # NULL
          <5>1. QueueP!TypeOK'
            BY MoveInv DEF QueueP!Inv
          <5>2. /\ table[id] \in QueueP!Row /\ entity[r].row \in QueueP!Row
                /\ loaded[r] \in QueueP!Row
            BY <1>1, <1>5 DEF QueueP!Inv, QueueP!TypeOK, QueueP!Control, QueueP!UpdateChanged,
                   QueueP!Item
          <5>3. QueueP!ChangedColumns(table[id], loaded[r], entity[r].row) \in QueueP!Row
            BY <5>2, QueueP!ChangedColumnsType, QueuePAssumptions
          <5> QED BY <4>1, <5>3, QueuePAssumptions DEF QueueP!NullAssumption
        <4> QED BY <1>1, <4>2, <4>3 DEF QueueP!RowsOf
      <3> QED BY <1>1, <3>2, <3>3 DEF QueueP!RowsOf
    <2> QED BY <1>5, <2>1, <2>2 DEF QueueP!UpdateChanged
  <1> QED
    BY <1>2, <1>3, <1>4, <1>5
    DEF QueueMove, Halt, queueVars, QueueP!Start, QueueP!AddWorkOrder, QueueP!ExecuteUpdate,
        QueueP!Step, QueueP!FindAny, QueueP!FindItem, QueueP!Reload, QueueP!InsertConflict,
        QueueP!Notify, QueueP!Fail

LEMMA KeptStays ==
  ASSUME QueueP!Inv, QueueMove, NEW wo, Kept(wo)
  PROVE  Kept(wo)'
  BY RowsStay, BegunGrows DEF Kept

LEMMA ReceiptsStep ==
  ASSUME QueueP!Inv, Receipts, QueueMove
  PROVE  Receipts'
  <1> SUFFICES ASSUME NEW r \in Request, pc'[r] \in {"reload", "update", "done"},
                      job'[r].kind = "add", NEW wo, job'[r].workOrderId = wo
               PROVE  Kept(wo)'
    BY DEF Receipts, Kept, Begun, QueueP!RowsOf
  <1>1. /\ pc \in [Request -> {"idle"} \cup QueueP!InFlight \cup QueueP!Ended]
        /\ job \in [Request -> QueueP!Job \cup {NULL}]
    BY DEF QueueP!Inv, QueueP!TypeOK
  <1>2. CASE pc'[r] = pc[r]
    <2>1. job[r] # NULL
      BY <1>2 DEF QueueP!Inv, QueueP!Control
    <2>2. job'[r] = job[r]
      BY <2>1, JobsStay
    <2>3. Kept(wo)
      BY <1>2, <2>2 DEF Receipts
    <2> QED BY <2>2, <2>3, KeptStays
  <1>3. CASE pc'[r] # pc[r]
    <2>1. ASSUME NEW q \in Request, NEW wo2 \in WorkOrder, QueueP!Start(q, wo2)
          PROVE  Kept(wo)'
      <3>1. PICK request \in QueueP!Job, label \in QueueP!InFlight \cup QueueP!Ended :
              /\ request.workOrderId = wo2
              /\ job' = [job EXCEPT ![q] = request] /\ pc' = [pc EXCEPT ![q] = label]
              /\ \/ request.kind = "remove" /\ label = "done"
                 \/ request.kind = "update" /\ label \in {"rejected", "findItem"}
                 \/ /\ request.kind = "add"
                    /\ \/ label = "findAny"
                       \/ label = "done" /\ QueueP!RowsOf(wo2) # {}
        BY <2>1, Begins
      <3>2. r = q /\ job'[r] = request /\ pc'[r] = label
        BY <1>1, <1>3, <3>1
      <3>3. Kept(wo)
        BY <3>1, <3>2 DEF Kept
      <3> QED BY <3>1, <3>2, <3>3, KeptStays
    <2>2. ASSUME NEW q \in Request, QueueP!Step(q)
          PROVE  Kept(wo)'
      <3>1. /\ pc' = [pc EXCEPT ![q] = pc'[q]] /\ UNCHANGED job
        BY <1>1, <2>2
        DEF QueueP!Step, QueueP!FindAny, QueueP!FindItem, QueueP!Reload, QueueP!Insert,
            QueueP!InsertConflict, QueueP!UpdateChanged, QueueP!Notify, QueueP!Fail,
            QueueP!Save, QueueP!Goto
      <3>2. r = q
        BY <1>1, <1>3, <3>1
      <3>3. QueueP!Control(r) /\ QueueP!Copy(r) /\ job[r].kind = "add"
            /\ job[r].workOrderId = wo
        BY <3>1 DEF QueueP!Inv
      <3>4. CASE QueueP!FindAny(r)
        <4>1. QueueP!RowsOf(wo) # {}
          BY <1>1, <3>3, <3>4 DEF QueueP!FindAny, QueueP!Save, QueueP!Goto
        <4> QED BY <4>1, KeptStays DEF Kept
      <3>5. CASE QueueP!Reload(r) \/ QueueP!UpdateChanged(r)
        <4>1. Kept(wo)
          BY <3>3, <3>5 DEF QueueP!Reload, QueueP!UpdateChanged, Receipts
        <4> QED BY <4>1, KeptStays
      <3>6. CASE QueueP!Insert(r)
        <4>1. PICK new \in Request : new = QueueP!InsertedId(r)
          BY <3>3, <3>6
          DEF QueueP!Insert, QueueP!InsertedId, QueueP!Coalesce, QueueP!Inv, QueueP!TypeOK,
              QueueP!Item, QueueP!Control
        <4>2. entity[r] \in QueueP!Item /\ entity[r].row.workOrderId = wo
          BY <3>3, <3>6
          DEF QueueP!Insert, QueueP!Control, QueueP!Copy, QueueP!Inv, QueueP!TypeOK
        <4>3. table'[new] = entity[r].row
          BY <3>6, <4>1 DEF QueueP!Insert, QueueP!Write, QueueP!Inv, QueueP!TypeOK
        <4>4. table'[new] # NULL
          BY <4>2, <4>3, QueuePAssumptions DEF QueueP!Item, QueueP!NullAssumption
        <4>5. new \in QueueP!RowsOf(wo)'
          BY <3>1, <4>2, <4>3, <4>4 DEF QueueP!RowsOf
        <4> QED BY <4>5 DEF Kept
      <3> QED
        BY <1>1, <2>2, <3>2, <3>3, <3>4, <3>5, <3>6
        DEF QueueP!Step, QueueP!FindItem, QueueP!InsertConflict, QueueP!Notify, QueueP!Fail,
            QueueP!Goto, QueueP!Control
    <2> QED BY <1>3, <2>1, <2>2 DEF QueueMove, Halt, queueVars
  <1> QED BY <1>2, <1>3

-----------------------------------------------------------------------------
(* The request of an attempt is a receipt of the handler's work order. *)
Attempts ==
  \A c \in Work!Channel :
    LET r == run[<<"work", c>>] IN
    r # NULL =>
      /\ Work!At(c, "handle")
      /\ job[r] # NULL /\ job[r].kind = "add"
      /\ job[r].workOrderId = payload[Work!MessageOf(c)].workOrderId

(* A handler about to acknowledge has had its effect. *)
Earned ==
  \A c \in Work!Channel :
    Work!At(c, "handled") => Kept(payload[Work!MessageOf(c)].workOrderId)

Acked == \A m \in workAcked : Kept(payload[m].workOrderId)

AckInv == PartsInv /\ Receipts /\ Attempts /\ Earned /\ Acked

(* The consumer stands still: what it knows of the table stays true. *)
LEMMA AckStill ==
  ASSUME AckInv, QueueMove, UNCHANGED <<workHandler, workAcked, payload>>,
         \A c \in Work!Channel :
           run'[<<"work", c>>] = run[<<"work", c>>] \/ run'[<<"work", c>>] = NULL
  PROVE  Attempts' /\ Earned' /\ Acked'
  <1> USE DEF AckInv, PartsInv
  <1>1. \A wo : Kept(wo) => Kept(wo)'
    BY KeptStays
  <1>2. Earned' /\ Acked'
    <2>1. ASSUME NEW c \in Work!Channel, NEW wo, Work!At(c, "handled"),
                 wo = payload[Work!MessageOf(c)].workOrderId
          PROVE  Kept(wo)'
      BY <1>1, <2>1 DEF Earned
    <2>2. Earned'
      BY <2>1 DEF Earned, Work!At, Work!MessageOf, Kept, Begun, QueueP!RowsOf
    <2>3. ASSUME NEW m \in workAcked, NEW wo, wo = payload[m].workOrderId
          PROVE  Kept(wo)'
      BY <1>1, <2>3 DEF Acked
    <2>4. Acked'
      BY <2>3 DEF Acked, Kept, Begun, QueueP!RowsOf
    <2> QED BY <2>2, <2>4
  <1>3. \A r \in Request : job[r] # NULL => job'[r] = job[r]
    BY JobsStay
  <1>4. \A c \in Work!Channel : run[<<"work", c>>] \in Request \cup {NULL}
    BY DEF Typed, Slot
  <1>5. Attempts'
    BY <1>3, <1>4 DEF Attempts, Work!At, Work!MessageOf
  <1> QED BY <1>2, <1>5

(* The table stands still: the consumer answers only for what has had its  *)
(* effect, and an attempt under way keeps its handler.                     *)
LEMMA AckMoves ==
  ASSUME AckInv, UNCHANGED <<queueVars, payload>>,
         \A c \in Work!Channel :
           run'[<<"work", c>>] # NULL =>
             run'[<<"work", c>>] = run[<<"work", c>>] /\ workHandler'[c] = workHandler[c],
         \A c \in Work!Channel :
           workHandler'[c] # NULL /\ workHandler'[c].at = "handled" =>
             Kept(payload[workHandler'[c].packet.message].workOrderId),
         \A m \in workAcked' : Kept(payload[m].workOrderId)
  PROVE  Attempts' /\ Earned' /\ Acked'
  <1>1. UNCHANGED <<table, job, payload>>
    BY DEF queueVars
  <1>2. Attempts'
    BY <1>1 DEF AckInv, Attempts, Work!At, Work!MessageOf
  <1>3. Earned' /\ Acked'
    BY <1>1 DEF Earned, Acked, Kept, Begun, QueueP!RowsOf, Work!At, Work!MessageOf
  <1> QED BY <1>2, <1>3

LEMMA AckReceive ==
  ASSUME AckInv, NEW c \in Work!Channel, ReceiveWorkOrder(c)
  PROVE  Attempts' /\ Earned' /\ Acked'
  <1> USE DEF AckInv, PartsInv
  <1>1. PICK r \in Request :
          /\ Queue!AddWorkOrder(r, payload[Work!MessageOf(c)].workOrderId,
                                payload[Work!MessageOf(c)].details)
          /\ run' = [run EXCEPT ![<<"work", c>>] = r]
    BY DEF ReceiveWorkOrder, Assign
  <1>2. /\ Work!At(c, "handle") /\ workHandler[c] # NULL
        /\ UNCHANGED <<workHandler, workAcked, payload>>
        /\ run \in [Slot -> Request \cup {NULL}] /\ <<"work", c>> \in Slot
    BY DEF ReceiveWorkOrder, workVars, Work!At, Typed, Slot
  <1>3. PICK wo \in WorkOrder, d \in Details \cup {NULL} :
          /\ wo = payload[Work!MessageOf(c)].workOrderId
          /\ QueueP!AddWorkOrder(r, wo, d)
    BY <1>1, <1>2, WorkPayload, StartSame
  <1>4. QueueMove
    BY <1>3 DEF QueueMove, QueueP!Start
  <1>5. job'[r] # NULL /\ job'[r].kind = "add" /\ job'[r].workOrderId = wo
    <2>1. job'[r] = [kind |-> "add", workOrderId |-> wo, details |-> d]
      BY <1>3 DEF QueueP!AddWorkOrder, QueueP!Begin, QueueP!Inv, QueueP!TypeOK
    <2>2. job'[r] \in QueueP!Job
      BY <2>1 DEF QueueP!Job
    <2> QED BY <2>1, <2>2, QueuePAssumptions DEF QueueP!NullRecordAssumption
  <1>6. \A wo2 : Kept(wo2) => Kept(wo2)'
    BY <1>4, KeptStays
  <1>7. Earned'
    <2>1. ASSUME NEW b \in Work!Channel, NEW wo2, Work!At(b, "handled"),
                 wo2 = payload[Work!MessageOf(b)].workOrderId
          PROVE  Kept(wo2)'
      BY <1>6, <2>1 DEF Earned
    <2> QED BY <1>2, <2>1 DEF Earned, Work!At, Work!MessageOf, Kept, Begun, QueueP!RowsOf
  <1>8. Acked'
    <2>1. ASSUME NEW m \in workAcked, NEW wo2, wo2 = payload[m].workOrderId
          PROVE  Kept(wo2)'
      BY <1>6, <2>1 DEF Acked
    <2> QED BY <1>2, <2>1 DEF Acked, Kept, Begun, QueueP!RowsOf
  <1>9. Attempts'
    <2>1. \A q \in Request : job[q] # NULL => job'[q] = job[q]
      BY <1>4, JobsStay
    <2>2. ASSUME NEW b \in Work!Channel
          PROVE  \/ b = c /\ run'[<<"work", b>>] = r
                 \/ run'[<<"work", b>>] = run[<<"work", b>>] /\ run[<<"work", b>>] \in Request \cup {NULL}
      BY <1>1, <1>2 DEF Slot
    <2> QED BY <1>2, <1>3, <1>5, <2>1, <2>2 DEF Attempts, Work!At, Work!MessageOf
  <1> QED BY <1>7, <1>8, <1>9

LEMMA AckReceiptEnds ==
  ASSUME AckInv, NEW c \in Work!Channel, ReceiptEnds(c)
  PROVE  Attempts' /\ Earned' /\ Acked'
  <1> DEFINE slot == <<"work", c>>
  <1>1. /\ run \in [Slot -> Request \cup {NULL}] /\ slot \in Slot
        /\ run' = [run EXCEPT ![slot] = NULL]
        /\ UNCHANGED <<queueVars, payload, workAcked>>
        /\ workHandler \in [Work!Channel -> WorkP!Handler \cup {NULL}]
    BY DEF AckInv, PartsInv, Typed, Slot, ReceiptEnds, Assign, Work!Succeed, Work!Throw,
           WorkP!Inv, WorkP!TypeOK, WorkP!Channel, Work!Channel
  <1>2. PICK point \in {"handled", "failed"} :
          /\ workHandler' = [workHandler EXCEPT ![c].at = point]
          /\ workHandler[c] # NULL
          /\ point = "handled" => Outcome(slot) = "done"
    BY DEF ReceiptEnds, Work!Succeed, Work!Throw, Work!Reach, Work!At
  <1>3. ASSUME point = "handled" PROVE Kept(payload[workHandler[c].packet.message].workOrderId)
    <2>1. run[slot] # NULL /\ pc[run[slot]] = "done" /\ run[slot] \in Request
      BY <1>1, <1>2, <1>3 DEF Outcome
    <2>2. /\ job[run[slot]].kind = "add"
          /\ job[run[slot]].workOrderId = payload[Work!MessageOf(c)].workOrderId
      BY <2>1 DEF AckInv, Attempts
    <2> QED BY <2>1, <2>2 DEF AckInv, Receipts, Work!MessageOf
  <1>4. \A b \in Work!Channel :
          \/ b # c /\ workHandler'[b] = workHandler[b] /\ run'[<<"work", b>>] = run[<<"work", b>>]
          \/ /\ b = c /\ run'[<<"work", b>>] = NULL
             /\ workHandler'[b].at = point /\ workHandler'[b].packet = workHandler[b].packet
    <2>1. workHandler[c] \in WorkP!Handler
      BY <1>1, <1>2
    <2>2. /\ [workHandler[c] EXCEPT !.at = point].at = point
          /\ [workHandler[c] EXCEPT !.at = point].packet = workHandler[c].packet
      BY <2>1 DEF WorkP!Handler
    <2> QED BY <1>1, <1>2, <2>2 DEF Slot
  <1>5. \A b \in Work!Channel :
          workHandler'[b] # NULL /\ workHandler'[b].at = "handled" =>
            Kept(payload[workHandler'[b].packet.message].workOrderId)
    BY <1>3, <1>4 DEF AckInv, Earned, Work!At, Work!MessageOf
  <1>6. \A m \in workAcked' : Kept(payload[m].workOrderId)
    BY <1>1 DEF AckInv, Acked
  <1> QED BY <1>1, <1>4, <1>5, <1>6, AckMoves

LEMMA AckConsumer ==
  ASSUME AckInv, WorkConsumerStep
  PROVE  Attempts' /\ Earned' /\ Acked'
  <1>1. /\ UNCHANGED <<queueVars, payload, run>>
        /\ workHandler \in [Work!Channel -> WorkP!Handler \cup {NULL}]
        /\ workChannel \in Work!Channel
    BY BoundAssumption DEF AckInv, PartsInv, WorkConsumerStep, WorkP!Inv, WorkP!TypeOK,
       WorkP!Channel, Work!Channel
  <1>2. ASSUME UNCHANGED <<workHandler, workAcked>>
        PROVE  Attempts' /\ Earned' /\ Acked'
    <2>1. QueueMove
      BY <1>1 DEF QueueMove
    <2> QED BY <1>1, <1>2, <2>1, AckStill
  <1>3. CASE Work!Deliver
    <2>1. /\ workHandler[workChannel] = NULL /\ UNCHANGED workAcked
          /\ \/ UNCHANGED workHandler
             \/ \E packet : workHandler' = [workHandler EXCEPT ![workChannel] =
                              [packet |-> packet, attempt |-> 1, at |-> "handle"]]
      BY <1>3 DEF Work!Deliver, Work!history
    <2>2. CASE UNCHANGED workHandler
      BY <1>2, <2>1, <2>2
    <2>3. CASE \E packet : workHandler' = [workHandler EXCEPT ![workChannel] =
                              [packet |-> packet, attempt |-> 1, at |-> "handle"]]
      <3>1. /\ \A b \in Work!Channel : b # workChannel => workHandler'[b] = workHandler[b]
            /\ workHandler'[workChannel].at = "handle"
        BY <1>1, <2>3
      <3>2. run[<<"work", workChannel>>] = NULL
        BY <1>1, <2>1 DEF AckInv, Attempts, Work!At
      <3>3. \A b \in Work!Channel :
              workHandler'[b] # NULL /\ workHandler'[b].at = "handled" =>
                Kept(payload[workHandler'[b].packet.message].workOrderId)
        BY <3>1 DEF AckInv, Earned, Work!At, Work!MessageOf
      <3>4. \A m \in workAcked' : Kept(payload[m].workOrderId)
        BY <2>1 DEF AckInv, Acked
      <3> QED BY <1>1, <3>1, <3>2, <3>3, <3>4, AckMoves
    <2> QED BY <2>1, <2>2, <2>3
  <1>4. ASSUME NEW c \in Work!Channel, Work!Ack(c) \/ Work!Nack(c) \/ Work!Retry(c)
        PROVE  Attempts' /\ Earned' /\ Acked'
    <2>1. /\ workHandler[c] # NULL /\ workHandler[c].at # "handle"
          /\ \A b \in Work!Channel : b # c => workHandler'[b] = workHandler[b]
          /\ workHandler'[c] = NULL \/ workHandler'[c].at = "handle"
      BY <1>1, <1>4
      DEF Work!Ack, Work!Nack, Work!Retry, Work!EndHandler, Work!At, WorkP!Handler
    <2>2. run[<<"work", c>>] = NULL
      BY <2>1 DEF AckInv, Attempts, Work!At
    <2>3. \A b \in Work!Channel :
            workHandler'[b] # NULL /\ workHandler'[b].at = "handled" =>
              Kept(payload[workHandler'[b].packet.message].workOrderId)
      BY <2>1 DEF AckInv, Earned, Work!At, Work!MessageOf
    <2>4. \A m \in workAcked' :
            \/ m \in workAcked
            \/ Work!At(c, "handled") /\ m = Work!MessageOf(c)
      BY <1>4 DEF Work!Ack, Work!Nack, Work!Retry, Work!history
    <2>5. \A m \in workAcked' : Kept(payload[m].workOrderId)
      BY <2>4 DEF AckInv, Acked, Earned
    <2> QED BY <1>1, <2>1, <2>2, <2>3, <2>5, AckMoves
  <1> QED
    BY <1>2, <1>3, <1>4
    DEF WorkConsumerStep, Work!Publish, Work!ConsumeDlq, Work!history

LEMMA AckStep == AckInv /\ [Next]_vars => AckInv'
  <1> SUFFICES ASSUME AckInv, [Next]_vars PROVE AckInv'
    OBVIOUS
  <1>1. PartsInv' /\ QueueMove
    BY PartsStep, QueueMoves DEF AckInv
  <1>2. Receipts'
    BY <1>1, ReceiptsStep DEF AckInv, PartsInv
  <1>3. ASSUME NEW c \in Work!Channel, ReceiveWorkOrder(c) \/ ReceiptEnds(c)
        PROVE  Attempts' /\ Earned' /\ Acked'
    BY <1>3, AckReceive, AckReceiptEnds
  <1>4. ASSUME NEW c \in Work!Channel, CompensateProduction(c) \/ CompensationEnds(c)
        PROVE  Attempts' /\ Earned' /\ Acked'
    <2>1. PICK r : run' = [run EXCEPT ![<<"saga", c>>] = r]
      BY <1>4 DEF CompensateProduction, CompensationEnds, Assign
    <2>2. \A b \in Work!Channel : run'[<<"work", b>>] = run[<<"work", b>>]
      BY <2>1 DEF AckInv, PartsInv, Typed, Slot
    <2>3. UNCHANGED <<workHandler, workAcked, payload>>
      BY <1>4 DEF CompensateProduction, CompensationEnds, workVars
    <2> QED BY <1>1, <2>2, <2>3, AckStill
  <1>5. WorkConsumerStep => Attempts' /\ Earned' /\ Acked'
    BY AckConsumer
  <1>6. ASSUME UNCHANGED <<workHandler, workAcked, payload, run>>
        PROVE  Attempts' /\ Earned' /\ Acked'
    BY <1>1, <1>6, AckStill
  <1>7. ASSUME Crash
        PROVE  Attempts' /\ Earned' /\ Acked'
    <2>1. /\ \A c \in Work!Channel : workHandler'[c] = NULL /\ run'[<<"work", c>>] = NULL
          /\ UNCHANGED <<table, job, payload, workAcked>>
      BY <1>7 DEF Crash, Work!Crash, Work!LoseChannel, Work!history, Slot
    <2> QED
      BY <2>1 DEF AckInv, Attempts, Earned, Acked, Work!At, Kept, Begun, QueueP!RowsOf
  <1>8. Attempts' /\ Earned' /\ Acked'
    BY <1>3, <1>4, <1>5, <1>6, <1>7
    DEF Next, vars, workVars, SagaConsumerStep, PublishCompensation, Statement, Patch,
        LoseConnection, Work!LoseConnection, Work!LoseChannel, Work!history
  <1> QED BY <1>1, <1>2, <1>8 DEF AckInv

LEMMA AckInit == Init => AckInv
  <1> SUFFICES ASSUME Init PROVE AckInv
    OBVIOUS
  <1>1. QueueP!Inv
    <2>1. QueueP!Init
      BY DEF Init, Queue!Init, QueueP!Init
    <2> QED BY <2>1, QueueP!InitInv, QueuePAssumptions
  <1>2. WorkP!Inv
    <2>1. WorkP!Init
      BY DEF Init, Work!Init, WorkP!Init, Work!Kind, WorkP!Kind, Work!Channel, WorkP!Channel
    <2> QED BY <2>1, WorkP!InitInv, WorkPAssumptions
  <1>3. SagaP!Inv
    <2>1. SagaP!Init
      BY DEF Init, Saga!Init, SagaP!Init, Saga!Kind, SagaP!Kind, Saga!Channel, SagaP!Channel
    <2> QED BY <2>1, SagaP!InitInv, SagaPAssumptions
  <1>4. Typed
    BY BoundAssumption DEF Init, Typed
  <1>5. Receipts /\ Attempts /\ Earned /\ Acked
    BY DEF Init, Queue!Init, Work!Init, Receipts, Attempts, Earned, Acked, Work!At, Slot
  <1> QED BY <1>1, <1>2, <1>3, <1>4, <1>5 DEF AckInv, PartsInv

LEMMA AckHolds == Spec => []AckInv
  BY AckInit, AckStep, PTL DEF Spec

(* Every part of the service keeps its types when the parts run together.  *)
THEOREM ServiceTypes == Spec => []TypeOK
  <1>1. AckInv => TypeOK
    <2> SUFFICES ASSUME PartsInv PROVE TypeOK
      BY DEF AckInv
    <2>1. Queue!TypeOK
      BY DEF PartsInv, QueueP!Inv, QueueP!TypeOK, Queue!TypeOK, Queue!Row, QueueP!Row,
             Queue!Stamp, QueueP!Stamp, Queue!ProductionStatus, QueueP!ProductionStatus,
             Queue!Job, QueueP!Job, Queue!Item, QueueP!Item, Queue!InFlight, QueueP!InFlight,
             Queue!Ended, QueueP!Ended, Queue!StatusUpdate, QueueP!StatusUpdate
    <2>2. Work!TypeOK
      BY DEF PartsInv, WorkP!Inv, WorkP!TypeOK, Work!TypeOK, Work!Kind, WorkP!Kind,
             Work!Packet, WorkP!Packet, Work!Channel, WorkP!Channel, Work!Handler, WorkP!Handler
    <2>3. Saga!TypeOK
      BY DEF PartsInv, SagaP!Inv, SagaP!TypeOK, Saga!TypeOK, Saga!Kind, SagaP!Kind,
             Saga!Packet, SagaP!Packet, Saga!Channel, SagaP!Channel, Saga!Handler, SagaP!Handler
    <2> QED BY <2>1, <2>2, <2>3 DEF PartsInv, Typed, TypeOK
  <1> QED BY <1>1, AckHolds, PTL

(* A work order whose message was acknowledged is in the table unless a    *)
(* compensation of it ran, for any number of messages, PATCH calls,        *)
(* retries, lost connections, crashes and failing statements.              *)
THEOREM AcknowledgedIsKept == Spec => []AckedOrderIsKept
  <1>1. AckInv => AckedOrderIsKept
    BY DEF AckInv, Acked, Kept, AckedOrderIsKept, Queue!RowsOf, QueueP!RowsOf
  <1> QED BY <1>1, AckHolds, PTL

-----------------------------------------------------------------------------
(* Messages.  Each consumer keeps track of its own in company, and what it *)
(* threw away had been given up.                                           *)
Sound ==
  /\ workContent = [m \in WorkOrderMessage |-> "sound"]
  /\ sagaContent = [m \in SagaMessage |-> "sound"]

Tracked ==
  /\ WorkP!NoMessageLost /\ WorkP!Abandoned
  /\ SagaP!NoMessageLost /\ SagaP!Abandoned
  /\ Sound

LEMMA TrackedInit == Init => Tracked
  <1> SUFFICES ASSUME Init PROVE Tracked
    OBVIOUS
  <1>1. WorkP!Init
    BY DEF Init, Work!Init, WorkP!Init, Work!Kind, WorkP!Kind, Work!Channel, WorkP!Channel
  <1>2. SagaP!Init
    BY DEF Init, Saga!Init, SagaP!Init, Saga!Kind, SagaP!Kind, Saga!Channel, SagaP!Channel
  <1>3. WorkP!NoMessageLost /\ WorkP!Abandoned
    BY <1>1, WorkP!LostInit, WorkP!AbandonedInit, WorkPAssumptions
  <1>4. SagaP!NoMessageLost /\ SagaP!Abandoned
    BY <1>2, SagaP!LostInit, SagaP!AbandonedInit, SagaPAssumptions
  <1>5. Sound
    BY DEF Init, Sound
  <1> QED BY <1>3, <1>4, <1>5 DEF Tracked

LEMMA TrackedStep == PartsInv /\ Tracked /\ [Next]_vars => Tracked'
  <1> SUFFICES ASSUME PartsInv, Tracked, [Next]_vars PROVE Tracked'
    OBVIOUS
  <1>1. [WorkP!Next]_(WorkP!vars) /\ [SagaP!Next]_(SagaP!vars)
    BY WorkMoves, WorkSame, SagaMoves, SagaSame
  <1>2. WorkP!NoMessageLost' /\ WorkP!Abandoned'
    BY <1>1, WorkP!LostStep, WorkP!AbandonedStep, WorkPAssumptions DEF PartsInv, Tracked
  <1>3. SagaP!NoMessageLost' /\ SagaP!Abandoned'
    BY <1>1, SagaP!LostStep, SagaP!AbandonedStep, SagaPAssumptions DEF PartsInv, Tracked
  <1>4. Sound'
    BY <1>1, WorkP!HistoryGrows, SagaP!HistoryGrows, WorkPAssumptions, SagaPAssumptions
    DEF PartsInv, Tracked, Sound
  <1> QED BY <1>2, <1>3, <1>4 DEF Tracked

LEMMA TrackedHolds == Spec => [](AckInv /\ Tracked)
  <1>1. AckInv => PartsInv
    BY DEF AckInv
  <1> QED BY <1>1, AckInit, AckStep, TrackedInit, TrackedStep, PTL DEF Spec

(* Where a published message is, by what its consumer keeps track of. *)
LEMMA WherePublished ==
  ASSUME WorkP!NoMessageLost, NEW m \in WorkOrderMessage, Work!Published(m)
  PROVE  \/ Work!Within(workMain, m) \/ Work!Held(m) \/ m \in workAcked
         \/ Work!Within(workDlq, m) \/ \E packet \in workDiscarded : packet.message = m
  BY DEF WorkP!NoMessageLost, WorkP!Published, Work!Published, WorkP!Within, Work!Within,
         WorkP!Held, Work!Held, WorkP!MessageOf, Work!MessageOf, WorkP!Settled

(* A dead letter of the service has failed in every attempt it was due. *)
LEMMA DeadLetterFailed ==
  ASSUME PartsInv, Tracked, NEW m \in WorkOrderMessage,
         \/ Work!Within(workDlq, m)
         \/ \E packet \in workDiscarded : packet.message = m
  PROVE  workFailures[m] >= MaxRetries
  <1>1. workContent[m] = "sound"
    BY DEF Tracked, Sound
  <1>2. PICK packet : packet.message = m /\ WorkP!GivenUp(packet)
    <2>1. CASE Work!Within(workDlq, m)
      BY <2>1 DEF Work!Within, PartsInv, WorkP!Inv
    <2>2. CASE \E packet \in workDiscarded : packet.message = m
      BY <2>2 DEF Tracked, WorkP!Abandoned
    <2> QED BY <2>1, <2>2
  <1> QED BY <1>1, <1>2 DEF WorkP!GivenUp, WorkP!Retryable

(* A published order is waiting or in hand, or it came to the table, or    *)
(* its message is a dead letter that failed in all its attempts, for any   *)
(* number of messages, PATCH calls, lost connections and crashes.          *)
THEOREM NoOrderIsLost == Spec => []OrderIsAccountedFor
  <1>1. AckInv /\ Tracked => OrderIsAccountedFor
    <2> SUFFICES ASSUME AckInv, Tracked, NEW m \in WorkOrderMessage, Work!Published(m)
                 PROVE  LET wo == payload[m].workOrderId
                            DeadLetter == \/ Work!Within(workDlq, m)
                                          \/ \E packet \in workDiscarded : packet.message = m
                        IN
                        \/ Work!Within(workMain, m) \/ Work!Held(m)
                        \/ Queue!RowsOf(wo) # {} \/ Begun("remove", wo) # {}
                        \/ DeadLetter /\ workFailures[m] >= MaxRetries
      BY DEF OrderIsAccountedFor
    <2>1. \/ Work!Within(workMain, m) \/ Work!Held(m) \/ m \in workAcked
          \/ Work!Within(workDlq, m) \/ \E packet \in workDiscarded : packet.message = m
      BY WherePublished DEF Tracked
    <2>2. CASE m \in workAcked
      BY <2>2 DEF AckInv, Acked, Kept, Queue!RowsOf, QueueP!RowsOf
    <2>3. CASE Work!Within(workDlq, m) \/ \E packet \in workDiscarded : packet.message = m
      BY <2>3, DeadLetterFailed DEF AckInv
    <2> QED BY <2>1, <2>2, <2>3
  <1> QED BY <1>1, TrackedHolds, PTL

(* Both consumers keep what they promise alone of every message: it is     *)
(* queued, held, dead-lettered or settled, a dead letter failed MaxRetries *)
(* times, and an ack rests on a committed effect.                          *)
THEOREM MessagesInCompany ==
  Spec => [](/\ Work!NoMessageLost /\ Work!GivenUpAfterRetries /\ Work!AckedIsApplied
             /\ Saga!NoMessageLost /\ Saga!GivenUpAfterRetries /\ Saga!AckedIsApplied)
  <1>1. Tracked => Work!NoMessageLost /\ Saga!NoMessageLost
    BY DEF Tracked, WorkP!NoMessageLost, Work!NoMessageLost, SagaP!NoMessageLost,
           Saga!NoMessageLost, WorkP!Published, Work!Published, SagaP!Published, Saga!Published,
           WorkP!Within, Work!Within, SagaP!Within, Saga!Within, WorkP!Held, Work!Held,
           SagaP!Held, Saga!Held, WorkP!MessageOf, Work!MessageOf, SagaP!MessageOf,
           Saga!MessageOf, WorkP!Settled, Work!Settled, SagaP!Settled, Saga!Settled
  <1>2. PartsInv => Work!GivenUpAfterRetries /\ Saga!GivenUpAfterRetries
    BY DEF PartsInv, WorkP!Inv, SagaP!Inv, WorkP!GivenUp, SagaP!GivenUp, WorkP!Retryable,
           SagaP!Retryable, Work!GivenUpAfterRetries, Saga!GivenUpAfterRetries
  <1>3. PartsInv => Work!AckedIsApplied /\ Saga!AckedIsApplied
    BY DEF PartsInv, WorkP!Inv, SagaP!Inv, WorkP!AckedIsApplied, SagaP!AckedIsApplied,
           Work!AckedIsApplied, Saga!AckedIsApplied
  <1>4. AckInv => PartsInv
    BY DEF AckInv
  <1> QED BY <1>1, <1>2, <1>3, <1>4, TrackedHolds, PTL

-----------------------------------------------------------------------------
(* Compensations.  No receipt of the order is in flight any more: its      *)
(* messages are settled, and while the consumer keeps its connection an    *)
(* attempt belongs to a message that is not.                               *)
Quiet(wo) == \A n \in About(wo) : Work!Settled(n)

Gone(wo) == QueueP!RowsOf(wo) = {} \/ Begun("update", wo) # {} \/ workLosses > 0

InHand ==
  \A r \in Request :
    pc[r] \in QueueP!InFlight /\ job[r].kind = "add" =>
      workLosses > 0 \/ \E c \in Work!Channel : run[<<"work", c>>] = r

Timely ==
  \A m \in SagaMessage :
    Saga!Published(m) /\ m \notin early => Quiet(payload[m].workOrderId)

GoneFor(m) == m \notin early => Gone(payload[m].workOrderId)

Removals ==
  \A c \in Work!Channel :
    run[<<"saga", c>>] # NULL => Saga!At(c, "handle") /\ GoneFor(Saga!MessageOf(c))

Removed ==
  \A c \in Work!Channel : Saga!At(c, "handled") => GoneFor(Saga!MessageOf(c))

Compensated == \A m \in sagaAcked : GoneFor(m)

CompensationInv ==
  /\ AckInv /\ WorkP!Copies /\ SagaP!Copies
  /\ InHand /\ Timely /\ Removals /\ Removed /\ Compensated

LEMMA LossesGrow ==
  ASSUME PartsInv, [Next]_vars
  PROVE  workLosses > 0 => workLosses' > 0
  <1>1. workLosses \in Nat
    BY BoundAssumption DEF PartsInv, WorkP!Inv, WorkP!TypeOK
  <1>2. workLosses' = workLosses \/ workLosses' = workLosses + 1
    BY WorkMoves
    DEF Work!Next, Work!vars, Work!history, Work!Publish, Work!Deliver, Work!Run,
        Work!HandleEnds, Work!Answer, Work!Succeed, Work!Throw, Work!Refuse, Work!Ack,
        Work!Nack, Work!Retry, Work!LoseConnection, Work!Crash, Work!LoseChannel,
        Work!ConsumeDlq, Work!LoseDlqAck, Work!Idle
  <1> QED BY <1>1, <1>2

LEMMA QuietStays ==
  ASSUME [Next]_vars, NEW wo, Quiet(wo)
  PROVE  Quiet(wo)'
  <1>1. workAcked \subseteq workAcked' /\ workDiscarded \subseteq workDiscarded'
    BY WorkMoves
    DEF Work!Next, Work!vars, Work!history, Work!Publish, Work!Deliver, Work!Run,
        Work!HandleEnds, Work!Answer, Work!Succeed, Work!Throw, Work!Refuse, Work!Ack,
        Work!Nack, Work!Retry, Work!LoseConnection, Work!Crash, Work!LoseChannel,
        Work!ConsumeDlq, Work!LoseDlqAck, Work!Idle
  <1>2. UNCHANGED payload
    BY DEF Next, vars, ReceiveWorkOrder, CompensateProduction, ReceiptEnds, CompensationEnds,
           WorkConsumerStep, SagaConsumerStep, PublishCompensation, Statement, Patch,
           LoseConnection, Crash
  <1> QED BY <1>1, <1>2 DEF Quiet, About, Work!Settled

(* The message an attempt is about is not settled, as long as no           *)
(* connection was lost.                                                    *)
LEMMA HeldIsNotSettled ==
  ASSUME PartsInv, WorkP!Copies, NEW c \in Work!Channel, workHandler[c] # NULL,
         ~(workLosses > 0)
  PROVE  ~Work!Settled(Work!MessageOf(c))
  <1> USE DEF PartsInv, WorkP!Copies
  <1>1. c \in WorkP!Channel /\ Work!MessageOf(c) = WorkP!MessageOf(c)
    BY DEF Work!Channel, WorkP!Channel, Work!MessageOf, WorkP!MessageOf
  <1>2. PICK m \in WorkOrderMessage : m = WorkP!MessageOf(c)
    BY <1>1, WorkP!Handling, WorkPAssumptions
  <1>3. workHandler[c].packet = WorkP!Original(m) /\ c <= workChannel
    BY <1>1, <1>2, WorkP!Handling, WorkPAssumptions
  <1>4. c = workChannel
    BY <1>1, <1>3, BoundAssumption DEF WorkP!Inv, WorkP!TypeOK, WorkP!Channel
  <1>5. WorkP!Holds(m)
    BY <1>3, <1>4 DEF WorkP!Holds
  <1>6. m \notin workAcked /\ WorkP!Original(m) \notin workDiscarded
    BY <1>5, WorkP!SettledIsNotHeld, WorkPAssumptions
  <1>7. ASSUME NEW packet \in workDiscarded, packet.message = m PROVE FALSE
    <2>1. packet.enveloped /\ packet \in WorkP!Packet
      BY DEF WorkP!Enveloped, WorkP!Inv, WorkP!TypeOK
    <2>2. packet = WorkP!Original(m)
      BY <1>7, <2>1, WorkP!Envelopes, WorkPAssumptions
    <2> QED BY <1>6, <2>2
  <1> QED BY <1>1, <1>2, <1>6, <1>7 DEF Work!Settled

(* A row comes to a work order that has none by an INSERT alone. *)
LEMMA RowsCome ==
  ASSUME QueueP!Inv, QueueMove, NEW wo, QueueP!RowsOf(wo) = {}, NEW id \in QueueP!RowsOf(wo)'
  PROVE  \E r \in Request :
           /\ pc[r] = "insert" /\ job[r] # NULL /\ job[r].kind \in {"add", "update"}
           /\ job[r].workOrderId = wo
  <1>1. /\ id \in Request /\ table'[id] # NULL /\ table'[id].workOrderId = wo
        /\ table[id] = NULL \/ table[id].workOrderId # wo
        /\ table \in [Request -> QueueP!Row \cup {NULL}]
    BY DEF QueueP!RowsOf, QueueP!Inv, QueueP!TypeOK
  <1>2. table'[id] # table[id]
    BY <1>1
  <1>3. ASSUME NEW r \in Request, QueueP!UpdateChanged(r) PROVE FALSE
    <2>1. /\ table[entity[r].id] # NULL
          /\ table' = [table EXCEPT ![entity[r].id] =
               QueueP!ChangedColumns(table[entity[r].id], loaded[r], entity[r].row)]
      BY <1>2, <1>3 DEF QueueP!UpdateChanged, QueueP!Write
    <2>2. id = entity[r].id
          /\ table'[id] = QueueP!ChangedColumns(table[id], loaded[r], entity[r].row)
      BY <1>1, <1>2, <2>1
    <2>3. table'[id].workOrderId = table[id].workOrderId
      BY <2>2 DEF QueueP!ChangedColumns
    <2> QED BY <1>1, <2>1, <2>2, <2>3
  <1>4. ASSUME NEW r \in Request, QueueP!Insert(r)
        PROVE  /\ pc[r] = "insert" /\ job[r] # NULL /\ job[r].kind \in {"add", "update"}
               /\ job[r].workOrderId = wo
    <2>1. /\ pc[r] = "insert" /\ entity[r] # NULL
          /\ job[r].kind \in {"add", "update"}
          /\ job[r] # NULL /\ entity[r].row.workOrderId = job[r].workOrderId
      BY <1>4 DEF QueueP!Insert, QueueP!Inv, QueueP!Control, QueueP!Copy
    <2>2. table'[id] = entity[r].row
      BY <1>1, <1>2, <1>4 DEF QueueP!Insert, QueueP!Write
    <2> QED BY <1>1, <2>1, <2>2
  <1>5. ASSUME NEW r \in Request, NEW wo2 \in WorkOrder, QueueP!RemoveFromQueue(r, wo2)
        PROVE  FALSE
    BY <1>1, <1>2, <1>5 DEF QueueP!RemoveFromQueue, QueueP!Write
  <1> QED
    BY <1>2, <1>3, <1>4, <1>5
    DEF QueueMove, Halt, queueVars, QueueP!Start, QueueP!AddWorkOrder, QueueP!ExecuteUpdate,
        QueueP!Step, QueueP!FindAny, QueueP!FindItem, QueueP!Reload, QueueP!InsertConflict,
        QueueP!Notify, QueueP!Fail

LEMMA GoneStays ==
  ASSUME CompensationInv, [Next]_vars, NEW wo, Quiet(wo), Gone(wo)
  PROVE  Gone(wo)'
  <1> USE DEF CompensationInv, AckInv
  <1>1. QueueMove /\ QueueP!Inv
    BY QueueMoves DEF PartsInv
  <1>2. Begun("update", wo) # {} => Begun("update", wo)' # {}
    BY <1>1, BegunGrows
  <1>3. CASE QueueP!RowsOf(wo) = {} /\ QueueP!RowsOf(wo)' # {} /\ ~(workLosses > 0)
    <2>1. PICK r \in Request :
            /\ pc[r] = "insert" /\ job[r] # NULL /\ job[r].kind \in {"add", "update"}
            /\ job[r].workOrderId = wo
      BY <1>1, <1>3, RowsCome
    <2>2. job[r].kind # "add"
      <3> SUFFICES ASSUME job[r].kind = "add" PROVE FALSE
        OBVIOUS
      <3>1. PICK c \in Work!Channel : run[<<"work", c>>] = r
        BY <1>3, <2>1 DEF InHand, QueueP!InFlight
      <3>2. r # NULL
        BY NullAssumption
      <3>3. workHandler[c] # NULL /\ payload[Work!MessageOf(c)].workOrderId = wo
        BY <2>1, <3>1, <3>2 DEF Attempts, Work!At
      <3>4. Work!MessageOf(c) \in About(wo)
        BY <3>3, WorkPayload DEF About, PartsInv
      <3> QED BY <1>3, <3>3, <3>4, HeldIsNotSettled DEF Quiet
    <2> QED BY <1>2, <2>1, <2>2 DEF Begun, Gone
  <1> QED BY <1>2, <1>3, LossesGrow DEF Gone

LEMMA InHandStep ==
  ASSUME CompensationInv, [Next]_vars
  PROVE  InHand'
  <1> USE DEF CompensationInv, AckInv
  <1> SUFFICES ASSUME NEW r \in Request, pc'[r] \in QueueP!InFlight, job'[r].kind = "add",
                      ~(workLosses' > 0)
               PROVE  \E c \in Work!Channel : run'[<<"work", c>>] = r
    BY DEF InHand, QueueP!InFlight
  <1>1. /\ pc \in [Request -> {"idle"} \cup QueueP!InFlight \cup QueueP!Ended]
        /\ job \in [Request -> QueueP!Job \cup {NULL}]
        /\ run \in [Slot -> Request \cup {NULL}] /\ r # NULL
    BY NullAssumption DEF PartsInv, QueueP!Inv, QueueP!TypeOK, Typed
  <1>2. ~(workLosses > 0)
    BY LossesGrow
  <1>3. ASSUME pc[r] \in QueueP!InFlight, job'[r] = job[r]
        PROVE  \E c \in Work!Channel : run[<<"work", c>>] = r
    BY <1>2, <1>3 DEF InHand
  <1>4. ASSUME NEW c \in Work!Channel, ReceiveWorkOrder(c)
        PROVE  \E b \in Work!Channel : run'[<<"work", b>>] = r
    <2>1. PICK q \in Request :
            /\ Queue!AddWorkOrder(q, payload[Work!MessageOf(c)].workOrderId,
                                  payload[Work!MessageOf(c)].details)
            /\ run' = [run EXCEPT ![<<"work", c>>] = q]
      BY <1>4 DEF ReceiveWorkOrder, Assign
    <2>2. run[<<"work", c>>] = NULL /\ <<"work", c>> \in Slot
      BY <1>4 DEF ReceiveWorkOrder, Slot
    <2>3. CASE q = r
      BY <1>1, <2>1, <2>2, <2>3
    <2>4. CASE q # r
      <3>1. pc'[r] = pc[r] /\ job'[r] = job[r]
        BY <1>1, <2>1, <2>4 DEF Queue!AddWorkOrder, Queue!Begin, Queue!Goto
      <3>2. PICK b \in Work!Channel : run[<<"work", b>>] = r
        BY <1>3, <3>1
      <3>3. run'[<<"work", b>>] = r
        BY <1>1, <2>1, <2>2, <3>2 DEF Slot
      <3> QED BY <3>3
    <2> QED BY <2>3, <2>4
  <1>5. ASSUME NEW c \in Work!Channel, ReceiptEnds(c)
        PROVE  \E b \in Work!Channel : run'[<<"work", b>>] = r
    <2>1. UNCHANGED <<pc, job>> /\ run' = [run EXCEPT ![<<"work", c>>] = NULL]
      BY <1>5 DEF ReceiptEnds, Assign, queueVars
    <2>2. PICK b \in Work!Channel : run[<<"work", b>>] = r
      BY <1>3, <2>1
    <2>3. b # c
      BY <1>1, <1>5, <2>1, <2>2 DEF ReceiptEnds, Outcome, QueueP!InFlight
    <2>4. run'[<<"work", b>>] = r
      BY <1>1, <2>1, <2>2, <2>3 DEF Slot
    <2> QED BY <2>4
  <1>6. ASSUME pc[r] \in QueueP!InFlight, job'[r] = job[r],
               \A c \in Work!Channel : run'[<<"work", c>>] = run[<<"work", c>>]
        PROVE  \E c \in Work!Channel : run'[<<"work", c>>] = r
    BY <1>3, <1>6
  <1>7. ASSUME NEW c \in Work!Channel, CompensateProduction(c) \/ CompensationEnds(c)
        PROVE  \E b \in Work!Channel : run'[<<"work", b>>] = r
    <2>1. \A b \in Work!Channel : run'[<<"work", b>>] = run[<<"work", b>>]
      BY <1>1, <1>7 DEF CompensateProduction, CompensationEnds, Assign, Slot
    <2>2. /\ pc[r] \in QueueP!InFlight
          /\ job'[r] = job[r]
      <3>1. CASE UNCHANGED <<pc, job>>
        BY <3>1
      <3>2. CASE \E q \in Request : \E wo : Queue!RemoveFromQueue(q, wo)
        BY <1>1, <3>2
        DEF Queue!RemoveFromQueue, Queue!Begin, Queue!Goto, QueueP!InFlight
      <3> QED
        BY <1>7, <3>1, <3>2 DEF CompensateProduction, CompensationEnds, queueVars
    <2> QED BY <1>6, <2>1, <2>2
  <1>8. ASSUME Patch
        PROVE  \E b \in Work!Channel : run'[<<"work", b>>] = r
    <2>1. PICK q \in Request, wo \in WorkOrder, status \in PatchStatus :
            Queue!ExecuteUpdate(q, wo, status)
      BY <1>8 DEF Patch
    <2>2. q # r
      BY <1>1, <2>1 DEF Queue!ExecuteUpdate, Queue!Begin
    <2>3. pc[r] \in QueueP!InFlight /\ job'[r] = job[r]
      BY <1>1, <2>1, <2>2 DEF Queue!ExecuteUpdate, Queue!Begin, Queue!Goto
    <2> QED BY <1>6, <1>8, <2>3 DEF Patch
  <1>9. ASSUME NEW q \in Request, Statement(q)
        PROVE  \E b \in Work!Channel : run'[<<"work", b>>] = r
    <2>1. /\ pc' = [pc EXCEPT ![q] = pc'[q]] /\ UNCHANGED job
          /\ pc[q] \in QueueP!InFlight
      BY <1>1, <1>9, StepSame
      DEF Statement, QueueP!Step, QueueP!FindAny, QueueP!FindItem, QueueP!Reload, QueueP!Insert,
          QueueP!InsertConflict, QueueP!UpdateChanged, QueueP!Notify, QueueP!Fail,
          QueueP!Save, QueueP!Goto, QueueP!InFlight
    <2> QED BY <1>1, <1>6, <1>9, <2>1 DEF Statement
  <1>10. ~Crash
    BY DEF Crash, Queue!InFlight, QueueP!InFlight
  <1>11. UNCHANGED <<queueVars, run>> => \E b \in Work!Channel : run'[<<"work", b>>] = r
    BY <1>6 DEF queueVars
  <1> QED
    BY <1>4, <1>5, <1>7, <1>8, <1>9, <1>10, <1>11
    DEF Next, vars, WorkConsumerStep, SagaConsumerStep, PublishCompensation, LoseConnection

(* The orchestrator waits, or the compensation counts as early. *)
LEMMA TimelyStep ==
  ASSUME CompensationInv, [Next]_vars
  PROVE  Timely'
  <1> SUFFICES ASSUME NEW m \in SagaMessage, Saga!Published(m)', m \notin early'
               PROVE  Quiet(payload[m].workOrderId)'
    BY DEF Timely
  <1>1. UNCHANGED payload /\ early \subseteq early'
    BY DEF Next, vars, ReceiveWorkOrder, CompensateProduction, ReceiptEnds, CompensationEnds,
           WorkConsumerStep, SagaConsumerStep, PublishCompensation, Statement, Patch,
           LoseConnection, Crash
  <1>2. PICK wo : wo = payload[m].workOrderId
    OBVIOUS
  <1>3. Quiet(wo)
    <2>1. CASE Saga!Published(m)
      BY <1>1, <1>2, <2>1 DEF CompensationInv, Timely
    <2>2. CASE ~Saga!Published(m)
      <3>1. ~UNCHANGED sagaArrival
        BY <2>2 DEF Saga!Published
      <3>2. PICK n \in SagaMessage : PublishCompensation(n)
        BY <3>1
        DEF Next, vars, sagaVars, ReceiveWorkOrder, CompensateProduction, ReceiptEnds,
            CompensationEnds, WorkConsumerStep, SagaConsumerStep, Statement, Patch,
            LoseConnection, Crash, Saga!Succeed, Saga!Throw, Saga!Deliver, Saga!ConsumeDlq,
            Saga!Ack, Saga!Nack, Saga!Retry, Saga!LoseConnection, Saga!Crash, Saga!LoseChannel,
            Saga!history
      <3>3. n = m
        <4>1. sagaArrival \in Seq(SagaMessage) /\ sagaArrival' = Append(sagaArrival, n)
          BY <3>2 DEF PublishCompensation, Saga!Publish, CompensationInv, AckInv, PartsInv,
             SagaP!Inv, SagaP!TypeOK
        <4>2. \A i \in DOMAIN sagaArrival' : sagaArrival'[i] = n \/ \E j \in DOMAIN sagaArrival :
                sagaArrival'[i] = sagaArrival[j]
          BY <4>1
        <4> QED BY <2>2, <4>2 DEF Saga!Published
      <3> QED BY <1>2, <3>2, <3>3 DEF PublishCompensation, Quiet
    <2> QED BY <2>1, <2>2
  <1>4. Quiet(wo)'
    BY <1>3, QuietStays
  <1> QED BY <1>1, <1>2, <1>4 DEF Quiet, About, Work!Settled

(* What a compensation on time has achieved lasts. *)
LEMMA GoneForStays ==
  ASSUME CompensationInv, [Next]_vars, NEW m \in SagaMessage, Saga!Published(m), GoneFor(m)
  PROVE  GoneFor(m)'
  <1>1. UNCHANGED payload /\ early \subseteq early'
    BY DEF Next, vars, ReceiveWorkOrder, CompensateProduction, ReceiptEnds, CompensationEnds,
           WorkConsumerStep, SagaConsumerStep, PublishCompensation, Statement, Patch,
           LoseConnection, Crash
  <1>2. PICK wo : wo = payload[m].workOrderId
    OBVIOUS
  <1>3. m \notin early' => Quiet(wo) /\ Gone(wo)
    BY <1>1, <1>2 DEF CompensationInv, Timely, GoneFor
  <1>4. m \notin early' => Gone(wo)'
    BY <1>3, GoneStays
  <1> QED BY <1>1, <1>2, <1>4 DEF GoneFor, Gone, Begun, QueueP!RowsOf

LEMMA Compensating ==
  ASSUME CompensationInv, NEW c \in Work!Channel, sagaHandler[c] # NULL
  PROVE  /\ Saga!MessageOf(c) \in SagaMessage /\ Saga!Published(Saga!MessageOf(c))
         /\ payload[Saga!MessageOf(c)].workOrderId \in WorkOrder
  <1>1. c \in SagaP!Channel /\ Saga!MessageOf(c) = SagaP!MessageOf(c)
    BY DEF Work!Channel, SagaP!Channel, Saga!MessageOf, SagaP!MessageOf
  <1>2. SagaP!Inv /\ SagaP!OnlyPublished /\ Typed
    BY DEF CompensationInv, AckInv, PartsInv, SagaP!Copies
  <1>3. SagaP!MessageOf(c) \in SagaMessage /\ SagaP!Published(SagaP!MessageOf(c))
    BY <1>1, <1>2, SagaP!Handling, SagaPAssumptions
  <1> QED BY <1>1, <1>2, <1>3, SagaPayload DEF Saga!Published, SagaP!Published

(* A step that calls no compensation keeps what the others have achieved   *)
(* when it answers only for them; one that does has removed its order.     *)
LEMMA CompensationMoves ==
  ASSUME CompensationInv, [Next]_vars,
         \A c \in Work!Channel :
           run'[<<"saga", c>>] # NULL =>
             /\ sagaHandler'[c] = sagaHandler[c] /\ Saga!At(c, "handle")
             /\ \E m : /\ m = Saga!MessageOf(c)
                       /\ run[<<"saga", c>>] # NULL \/ GoneFor(m)',
         \A c \in Work!Channel :
           sagaHandler'[c] # NULL /\ sagaHandler'[c].at = "handled" =>
             /\ sagaHandler[c] # NULL /\ sagaHandler'[c].packet = sagaHandler[c].packet
             /\ Saga!At(c, "handled") \/ run[<<"saga", c>>] # NULL,
         \A m \in sagaAcked' :
           m \in sagaAcked \/ \E c \in Work!Channel : Saga!At(c, "handled") /\ m = Saga!MessageOf(c)
  PROVE  Removals' /\ Removed' /\ Compensated'
  <1>1. ASSUME NEW c \in Work!Channel, NEW m, sagaHandler[c] # NULL, m = Saga!MessageOf(c),
               GoneFor(m)
        PROVE  GoneFor(m)'
    BY <1>1, Compensating, GoneForStays
  <1>2. ASSUME NEW c \in Work!Channel, NEW m, m = Saga!MessageOf(c),
               Saga!At(c, "handled") \/ run[<<"saga", c>>] # NULL
        PROVE  GoneFor(m)'
    BY <1>1, <1>2 DEF CompensationInv, Removals, Removed, Saga!At
  <1>3. Removals'
    <2> SUFFICES ASSUME NEW c \in Work!Channel, run'[<<"saga", c>>] # NULL,
                        NEW m, m = sagaHandler'[c].packet.message
                 PROVE  Saga!At(c, "handle")' /\ GoneFor(m)'
      BY DEF Removals, Saga!MessageOf, GoneFor, Gone, Begun, QueueP!RowsOf, Work!Channel
    <2>1. /\ sagaHandler'[c] = sagaHandler[c] /\ Saga!At(c, "handle") /\ m = Saga!MessageOf(c)
          /\ run[<<"saga", c>>] # NULL \/ GoneFor(m)'
      BY DEF Saga!MessageOf
    <2> QED BY <1>2, <2>1 DEF Saga!At
  <1>4. Removed'
    <2> SUFFICES ASSUME NEW c \in Work!Channel, sagaHandler'[c] # NULL,
                        sagaHandler'[c].at = "handled",
                        NEW m, m = sagaHandler'[c].packet.message
                 PROVE  GoneFor(m)'
      BY DEF Removed, Saga!At, Saga!MessageOf, GoneFor, Gone, Begun, QueueP!RowsOf, Work!Channel
    <2> QED BY <1>2 DEF Saga!MessageOf
  <1>5. Compensated'
    <2> SUFFICES ASSUME NEW m \in sagaAcked' PROVE GoneFor(m)'
      BY DEF Compensated, GoneFor, Gone, Begun, QueueP!RowsOf
    <2>1. CASE m \in sagaAcked
      <3>1. Saga!Published(m) /\ m \in SagaMessage /\ GoneFor(m)
        BY <2>1
        DEF CompensationInv, AckInv, PartsInv, SagaP!Copies, SagaP!OnlyPublished, SagaP!Inv,
            SagaP!TypeOK, Saga!Published, SagaP!Published, Compensated
      <3> QED BY <3>1, GoneForStays
    <2> QED BY <1>2, <2>1
  <1> QED BY <1>3, <1>4, <1>5

(* A compensation deletes the row of its work order, which is the only one. *)
LEMMA RemovedGone ==
  ASSUME QueueP!Inv, NEW r \in Request, NEW wo \in WorkOrder, QueueP!RemoveFromQueue(r, wo)
  PROVE  Gone(wo)'
  <1>1. table \in [Request -> QueueP!Row \cup {NULL}]
    BY DEF QueueP!Inv, QueueP!TypeOK
  <1>2. \A a, b \in QueueP!RowsOf(wo) : a = b
    BY DEF QueueP!Inv, QueueP!OneRowPerWorkOrder
  <1>3. CASE QueueP!RowsOf(wo) = {}
    BY <1>3 DEF QueueP!RemoveFromQueue, QueueP!RowsOf, Gone
  <1>4. CASE QueueP!RowsOf(wo) # {}
    <2>1. PICK id \in QueueP!RowsOf(wo) : table' = [table EXCEPT ![id] = NULL]
      BY <1>4 DEF QueueP!RemoveFromQueue, QueueP!Write
    <2>2. id \in Request /\ table'[id] = NULL /\ \A a \in Request : a # id => table'[a] = table[a]
      BY <1>1, <2>1 DEF QueueP!RowsOf
    <2>3. QueueP!RowsOf(wo)' = {}
      BY <1>2, <2>2 DEF QueueP!RowsOf
    <2> QED BY <2>3 DEF Gone
  <1> QED BY <1>3, <1>4

LEMMA Compensate ==
  ASSUME CompensationInv, [Next]_vars, NEW c \in Work!Channel, CompensateProduction(c)
  PROVE  Removals' /\ Removed' /\ Compensated'
  <1>1. PICK r \in Request :
          /\ Queue!RemoveFromQueue(r, payload[Saga!MessageOf(c)].workOrderId)
          /\ run' = [run EXCEPT ![<<"saga", c>>] = r]
    BY DEF CompensateProduction, Assign
  <1>2. /\ Saga!At(c, "handle") /\ sagaHandler[c] # NULL
        /\ UNCHANGED <<sagaHandler, sagaAcked, payload, early>>
        /\ run \in [Slot -> Request \cup {NULL}]
    BY DEF CompensateProduction, sagaVars, Saga!At, CompensationInv, AckInv, PartsInv, Typed
  <1>3. PICK m : m = Saga!MessageOf(c)
    OBVIOUS
  <1>4. PICK wo \in WorkOrder : wo = payload[m].workOrderId
    BY <1>2, <1>3, Compensating
  <1>5. Gone(wo)'
    BY <1>1, <1>3, <1>4, StartSame, RemovedGone DEF CompensationInv, AckInv, PartsInv
  <1>6. GoneFor(m)'
    BY <1>2, <1>4, <1>5 DEF GoneFor, Gone, Begun, QueueP!RowsOf
  <1>7. ASSUME NEW b \in Work!Channel, run'[<<"saga", b>>] # NULL
        PROVE  /\ sagaHandler'[b] = sagaHandler[b] /\ Saga!At(b, "handle")
               /\ \E n : /\ n = Saga!MessageOf(b)
                         /\ run[<<"saga", b>>] # NULL \/ GoneFor(n)'
    <2>1. CASE b = c
      BY <1>2, <1>3, <1>6, <2>1
    <2>2. CASE b # c
      <3>1. run[<<"saga", b>>] # NULL
        BY <1>1, <1>2, <1>7, <2>2 DEF Slot
      <3> QED BY <1>2, <3>1 DEF CompensationInv, Removals
    <2> QED BY <2>1, <2>2
  <1>8. \A b \in Work!Channel :
          sagaHandler'[b] # NULL /\ sagaHandler'[b].at = "handled" =>
            /\ sagaHandler[b] # NULL /\ sagaHandler'[b].packet = sagaHandler[b].packet
            /\ Saga!At(b, "handled") \/ run[<<"saga", b>>] # NULL
    BY <1>2 DEF Saga!At
  <1> QED BY <1>2, <1>7, <1>8, CompensationMoves

LEMMA CompensateEnds ==
  ASSUME CompensationInv, [Next]_vars, NEW c \in Work!Channel, CompensationEnds(c)
  PROVE  Removals' /\ Removed' /\ Compensated'
  <1>1. /\ run \in [Slot -> Request \cup {NULL}] /\ <<"saga", c>> \in Slot
        /\ run' = [run EXCEPT ![<<"saga", c>>] = NULL]
        /\ UNCHANGED <<payload, sagaAcked>>
        /\ sagaHandler \in [Work!Channel -> SagaP!Handler \cup {NULL}]
    BY DEF CompensationInv, AckInv, PartsInv, Typed, Slot, CompensationEnds, Assign,
           Saga!Succeed, Saga!Throw, SagaP!Inv, SagaP!TypeOK, SagaP!Channel, Work!Channel
  <1>2. PICK point \in {"handled", "failed"} :
          /\ sagaHandler' = [sagaHandler EXCEPT ![c].at = point]
          /\ sagaHandler[c] # NULL
          /\ point = "handled" => Outcome(<<"saga", c>>) = "done"
    BY DEF CompensationEnds, Saga!Succeed, Saga!Throw, Saga!Reach, Saga!At
  <1>3. point = "handled" => run[<<"saga", c>>] # NULL
    BY <1>2 DEF Outcome
  <1>4. \A b \in Work!Channel :
          \/ b # c /\ sagaHandler'[b] = sagaHandler[b] /\ run'[<<"saga", b>>] = run[<<"saga", b>>]
          \/ /\ b = c /\ run'[<<"saga", b>>] = NULL
             /\ sagaHandler'[b].at = point /\ sagaHandler'[b].packet = sagaHandler[b].packet
    <2>1. sagaHandler[c] \in SagaP!Handler
      BY <1>1, <1>2
    <2>2. /\ [sagaHandler[c] EXCEPT !.at = point].at = point
          /\ [sagaHandler[c] EXCEPT !.at = point].packet = sagaHandler[c].packet
      BY <2>1 DEF SagaP!Handler
    <2> QED BY <1>1, <1>2, <2>2 DEF Slot
  <1>5. \A b \in Work!Channel :
          run'[<<"saga", b>>] # NULL =>
            /\ sagaHandler'[b] = sagaHandler[b] /\ Saga!At(b, "handle")
            /\ \E m : /\ m = Saga!MessageOf(b)
                      /\ run[<<"saga", b>>] # NULL \/ GoneFor(m)'
    BY <1>4 DEF CompensationInv, Removals
  <1>6. \A b \in Work!Channel :
          sagaHandler'[b] # NULL /\ sagaHandler'[b].at = "handled" =>
            /\ sagaHandler[b] # NULL /\ sagaHandler'[b].packet = sagaHandler[b].packet
            /\ Saga!At(b, "handled") \/ run[<<"saga", b>>] # NULL
    BY <1>2, <1>3, <1>4 DEF Saga!At
  <1> QED BY <1>1, <1>5, <1>6, CompensationMoves

(* The consumer of compensations moves, or stands still. *)
LEMMA CompensateConsumer ==
  ASSUME CompensationInv, [Next]_vars, UNCHANGED run,
         SagaConsumerStep \/ UNCHANGED <<sagaHandler, sagaAcked>>
  PROVE  Removals' /\ Removed' /\ Compensated'
  <1>1. /\ sagaHandler \in [Work!Channel -> SagaP!Handler \cup {NULL}]
        /\ sagaChannel \in Work!Channel
    BY BoundAssumption DEF CompensationInv, AckInv, PartsInv, SagaP!Inv, SagaP!TypeOK,
       SagaP!Channel, Work!Channel
  <1>2. ASSUME \A c \in Work!Channel :
                 \/ sagaHandler'[c] = sagaHandler[c]
                 \/ ~Saga!At(c, "handle") /\ (sagaHandler'[c] = NULL \/ sagaHandler'[c].at = "handle"),
               \A m \in sagaAcked' :
                 m \in sagaAcked \/ \E c \in Work!Channel : Saga!At(c, "handled") /\ m = Saga!MessageOf(c)
        PROVE  Removals' /\ Removed' /\ Compensated'
    <2>1. \A c \in Work!Channel :
            run'[<<"saga", c>>] # NULL =>
              /\ sagaHandler'[c] = sagaHandler[c] /\ Saga!At(c, "handle")
              /\ \E m : /\ m = Saga!MessageOf(c)
                        /\ run[<<"saga", c>>] # NULL \/ GoneFor(m)'
      BY <1>2 DEF CompensationInv, Removals
    <2>2. \A c \in Work!Channel :
            sagaHandler'[c] # NULL /\ sagaHandler'[c].at = "handled" =>
              /\ sagaHandler[c] # NULL /\ sagaHandler'[c].packet = sagaHandler[c].packet
              /\ Saga!At(c, "handled") \/ run[<<"saga", c>>] # NULL
      BY <1>2 DEF Saga!At
    <2> QED BY <1>2, <2>1, <2>2, CompensationMoves
  <1>3. CASE UNCHANGED <<sagaHandler, sagaAcked>>
    BY <1>2, <1>3
  <1>4. CASE Saga!Deliver
    <2>1. /\ sagaHandler[sagaChannel] = NULL /\ UNCHANGED sagaAcked
          /\ \/ UNCHANGED sagaHandler
             \/ \E packet : sagaHandler' = [sagaHandler EXCEPT ![sagaChannel] =
                              [packet |-> packet, attempt |-> 1, at |-> "handle"]]
      BY <1>4 DEF Saga!Deliver, Saga!history
    <2>2. \A c \in Work!Channel :
            \/ sagaHandler'[c] = sagaHandler[c]
            \/ ~Saga!At(c, "handle") /\ sagaHandler'[c].at = "handle"
      BY <1>1, <2>1 DEF Saga!At
    <2> QED BY <1>2, <2>1, <2>2
  <1>5. ASSUME NEW c \in Work!Channel, Saga!Ack(c) \/ Saga!Nack(c) \/ Saga!Retry(c)
        PROVE  Removals' /\ Removed' /\ Compensated'
    <2>1. /\ ~Saga!At(c, "handle")
          /\ \A b \in Work!Channel : b # c => sagaHandler'[b] = sagaHandler[b]
          /\ sagaHandler'[c] = NULL \/ sagaHandler'[c].at = "handle"
      BY <1>1, <1>5
      DEF Saga!Ack, Saga!Nack, Saga!Retry, Saga!EndHandler, Saga!At, SagaP!Handler
    <2>2. \A m \in sagaAcked' :
            m \in sagaAcked \/ (Saga!At(c, "handled") /\ m = Saga!MessageOf(c))
      BY <1>5 DEF Saga!Ack, Saga!Nack, Saga!Retry, Saga!history
    <2> QED BY <1>2, <2>1, <2>2
  <1> QED
    BY <1>3, <1>4, <1>5
    DEF SagaConsumerStep, Saga!ConsumeDlq, Saga!Channel, Work!Channel

LEMMA CompensationStep == CompensationInv /\ [Next]_vars => CompensationInv'
  <1> SUFFICES ASSUME CompensationInv, [Next]_vars PROVE CompensationInv'
    OBVIOUS
  <1>1. AckInv'
    BY AckStep DEF CompensationInv
  <1>2. WorkP!Copies'
    <2>1. [WorkP!Next]_(WorkP!vars)
      BY WorkMoves, WorkSame
    <2> QED BY <2>1, WorkP!CopiesStep, WorkPAssumptions DEF CompensationInv, AckInv, PartsInv
  <1>3. SagaP!Copies'
    <2>1. [SagaP!Next]_(SagaP!vars)
      BY SagaMoves, SagaSame
    <2> QED BY <2>1, SagaP!CopiesStep, SagaPAssumptions DEF CompensationInv, AckInv, PartsInv
  <1>4. CASE Crash
    <2>1. /\ \A c \in Work!Channel : sagaHandler'[c] = NULL /\ run'[<<"saga", c>>] = NULL
          /\ UNCHANGED sagaAcked
      BY <1>4 DEF Crash, Saga!Crash, Saga!LoseChannel, Saga!history, Slot, Saga!Channel, Work!Channel
    <2>2. Removals' /\ Removed' /\ Compensated'
      BY <2>1, CompensationMoves
    <2> QED BY <1>1, <1>2, <1>3, <2>2, InHandStep, TimelyStep DEF CompensationInv
  <1>5. ASSUME NEW c \in Work!Channel, ReceiveWorkOrder(c) \/ ReceiptEnds(c)
        PROVE  Removals' /\ Removed' /\ Compensated'
    <2>1. PICK r : run' = [run EXCEPT ![<<"work", c>>] = r]
      BY <1>5 DEF ReceiveWorkOrder, ReceiptEnds, Assign
    <2>2. \A b \in Work!Channel : run'[<<"saga", b>>] = run[<<"saga", b>>]
      BY <2>1 DEF CompensationInv, AckInv, PartsInv, Typed, Slot
    <2>3. UNCHANGED <<sagaHandler, sagaAcked>>
      BY <1>5 DEF ReceiveWorkOrder, ReceiptEnds, sagaVars
    <2>4. \A b \in Work!Channel :
            run'[<<"saga", b>>] # NULL =>
              /\ sagaHandler'[b] = sagaHandler[b] /\ Saga!At(b, "handle")
              /\ \E m : /\ m = Saga!MessageOf(b)
                        /\ run[<<"saga", b>>] # NULL \/ GoneFor(m)'
      BY <2>2, <2>3 DEF CompensationInv, Removals
    <2>5. \A b \in Work!Channel :
            sagaHandler'[b] # NULL /\ sagaHandler'[b].at = "handled" =>
              /\ sagaHandler[b] # NULL /\ sagaHandler'[b].packet = sagaHandler[b].packet
              /\ Saga!At(b, "handled") \/ run[<<"saga", b>>] # NULL
      BY <2>3 DEF Saga!At
    <2> QED BY <2>3, <2>4, <2>5, CompensationMoves
  <1>6. CASE ~Crash
    <2>1. Removals' /\ Removed' /\ Compensated'
      BY <1>5, <1>6, Compensate, CompensateEnds, CompensateConsumer
      DEF Next, vars, sagaVars, WorkConsumerStep, SagaConsumerStep, PublishCompensation,
          Saga!Publish, Statement, Patch, LoseConnection, Saga!LoseConnection, Saga!LoseChannel,
          Saga!history
    <2> QED BY <1>1, <1>2, <1>3, <2>1, InHandStep, TimelyStep DEF CompensationInv
  <1> QED BY <1>4, <1>6

LEMMA CompensationInit == Init => CompensationInv
  <1> SUFFICES ASSUME Init PROVE CompensationInv
    OBVIOUS
  <1>1. WorkP!Copies
    <2>1. WorkP!Init
      BY DEF Init, Work!Init, WorkP!Init, Work!Kind, WorkP!Kind, Work!Channel, WorkP!Channel
    <2> QED BY <2>1, WorkP!CopiesInit, WorkPAssumptions
  <1>2. SagaP!Copies
    <2>1. SagaP!Init
      BY DEF Init, Saga!Init, SagaP!Init, Saga!Kind, SagaP!Kind, Saga!Channel, SagaP!Channel
    <2> QED BY <2>1, SagaP!CopiesInit, SagaPAssumptions
  <1>3. InHand /\ Timely
    BY DEF Init, Queue!Init, Saga!Init, InHand, Timely, QueueP!InFlight, Saga!Published
  <1>4. Removals /\ Removed /\ Compensated
    BY DEF Init, Saga!Init, Removals, Removed, Compensated, Saga!At, Slot, Work!Channel,
           Saga!Channel
  <1> QED BY <1>1, <1>2, <1>3, <1>4, AckInit DEF CompensationInv

(* A compensation sent once its order was settled holds from its ack on,   *)
(* for any number of messages, PATCH calls, retries, crashes and failures. *)
THEOREM CompensationIsKept == Spec => []CompensationHolds
  <1>1. CompensationInv => CompensationHolds
    BY DEF CompensationInv, Compensated, GoneFor, Gone, CompensationHolds, Queue!RowsOf,
           QueueP!RowsOf
  <1>2. Spec => []CompensationInv
    BY CompensationInit, CompensationStep, PTL DEF Spec
  <1> QED BY <1>1, <1>2, PTL

-----------------------------------------------------------------------------
(* The request whose key a row or a copy bears has saved it. *)
Entered(id) == pc[id] \in {"notify", "done", "failed"} /\ job[id].kind \in {"add", "update"}

Keys ==
  /\ \A id \in Request : table[id] # NULL => Entered(id)
  /\ \A r \in Request : entity[r] # NULL /\ entity[r].id # NULL => Entered(entity[r].id)

(* A receipt that began is one of a message that failed, is acknowledged,  *)
(* or has a handler that is at it or past it.                              *)
Tried(r, m) ==
  \/ workFailures[m] > 0 \/ m \in workAcked
  \/ \E c \in Work!Channel :
       /\ workHandler[c] # NULL /\ Work!MessageOf(c) = m
       /\ run[<<"work", c>>] = r \/ Work!At(c, "handled")

Smooth(wo) ==
  /\ workLosses = 0
  /\ \A m \in About(wo) : workFailures[m] = 0
  /\ \A m, n \in About(wo) : m = n

Traced ==
  workLosses = 0 =>
    \A wo \in WorkOrder : \A r \in Begun("add", wo) : \E m \in About(wo) : Tried(r, m)

Single == \A wo \in WorkOrder : Smooth(wo) => \A q, r \in Begun("add", wo) : q = r

ReceiptInv == AckInv /\ WorkP!Copies /\ Keys /\ Traced /\ Single

LEMMA EnteredStays ==
  ASSUME QueueP!Inv, QueueMove, NEW id \in Request, Entered(id)
  PROVE  Entered(id)'
  <1>1. job[id] # NULL /\ job'[id] = job[id]
    BY JobsStay DEF QueueP!Inv, QueueP!Control, Entered
  <1>2. pc'[id] \in {"notify", "done", "failed"}
    <2>1. pc \in [Request -> {"idle"} \cup QueueP!InFlight \cup QueueP!Ended]
      BY DEF QueueP!Inv, QueueP!TypeOK
    <2>2. ASSUME NEW r \in Request, NEW wo \in WorkOrder, QueueP!Start(r, wo)
          PROVE  pc'[id] = pc[id]
      BY <1>1, <2>1, <2>2, Begins
    <2>3. ASSUME NEW r \in Request, QueueP!Step(r)
          PROVE  pc'[id] = pc[id] \/ pc'[id] \in {"done", "failed"}
      BY <2>1, <2>3
      DEF Entered, QueueP!Step, QueueP!FindAny, QueueP!FindItem, QueueP!Reload, QueueP!Insert,
          QueueP!InsertConflict, QueueP!UpdateChanged, QueueP!Notify, QueueP!Fail,
          QueueP!Save, QueueP!Goto
    <2> QED BY <2>2, <2>3 DEF QueueMove, Halt, queueVars, Entered
  <1> QED BY <1>1, <1>2 DEF Entered

LEMMA KeysStep ==
  ASSUME QueueP!Inv, Keys, QueueMove
  PROVE  Keys'
  <1> USE DEF QueueP!Inv, QueueP!TypeOK
  <1>1. \A id \in Request : Entered(id) => Entered(id)'
    BY EnteredStays
  <1>2. ASSUME NEW id \in Request, table'[id] # NULL PROVE Entered(id)'
    <2>1. CASE table[id] # NULL
      BY <1>1, <2>1 DEF Keys
    <2>2. CASE table[id] = NULL
      <3>1. PICK r \in Request : QueueP!Insert(r)
        BY <1>2, <2>2
        DEF QueueMove, Halt, queueVars, QueueP!Start, QueueP!AddWorkOrder, QueueP!ExecuteUpdate,
            QueueP!RemoveFromQueue, QueueP!Step, QueueP!FindAny, QueueP!FindItem, QueueP!Reload,
            QueueP!InsertConflict, QueueP!UpdateChanged, QueueP!Notify, QueueP!Fail, QueueP!Write
      <3>2. id = QueueP!InsertedId(r)
        BY <1>2, <2>2, <3>1 DEF QueueP!Insert, QueueP!Write
      <3>3. entity[r] # NULL /\ job[r].kind \in {"add", "update"}
        BY <3>1 DEF QueueP!Insert, QueueP!Control
      <3>4. CASE entity[r].id # NULL
        BY <1>1, <3>2, <3>3, <3>4 DEF Keys, QueueP!InsertedId, QueueP!Coalesce
      <3>5. CASE entity[r].id = NULL
        BY <3>1, <3>2, <3>3, <3>5
        DEF QueueP!InsertedId, QueueP!Coalesce, QueueP!Insert, QueueP!Goto, QueueP!AfterSave,
            Entered
      <3> QED BY <3>4, <3>5
    <2> QED BY <2>1, <2>2
  <1>3. ASSUME NEW r \in Request, entity'[r] # NULL, entity'[r].id # NULL,
               NEW id, id = entity'[r].id
        PROVE  Entered(id)'
    <2>1. CASE entity'[r] = entity[r]
      <3>1. id \in Request
        BY <1>3, <2>1 DEF QueueP!Item
      <3> QED BY <1>1, <1>3, <2>1, <3>1 DEF Keys
    <2>2. CASE entity'[r] # entity[r]
      <3>1. QueueP!FindAny(r) \/ QueueP!FindItem(r)
        BY <2>2, Begins
        DEF QueueMove, Halt, queueVars, QueueP!Step, QueueP!FindAny, QueueP!FindItem,
            QueueP!Save, QueueP!Reload, QueueP!Insert,
            QueueP!InsertConflict, QueueP!UpdateChanged, QueueP!Notify, QueueP!Fail
      <3>2. id \in QueueP!RowsOf(job[r].workOrderId)
        BY <1>3, <3>1 DEF QueueP!FindAny, QueueP!FindItem, QueueP!Save
      <3> QED BY <1>1, <3>2 DEF Keys, QueueP!RowsOf
    <2> QED BY <2>1, <2>2
  <1> QED BY <1>2, <1>3 DEF Keys, Entered

LEMMA FailuresGrow ==
  ASSUME PartsInv, [Next]_vars, NEW m \in WorkOrderMessage
  PROVE  /\ workFailures[m] \in Nat /\ workFailures'[m] \in Nat
         /\ workFailures'[m] >= workFailures[m]
  <1>1. workFailures \in [WorkOrderMessage -> Nat]
    BY DEF PartsInv, WorkP!Inv, WorkP!TypeOK
  <1>2. \/ UNCHANGED workFailures
        \/ \E n : workFailures' = [workFailures EXCEPT ![n] = @ + 1]
    BY WorkMoves
    DEF Work!Next, Work!vars, Work!history, Work!Publish, Work!Deliver, Work!Run,
        Work!HandleEnds, Work!Answer, Work!Succeed, Work!Throw, Work!Refuse, Work!Ack,
        Work!Nack, Work!Retry, Work!LoseConnection, Work!Crash, Work!LoseChannel,
        Work!ConsumeDlq, Work!LoseDlqAck, Work!Idle
  <1> QED BY <1>1, <1>2

(* While no connection is lost there is one channel. *)
LEMMA OneChannel ==
  ASSUME PartsInv, WorkP!Copies, workLosses = 0,
         NEW c \in Work!Channel, workHandler[c] # NULL
  PROVE  c = 0 /\ c = workChannel
  <1>1. c \in WorkP!Channel /\ c \in Nat
    BY BoundAssumption DEF Work!Channel, WorkP!Channel
  <1>2. c <= workChannel
    BY <1>1, WorkP!Handling, WorkPAssumptions DEF PartsInv, WorkP!Copies
  <1>3. workChannel = 0
    BY DEF PartsInv, WorkP!Inv, WorkP!TypeOK
  <1> QED BY <1>1, <1>2, <1>3

LEMMA TriedStays ==
  ASSUME AckInv, WorkP!Copies, [Next]_vars, workLosses = 0, workLosses' = 0,
         NEW r \in Request, NEW m \in WorkOrderMessage, Tried(r, m)
  PROVE  Tried(r, m)'
  <1> USE DEF AckInv
  <1>1. CASE workFailures[m] > 0
    BY <1>1, FailuresGrow DEF Tried
  <1>2. CASE m \in workAcked
    <2>1. workAcked \subseteq workAcked'
      BY WorkMoves
      DEF Work!Next, Work!vars, Work!history, Work!Publish, Work!Deliver, Work!Run,
          Work!HandleEnds, Work!Answer, Work!Succeed, Work!Throw, Work!Refuse, Work!Ack,
          Work!Nack, Work!Retry, Work!LoseConnection, Work!Crash, Work!LoseChannel,
          Work!ConsumeDlq, Work!LoseDlqAck, Work!Idle
    <2> QED BY <1>2, <2>1 DEF Tried
  <1>3. ASSUME NEW c \in Work!Channel, workHandler[c] # NULL, Work!MessageOf(c) = m,
               run[<<"work", c>>] = r \/ Work!At(c, "handled")
        PROVE  Tried(r, m)'
    <2>1. /\ run \in [Slot -> Request \cup {NULL}] /\ r # NULL
          /\ workHandler \in [Work!Channel -> WorkP!Handler \cup {NULL}]
          /\ c = workChannel
      BY <1>3, OneChannel, NullAssumption
      DEF PartsInv, Typed, WorkP!Inv, WorkP!TypeOK, WorkP!Channel, Work!Channel
    <2>2. ASSUME workHandler'[c] = workHandler[c], run'[<<"work", c>>] = run[<<"work", c>>]
          PROVE  Tried(r, m)'
      BY <1>3, <2>2 DEF Tried, Work!MessageOf, Work!At
    <2>3. ASSUME NEW b \in Work!Channel, ReceiveWorkOrder(b)
          PROVE  Tried(r, m)'
      <3>1. b # c
        BY <1>3, <2>1, <2>3 DEF ReceiveWorkOrder, Work!At
      <3> QED BY <2>1, <2>2, <2>3, <3>1 DEF ReceiveWorkOrder, Assign, workVars, Slot
    <2>4. ASSUME NEW b \in Work!Channel, ReceiptEnds(b)
          PROVE  Tried(r, m)'
      <3>1. CASE b # c
        BY <2>1, <2>2, <2>4, <3>1
        DEF ReceiptEnds, Assign, Work!Succeed, Work!Throw, Work!Reach, Slot
      <3>2. CASE b = c /\ Work!Succeed(c)
        <4>1. /\ workHandler'[c] = [workHandler[c] EXCEPT !.at = "handled"]
              /\ workHandler[c] \in WorkP!Handler
          BY <1>3, <2>1, <3>2 DEF Work!Succeed, Work!Reach
        <4>2. workHandler'[c] \in WorkP!Handler /\ workHandler'[c].at = "handled"
              /\ workHandler'[c].packet = workHandler[c].packet
          BY <4>1 DEF WorkP!Handler
        <4>3. workHandler'[c] # NULL
          BY <4>2, WorkPAssumptions DEF WorkP!NoHandlerAssumption
        <4> QED BY <1>3, <4>2, <4>3 DEF Tried, Work!MessageOf, Work!At
      <3>3. CASE b = c /\ Work!Throw(c)
        <4>1. workFailures'[m] = workFailures[m] + 1 /\ workFailures[m] \in Nat
          BY <1>3, <3>3 DEF Work!Throw, PartsInv, WorkP!Inv, WorkP!TypeOK
        <4>2. workFailures'[m] > 0
          BY <4>1
        <4> QED BY <4>2 DEF Tried
      <3> QED BY <2>4, <3>1, <3>2, <3>3 DEF ReceiptEnds
    <2>5. ASSUME NEW b \in Work!Channel, CompensateProduction(b) \/ CompensationEnds(b)
          PROVE  Tried(r, m)'
      BY <2>1, <2>2, <2>5 DEF CompensateProduction, CompensationEnds, Assign, workVars, Slot
    <2>6. CASE WorkConsumerStep
      <3>1. UNCHANGED run
        BY <2>6 DEF WorkConsumerStep
      <3>2. CASE UNCHANGED workHandler
        BY <2>2, <3>1, <3>2
      <3>3. CASE Work!Deliver
        BY <1>3, <2>1, <3>3 DEF Work!Deliver
      <3>4. ASSUME NEW b \in Work!Channel, b # c, Work!Ack(b) \/ Work!Nack(b) \/ Work!Retry(b)
            PROVE  Tried(r, m)'
        BY <2>1, <2>2, <3>1, <3>4 DEF Work!Ack, Work!Nack, Work!Retry, Work!EndHandler
      <3>5. CASE Work!Ack(c)
        BY <1>3, <2>1, <3>5 DEF Work!Ack, Tried
      <3>6. ~(Work!Nack(c) \/ Work!Retry(c))
        BY <1>3, <2>1 DEF Work!Nack, Work!Retry, Work!At, Attempts
      <3> QED
        BY <2>6, <3>2, <3>3, <3>4, <3>5, <3>6
        DEF WorkConsumerStep, Work!Publish, Work!ConsumeDlq
    <2>7. ASSUME UNCHANGED <<workHandler, run>> PROVE Tried(r, m)'
      BY <2>2, <2>7
    <2>8. ~Crash
      BY DEF Crash, Work!Crash, Work!LoseChannel
    <2> QED
      BY <2>3, <2>4, <2>5, <2>6, <2>7, <2>8
      DEF Next, vars, workVars, SagaConsumerStep, PublishCompensation, Statement, Patch,
          LoseConnection, Work!LoseConnection
  <1> QED BY <1>1, <1>2, <1>3 DEF Tried

(* A receipt begins when a handler that has no request calls the strategy. *)
LEMMA ReceiptBegins ==
  ASSUME AckInv, [Next]_vars, NEW wo, NEW r \in Begun("add", wo)', r \notin Begun("add", wo)
  PROVE  \E c \in Work!Channel :
           /\ ReceiveWorkOrder(c) /\ run'[<<"work", c>>] = r
           /\ Work!MessageOf(c) \in About(wo)
           /\ \A q \in Request : q # r => job'[q] = job[q]
  <1> USE DEF AckInv, PartsInv
  <1>1. /\ r \in Request /\ job'[r] # NULL /\ job'[r].kind = "add" /\ job'[r].workOrderId = wo
        /\ job' # job
        /\ job \in [Request -> QueueP!Job \cup {NULL}]
        /\ run \in [Slot -> Request \cup {NULL}]
    BY DEF Begun, QueueP!Inv, QueueP!TypeOK, Typed
  <1>2. ASSUME NEW q \in Request, NEW request, NEW label, Queue!Begin(q, request, label)
        PROVE  job'[r] = request /\ q = r /\ \A p \in Request : p # r => job'[p] = job[p]
    <2>1. job' = [job EXCEPT ![q] = request]
      BY <1>2 DEF Queue!Begin
    <2>2. q = r
      BY <1>1, <2>1 DEF Begun
    <2> QED BY <1>1, <2>1, <2>2
  <1>3. ASSUME NEW q \in Request, NEW wo2, NEW status, Queue!ExecuteUpdate(q, wo2, status)
        PROVE  FALSE
    BY <1>1, <1>2, <1>3 DEF Queue!ExecuteUpdate
  <1>4. ASSUME NEW q \in Request, NEW wo2, Queue!RemoveFromQueue(q, wo2)
        PROVE  FALSE
    BY <1>1, <1>2, <1>4 DEF Queue!RemoveFromQueue
  <1>5. ASSUME NEW c \in Work!Channel, ReceiveWorkOrder(c)
        PROVE  /\ run'[<<"work", c>>] = r /\ Work!MessageOf(c) \in About(wo)
               /\ \A q \in Request : q # r => job'[q] = job[q]
    <2>1. PICK q \in Request :
            /\ Queue!AddWorkOrder(q, payload[Work!MessageOf(c)].workOrderId,
                                  payload[Work!MessageOf(c)].details)
            /\ run' = [run EXCEPT ![<<"work", c>>] = q]
      BY <1>5 DEF ReceiveWorkOrder, Assign
    <2>2. q = r /\ job'[r].workOrderId = payload[Work!MessageOf(c)].workOrderId
          /\ \A p \in Request : p # r => job'[p] = job[p]
      BY <1>2, <2>1 DEF Queue!AddWorkOrder
    <2>3. workHandler[c] # NULL
      BY <1>5 DEF ReceiveWorkOrder, Work!At
    <2> QED BY <1>1, <2>1, <2>2, <2>3, WorkPayload DEF About, Slot
  <1>6. ASSUME NEW q \in Request, Statement(q) PROVE UNCHANGED job
    BY <1>6, StepSame
    DEF Statement, QueueP!Step, QueueP!FindAny, QueueP!FindItem, QueueP!Reload, QueueP!Insert,
        QueueP!InsertConflict, QueueP!UpdateChanged, QueueP!Notify, QueueP!Fail
  <1> QED
    BY <1>1, <1>3, <1>4, <1>5, <1>6
    DEF Next, vars, queueVars, ReceiptEnds, CompensateProduction, CompensationEnds,
        WorkConsumerStep, SagaConsumerStep, PublishCompensation, Patch, LoseConnection, Crash

LEMMA AboutStays ==
  ASSUME [Next]_vars
  PROVE  payload' = payload /\ \A wo : About(wo)' = About(wo)
  BY DEF Next, vars, ReceiveWorkOrder, CompensateProduction, ReceiptEnds, CompensationEnds,
         WorkConsumerStep, SagaConsumerStep, PublishCompensation, Statement, Patch,
         LoseConnection, Crash, About

LEMMA TracedStep ==
  ASSUME ReceiptInv, [Next]_vars
  PROVE  Traced'
  <1> USE DEF ReceiptInv, AckInv
  <1> SUFFICES ASSUME workLosses' = 0, NEW wo \in WorkOrder, NEW r \in Begun("add", wo)'
               PROVE  \E m \in About(wo) : Tried(r, m)'
    BY AboutStays DEF Traced
  <1>1. workLosses = 0
    BY LossesGrow DEF PartsInv, WorkP!Inv, WorkP!TypeOK
  <1>2. CASE r \in Begun("add", wo)
    <2>1. PICK m \in About(wo) : Tried(r, m)
      BY <1>1, <1>2 DEF Traced
    <2>2. r \in Request /\ m \in WorkOrderMessage
      BY DEF Begun, About
    <2> QED BY <1>1, <2>1, <2>2, TriedStays
  <1>3. CASE r \notin Begun("add", wo)
    <2>1. PICK c \in Work!Channel :
            /\ ReceiveWorkOrder(c) /\ run'[<<"work", c>>] = r
            /\ Work!MessageOf(c) \in About(wo)
      BY <1>3, ReceiptBegins
    <2>2. PICK m \in About(wo) : m = Work!MessageOf(c)
      BY <2>1
    <2>3. workHandler[c] # NULL /\ workHandler' = workHandler
      BY <2>1 DEF ReceiveWorkOrder, Work!At, workVars
    <2>4. Tried(r, m)'
      BY <2>1, <2>2, <2>3 DEF Tried, Work!MessageOf
    <2> QED BY <2>4
  <1> QED BY <1>2, <1>3

(* A receipt is not begun a second time while nothing failed: the message  *)
(* would have to be held by a handler that has not yet called the strategy *)
(* and by one that has.                                                    *)
LEMMA SingleStep ==
  ASSUME ReceiptInv, [Next]_vars
  PROVE  Single'
  <1> USE DEF ReceiptInv, AckInv
  <1> SUFFICES ASSUME NEW wo \in WorkOrder, Smooth(wo)',
                      NEW q \in Begun("add", wo)', NEW r \in Begun("add", wo)', q # r
               PROVE  FALSE
    BY DEF Single
  <1>1. q \in Request /\ r \in Request
    BY DEF Begun
  <1>2. Smooth(wo)
    <2>1. workLosses = 0
      BY LossesGrow DEF Smooth, PartsInv, WorkP!Inv, WorkP!TypeOK
    <2>2. ASSUME NEW m \in About(wo) PROVE workFailures[m] = 0
      <3>1. m \in WorkOrderMessage /\ workFailures'[m] = 0
        BY AboutStays DEF Smooth, About
      <3> QED BY <3>1, FailuresGrow
    <2>3. \A m, n \in About(wo) : m = n
      BY AboutStays DEF Smooth
    <2> QED BY <2>1, <2>2, <2>3 DEF Smooth
  <1>3. ASSUME NEW p \in Request, NEW new \in Request, p # new,
               p \in Begun("add", wo)', new \in Begun("add", wo)', new \notin Begun("add", wo)
        PROVE  FALSE
    <2>1. PICK c \in Work!Channel :
            /\ ReceiveWorkOrder(c) /\ Work!MessageOf(c) \in About(wo)
            /\ \A o \in Request : o # new => job'[o] = job[o]
      BY <1>3, ReceiptBegins
    <2>2. p \in Begun("add", wo)
      BY <1>3, <2>1 DEF Begun
    <2>3. PICK m \in About(wo) : Tried(p, m)
      BY <1>2, <2>2 DEF Traced, Smooth
    <2>4. m = Work!MessageOf(c) /\ ~(workFailures[m] > 0)
      BY <1>2, <2>1 DEF Smooth
    <2>5. workHandler[c] # NULL /\ Work!At(c, "handle") /\ run[<<"work", c>>] = NULL
      BY <2>1 DEF ReceiveWorkOrder, Work!At
    <2>6. m \notin workAcked
      BY <1>2, <2>4, <2>5, HeldIsNotSettled DEF Smooth, Work!Settled
    <2>7. PICK b \in Work!Channel :
            workHandler[b] # NULL /\ (run[<<"work", b>>] = p \/ Work!At(b, "handled"))
      BY <2>3, <2>4, <2>6 DEF Tried
    <2>8. b = c
      BY <1>2, <2>5, <2>7, OneChannel DEF Smooth
    <2>9. p # NULL
      BY NullAssumption
    <2> QED BY <2>5, <2>7, <2>8, <2>9 DEF Work!At
  <1> QED BY <1>1, <1>2, <1>3 DEF Single

LEMMA ReceiptStep == ReceiptInv /\ [Next]_vars => ReceiptInv'
  <1> SUFFICES ASSUME ReceiptInv, [Next]_vars PROVE ReceiptInv'
    OBVIOUS
  <1>1. AckInv'
    BY AckStep DEF ReceiptInv
  <1>2. WorkP!Copies'
    <2>1. [WorkP!Next]_(WorkP!vars)
      BY WorkMoves, WorkSame
    <2> QED BY <2>1, WorkP!CopiesStep, WorkPAssumptions DEF ReceiptInv, AckInv, PartsInv
  <1>3. Keys'
    BY KeysStep, QueueMoves DEF ReceiptInv, AckInv, PartsInv
  <1> QED BY <1>1, <1>2, <1>3, TracedStep, SingleStep DEF ReceiptInv

LEMMA ReceiptInit == Init => ReceiptInv
  <1> SUFFICES ASSUME Init PROVE ReceiptInv
    OBVIOUS
  <1>1. WorkP!Copies
    BY CompensationInit DEF CompensationInv
  <1>2. Keys /\ Traced /\ Single
    BY DEF Init, Queue!Init, Keys, Traced, Single, Begun
  <1> QED BY <1>1, <1>2, AckInit DEF ReceiptInv

(* The receipt that puts a row back in the queue is not the request that   *)
(* made the row, which has ended.                                          *)
LEMMA Undoing ==
  ASSUME ReceiptInv, [Next]_vars, NEW r \in Request, NEW id \in Request,
         pc'[r] # pc[r], job'[r].kind = "add",
         table[id] # NULL, table'[id] # NULL, table'[id] # table[id],
         NEW wo, wo = table[id].workOrderId, Smooth(wo)
  PROVE  job[id].kind = "update"
  <1> USE DEF ReceiptInv, AckInv, PartsInv, QueueP!Inv, QueueP!TypeOK
  <1>1. PICK q \in Request : Statement(q)
    BY DEF Next, vars, queueVars, ReceiveWorkOrder, CompensateProduction, ReceiptEnds,
           CompensationEnds, WorkConsumerStep, SagaConsumerStep, PublishCompensation,
           Patch, LoseConnection, Crash, Queue!AddWorkOrder, Queue!ExecuteUpdate,
           Queue!RemoveFromQueue, Queue!RowsOf, Queue!Write
  <1>2. QueueP!Step(q) /\ UNCHANGED job
    BY <1>1, StepSame
    DEF Statement, QueueP!Step, QueueP!FindAny, QueueP!FindItem, QueueP!Reload, QueueP!Insert,
        QueueP!InsertConflict, QueueP!UpdateChanged, QueueP!Notify, QueueP!Fail
  <1>3. QueueP!UpdateChanged(q)
    BY <1>2
    DEF QueueP!Step, QueueP!FindAny, QueueP!FindItem, QueueP!Reload, QueueP!Insert,
        QueueP!ViolatesUnique, QueueP!Write, QueueP!InsertConflict, QueueP!Notify, QueueP!Fail
  <1>4. q = r /\ pc[r] = "update" /\ entity[r] # NULL /\ entity[r].id = id
    BY <1>3 DEF QueueP!UpdateChanged, QueueP!Goto, QueueP!Write, QueueP!Control
  <1>5. r # id /\ job[id].kind \in {"add", "update"}
    BY <1>4 DEF Keys, Entered
  <1>6. /\ wo \in WorkOrder /\ job[id] # NULL /\ job[id].workOrderId = wo
        /\ job[r] # NULL /\ job[r].workOrderId = wo /\ job[r].kind = "add"
    <2>1. /\ job[id] # NULL /\ job[id].workOrderId = wo
          /\ job[r] # NULL /\ job[r].workOrderId = wo /\ job[r].kind = "add"
      BY <1>2, <1>4, NullAssumption DEF QueueP!RowIdentity, QueueP!Copy
    <2>2. table[id] \in QueueP!Row
      OBVIOUS
    <2> QED BY <2>1, <2>2 DEF QueueP!Row
  <1>7. job[id].kind # "add"
    BY <1>5, <1>6 DEF Single, Begun
  <1> QED BY <1>5, <1>7

(* A receipt undoes work only after a failure, a lost connection or a      *)
(* second message, or on a row a PATCH had made, for any number of         *)
(* messages, requests and attempts.                                        *)
THEOREM WorkIsNotUndone == Spec => ReceiptUndoesNoWork
  <1> DEFINE Allowed ==
        \A r, id \in Request :
          /\ pc'[r] # pc[r] /\ job'[r].kind = "add"
          /\ table[id] # NULL /\ table'[id] # NULL
          /\ table[id].status # "QUEUED" /\ table'[id].status = "QUEUED"
          => LET wo == table[id].workOrderId IN
             \/ workLosses > 0
             \/ \E m \in About(wo) : workFailures[m] > 0
             \/ \E m, n \in About(wo) : m # n
             \/ job[id].kind = "update"
  <1>1. ReceiptInv /\ [Next]_vars => [Allowed]_vars
    <2> SUFFICES ASSUME ReceiptInv, [Next]_vars, NEW r \in Request, NEW id \in Request,
                        pc'[r] # pc[r], job'[r].kind = "add",
                        table[id] # NULL, table'[id] # NULL,
                        table[id].status # "QUEUED", table'[id].status = "QUEUED",
                        NEW wo, wo = table[id].workOrderId,
                        ~(workLosses > 0), ~(\E m \in About(wo) : workFailures[m] > 0),
                        ~(\E m, n \in About(wo) : m # n)
                 PROVE  job[id].kind = "update"
      OBVIOUS
    <2>1. Smooth(wo)
      <3>1. workLosses \in Nat /\ \A m \in About(wo) : workFailures[m] \in Nat
        BY DEF ReceiptInv, AckInv, PartsInv, WorkP!Inv, WorkP!TypeOK, About
      <3> QED BY <3>1 DEF Smooth
    <2> QED BY <2>1, Undoing
  <1>2. Spec => []ReceiptInv
    BY ReceiptInit, ReceiptStep, PTL DEF Spec
  <1> QED BY <1>1, <1>2, PTL DEF Spec, ReceiptUndoesNoWork
-----------------------------------------------------------------------------
(* The parts keep in company what they promise alone.  A crash is the one  *)
(* step that their own proofs do not know: it ends the requests of the     *)
(* table, which leaves the rows, the copies and what was sent as they are. *)
LEMMA HaltViews == QueueP!Inv /\ QueueP!Views /\ Halt => QueueP!Views'
  <1> SUFFICES ASSUME QueueP!Inv, QueueP!Views, Halt, NEW r \in Request
               PROVE  QueueP!View(r)'
    BY DEF QueueP!Views
  <1>1. CASE pc'[r] = "failed"
    BY <1>1 DEF QueueP!View
  <1>2. CASE pc'[r] = pc[r]
    BY <1>2 DEF Halt, QueueP!Views, QueueP!View, QueueP!RowsOf, QueueP!Computed, QueueP!ComputedNew
  <1> QED BY <1>1, <1>2 DEF Halt

LEMMA HaltStamps == QueueP!Inv /\ QueueP!Stamps /\ Halt => QueueP!Stamps'
  <1> SUFFICES ASSUME QueueP!Inv, QueueP!Stamps, Halt PROVE QueueP!Stamps'
    OBVIOUS
  <1>1. /\ UNCHANGED <<table, job, entity, published>>
        /\ \A r \in Request : pc'[r] \in {pc[r], "failed"}
    BY DEF Halt
  <1>2. \A id \in Request :
          /\ table[id] # NULL => table[id].completedAt \in Request \cup {NULL}
          /\ entity[id] # NULL => entity[id].row.completedAt \in Request \cup {NULL}
    BY DEF QueueP!Inv, QueueP!TypeOK, QueueP!Item, QueueP!Row, QueueP!Stamp
  <1>3. QueueP!StampsOfRows'
    BY <1>1, <1>2 DEF QueueP!Stamps, QueueP!StampsOfRows, QueueP!Announced
  <1>4. QueueP!StampsOfCopies'
    BY <1>1, <1>2 DEF QueueP!Stamps, QueueP!StampsOfCopies, QueueP!Announced
  <1> QED BY <1>3, <1>4 DEF QueueP!Stamps

CompanyInv == PartsInv /\ WorkP!Copies /\ SagaP!Copies /\ QueueP!Views /\ QueueP!Stamps

LEMMA CompanyInit == Init => CompanyInv
  <1> SUFFICES ASSUME Init PROVE CompanyInv
    OBVIOUS
  <1>1. PartsInv /\ WorkP!Copies /\ SagaP!Copies
    BY CompensationInit DEF CompensationInv, AckInv
  <1>2. QueueP!Views /\ QueueP!Stamps
    <2>1. QueueP!Init
      BY DEF Init, Queue!Init, QueueP!Init
    <2> QED BY <2>1, QueueP!InitViews, QueueP!InitStamps, QueuePAssumptions
  <1> QED BY <1>1, <1>2 DEF CompanyInv

LEMMA CompanyStep == CompanyInv /\ [Next]_vars => CompanyInv'
  <1> SUFFICES ASSUME CompanyInv, [Next]_vars PROVE CompanyInv'
    OBVIOUS
  <1>1. PartsInv'
    BY PartsStep DEF CompanyInv
  <1>2. WorkP!Copies'
    BY WorkMoves, WorkSame, WorkP!CopiesStep, WorkPAssumptions DEF CompanyInv, PartsInv
  <1>3. SagaP!Copies'
    BY SagaMoves, SagaSame, SagaP!CopiesStep, SagaPAssumptions DEF CompanyInv, PartsInv
  <1>4. QueueP!Views' /\ QueueP!Stamps'
    <2>1. QueueMove
      BY QueueMoves DEF CompanyInv
    <2>2. CASE Halt
      BY <2>2, HaltViews, HaltStamps DEF CompanyInv, PartsInv
    <2>3. CASE ~Halt
      <3>1. [QueueP!Next]_(QueueP!vars)
        BY <2>1, <2>3 DEF QueueMove, QueueP!Next, QueueP!vars, queueVars
      <3> QED BY <1>1, <3>1, QueueP!ViewsStep, QueueP!StampsStep, QueuePAssumptions
          DEF CompanyInv, PartsInv
    <2> QED BY <2>2, <2>3
  <1> QED BY <1>1, <1>2, <1>3, <1>4 DEF CompanyInv

LEMMA CompanyHolds == Spec => []CompanyInv
  BY CompanyInit, CompanyStep, PTL DEF Spec

(* An attempt of the service is a request of many statements, a crash ends *)
(* the attempts of both consumers: still a message fails no more often     *)
(* than MaxRetries for its delivery and for each connection lost.          *)
THEOREM RetriesInCompany == Spec => [](Work!RetriesAreBounded /\ Saga!RetriesAreBounded)
  <1>1. Init => WorkP!Accounted /\ SagaP!Accounted
    <2> SUFFICES ASSUME Init PROVE WorkP!Accounted /\ SagaP!Accounted
      OBVIOUS
    <2>1. WorkP!Init
      BY DEF Init, Work!Init, WorkP!Init, Work!Kind, WorkP!Kind, Work!Channel, WorkP!Channel
    <2>2. SagaP!Init
      BY DEF Init, Saga!Init, SagaP!Init, Saga!Kind, SagaP!Kind, Saga!Channel, SagaP!Channel
    <2> QED BY <2>1, <2>2, WorkP!AccountedInit, SagaP!AccountedInit, WorkPAssumptions, SagaPAssumptions
  <1>2. CompanyInv /\ WorkP!Accounted /\ [Next]_vars => WorkP!Accounted'
    BY WorkMoves, WorkSame, WorkP!AccountedStep, WorkPAssumptions
    DEF CompanyInv, PartsInv, WorkP!Copies
  <1>3. CompanyInv /\ SagaP!Accounted /\ [Next]_vars => SagaP!Accounted'
    BY SagaMoves, SagaSame, SagaP!AccountedStep, SagaPAssumptions
    DEF CompanyInv, PartsInv, SagaP!Copies
  <1>4. CompanyInv /\ WorkP!Accounted => Work!RetriesAreBounded
    BY WorkP!AccountedBounds, WorkPAssumptions
    DEF CompanyInv, PartsInv, WorkP!RetriesAreBounded, Work!RetriesAreBounded
  <1>5. CompanyInv /\ SagaP!Accounted => Saga!RetriesAreBounded
    BY SagaP!AccountedBounds, SagaPAssumptions
    DEF CompanyInv, PartsInv, SagaP!RetriesAreBounded, Saga!RetriesAreBounded
  <1> QED BY <1>1, <1>2, <1>3, <1>4, <1>5, CompanyHolds, PTL DEF Spec

(* While a consumer keeps its connection, its attempts that took effect    *)
(* ended in the order in which their messages were published.              *)
THEOREM OrderInCompany == Spec => [](Work!OrderedWithoutLoss /\ Saga!OrderedWithoutLoss)
  <1>1. Init => WorkP!OrderInv /\ SagaP!OrderInv
    <2> SUFFICES ASSUME Init PROVE WorkP!OrderInv /\ SagaP!OrderInv
      OBVIOUS
    <2>1. WorkP!Init
      BY DEF Init, Work!Init, WorkP!Init, Work!Kind, WorkP!Kind, Work!Channel, WorkP!Channel
    <2>2. SagaP!Init
      BY DEF Init, Saga!Init, SagaP!Init, Saga!Kind, SagaP!Kind, Saga!Channel, SagaP!Channel
    <2> QED BY <2>1, <2>2, WorkP!OrderInit, SagaP!OrderInit, WorkPAssumptions, SagaPAssumptions
  <1>2. CompanyInv /\ WorkP!OrderInv /\ [Next]_vars => WorkP!OrderInv'
    BY WorkMoves, WorkSame, WorkP!OrderStep, WorkPAssumptions
    DEF CompanyInv, PartsInv, WorkP!Copies
  <1>3. CompanyInv /\ SagaP!OrderInv /\ [Next]_vars => SagaP!OrderInv'
    BY SagaMoves, SagaSame, SagaP!OrderStep, SagaPAssumptions
    DEF CompanyInv, PartsInv, SagaP!Copies
  <1>4. WorkP!OrderInv => Work!OrderedWithoutLoss
    BY DEF WorkP!OrderInv, WorkP!InOrder, Work!OrderedWithoutLoss, WorkP!Before, Work!Before
  <1>5. SagaP!OrderInv => Saga!OrderedWithoutLoss
    BY DEF SagaP!OrderInv, SagaP!InOrder, Saga!OrderedWithoutLoss, SagaP!Before, Saga!Before
  <1> QED BY <1>1, <1>2, <1>3, <1>4, <1>5, CompanyHolds, PTL DEF Spec

(* Whatever messages, PATCH calls, lost connections and crashes meet on    *)
(* the table: an order has one row, a completion on record was announced   *)
(* unless the handler that stamped it failed, and only a handler that lost *)
(* a race meets the UNIQUE constraint.                                     *)
THEOREM TableIsSound ==
  Spec => [](Queue!OneRowPerWorkOrder /\ Queue!StampedIsAnnounced /\ Queue!ConflictOnlyUnderRace)
  <1>1. CompanyInv => Queue!OneRowPerWorkOrder
    BY DEF CompanyInv, PartsInv, QueueP!Inv, QueueP!OneRowPerWorkOrder, Queue!OneRowPerWorkOrder,
           QueueP!RowsOf, Queue!RowsOf
  <1>2. CompanyInv => Queue!StampedIsAnnounced
    BY DEF CompanyInv, QueueP!Stamps, QueueP!StampsOfRows, QueueP!Announced,
           Queue!StampedIsAnnounced
  <1>3. CompanyInv => Queue!ConflictOnlyUnderRace
    BY DEF CompanyInv, QueueP!Views, QueueP!View, Queue!ConflictOnlyUnderRace
  <1> QED BY <1>1, <1>2, <1>3, CompanyHolds, PTL

(* The lifecycle of the instance and of its proofs is the same. *)
LEMMA LifecycleSame ==
  [QueueP!Lifecycle!Next]_(QueueP!Lifecycle!vars) => [Queue!Lifecycle!Next]_(Queue!Lifecycle!vars)
  BY Zenon DEF Queue!Lifecycle!Next, QueueP!Lifecycle!Next, Queue!Lifecycle!vars,
         QueueP!Lifecycle!vars, Queue!Lifecycle!OnlyChanges, QueueP!Lifecycle!OnlyChanges,
         Queue!Lifecycle!WellStamped, QueueP!Lifecycle!WellStamped, Queue!Lifecycle!Receive,
         QueueP!Lifecycle!Receive, Queue!Lifecycle!Advance, QueueP!Lifecycle!Advance,
         Queue!Lifecycle!Compensate, QueueP!Lifecycle!Compensate, Queue!Lifecycle!Announce,
         QueueP!Lifecycle!Announce, Queue!Lifecycle!Row, QueueP!Lifecycle!Row,
         Queue!Lifecycle!Stamp, QueueP!Lifecycle!Stamp, Queue!Lifecycle!ProductionStatus,
         QueueP!Lifecycle!ProductionStatus, Queue!Lifecycle!StatusOrder,
         QueueP!Lifecycle!StatusOrder, Queue!Orders, QueueP!Orders, Queue!OrderOf,
         QueueP!OrderOf, Queue!RowsOf, QueueP!RowsOf

(* A handler whose row no other handler wrote since it began keeps the     *)
(* lifecycle of the order also among consumers, retries and crashes.       *)
THEOREM LifecycleInCompany == Spec => Queue!UndisturbedStepsImplementLifecycle
  <1> DEFINE Allowed ==
        \A r \in Request :
          pc'[r] # pc[r] /\ r \notin disturbed =>
            [Queue!Lifecycle!Next]_(Queue!Lifecycle!vars)
  <1>1. CompanyInv /\ CompanyInv' /\ [Next]_vars => [Allowed]_(Queue!vars)
    <2> SUFFICES ASSUME CompanyInv, CompanyInv', [Next]_vars, NEW q \in Request,
                        pc'[q] # pc[q], q \notin disturbed
                 PROVE  [QueueP!Lifecycle!Next]_(QueueP!Lifecycle!vars)
      BY LifecycleSame
    <2>1. QueueMove
      BY QueueMoves DEF CompanyInv
    <2>2. ASSUME NEW r \in Request, (\E wo \in WorkOrder : QueueP!Start(r, wo)) \/ QueueP!Step(r)
          PROVE  [QueueP!Lifecycle!Next]_(QueueP!Lifecycle!vars)
      <3>1. q = r
        BY <2>2, QueueP!StepOf, QueuePAssumptions DEF CompanyInv, PartsInv
      <3> QED BY <2>2, <3>1, QueueP!UndisturbedStep, QueuePAssumptions DEF CompanyInv, PartsInv
    <2>3. CASE Halt
      BY <2>3, QueueP!QuietStep, QueuePAssumptions DEF Halt
    <2> QED BY <2>1, <2>2, <2>3 DEF QueueMove, queueVars
  <1> QED BY <1>1, CompanyHolds, PTL DEF Spec, Queue!UndisturbedStepsImplementLifecycle

(* The fates of an instance and of its proofs are the same. *)
LEMMA WorkFateSame ==
  /\ WorkP!Promise!Init => Work!Promise!Init
  /\ [WorkP!Promise!Next]_(WorkP!Promise!vars) => [Work!Promise!Next]_(Work!Promise!vars)
  BY DEF Work!Promise!Init, WorkP!Promise!Init, Work!Promise!Next, WorkP!Promise!Next,
         Work!Promise!vars, WorkP!Promise!vars, Work!Promise!Turn, WorkP!Promise!Turn,
         Work!Promise!Publish, WorkP!Promise!Publish, Work!Promise!Deliver,
         WorkP!Promise!Deliver, Work!Promise!Return, WorkP!Promise!Return,
         Work!Promise!Acknowledge, WorkP!Promise!Acknowledge, Work!Promise!Reject,
         WorkP!Promise!Reject, Work!Promise!Bury, WorkP!Promise!Bury, Work!Promise!Effect,
         WorkP!Promise!Effect, Work!FateOf, WorkP!FateOf, Work!Published, WorkP!Published,
         Work!Original, WorkP!Original

LEMMA SagaFateSame ==
  /\ SagaP!Promise!Init => Saga!Promise!Init
  /\ [SagaP!Promise!Next]_(SagaP!Promise!vars) => [Saga!Promise!Next]_(Saga!Promise!vars)
  BY DEF Saga!Promise!Init, SagaP!Promise!Init, Saga!Promise!Next, SagaP!Promise!Next,
         Saga!Promise!vars, SagaP!Promise!vars, Saga!Promise!Turn, SagaP!Promise!Turn,
         Saga!Promise!Publish, SagaP!Promise!Publish, Saga!Promise!Deliver,
         SagaP!Promise!Deliver, Saga!Promise!Return, SagaP!Promise!Return,
         Saga!Promise!Acknowledge, SagaP!Promise!Acknowledge, Saga!Promise!Reject,
         SagaP!Promise!Reject, Saga!Promise!Bury, SagaP!Promise!Bury, Saga!Promise!Effect,
         SagaP!Promise!Effect, Saga!FateOf, SagaP!FateOf, Saga!Published, SagaP!Published,
         Saga!Original, SagaP!Original

(* Both consumers keep the promise of MessageFate while their attempts are *)
(* statements on a shared table and crashes strike both at once.           *)
THEOREM FatesInCompany ==
  Spec => Work!ImplementsMessageFate /\ Saga!ImplementsMessageFate
  <1>1. Init => Work!Promise!Init /\ Saga!Promise!Init
    <2> SUFFICES ASSUME Init PROVE WorkP!Promise!Init /\ SagaP!Promise!Init
      BY WorkFateSame, SagaFateSame
    <2>1. WorkP!Init
      BY DEF Init, Work!Init, WorkP!Init, Work!Kind, WorkP!Kind, Work!Channel, WorkP!Channel
    <2>2. SagaP!Init
      BY DEF Init, Saga!Init, SagaP!Init, Saga!Kind, SagaP!Kind, Saga!Channel, SagaP!Channel
    <2> QED BY <2>1, <2>2, WorkP!FateInit, SagaP!FateInit, WorkPAssumptions, SagaPAssumptions
  <1>2. CompanyInv /\ [Next]_vars => [Work!Promise!Next]_(Work!Promise!vars)
    BY WorkMoves, WorkSame, WorkFateSame, WorkP!FateStep, WorkPAssumptions
    DEF CompanyInv, PartsInv, WorkP!Copies
  <1>3. CompanyInv /\ [Next]_vars => [Saga!Promise!Next]_(Saga!Promise!vars)
    BY SagaMoves, SagaSame, SagaFateSame, SagaP!FateStep, SagaPAssumptions
    DEF CompanyInv, PartsInv, SagaP!Copies
  <1> QED BY <1>1, <1>2, <1>3, CompanyHolds, PTL
      DEF Spec, Work!ImplementsMessageFate, Saga!ImplementsMessageFate,
          Work!Promise!Spec, Saga!Promise!Spec
=============================================================================
