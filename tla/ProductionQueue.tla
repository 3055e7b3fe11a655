---------------------------- MODULE ProductionQueue ----------------------------
(***************************************************************************)
(* The production queue as the code runs it: handlers of messages and of   *)
(* PATCH calls that interleave at every `await`, each a sequence of        *)
(* statements on one PostgreSQL table (READ COMMITTED, one transaction per *)
(* statement), each working on the copy of the row it read.                *)
(*                                                                         *)
(* A request is one run of one handler.  The first statement of a handler  *)
(* is the action that starts it.  TypeORM's save() is the statements it    *)
(* issues: reload the row by id, then INSERT if it is gone (or was never   *)
(* there), else UPDATE of the columns that differ.  A row's id is the      *)
(* request that first inserted it: a serial column never reuses a value.   *)
(***************************************************************************)
EXTENDS ProductionOrder

VARIABLES
  table,       \* production_queue_items: id -> row, or NULL
  pc,          \* the statement each request runs next, or how it ended
  job,         \* what each request asks
  entity,      \* the item a request is about to save: its id and its columns
  loaded,      \* the row save() reloaded to compare with
  published,   \* the status updates sent to the order service
  disturbed    \* history: requests whose row another request wrote under them

vars == <<table, pc, job, entity, loaded, published, disturbed>>

InFlight == {"findAny", "findItem", "reload", "insert", "update", "notify"}
Ended    == {"done", "rejected", "conflict", "failed"}

Job ==
       [kind : {"add"}, workOrderId : WorkOrder, details : Details \cup {NULL}]
  \cup [kind : {"update"}, workOrderId : WorkOrder, status : ProductionStatus]
  \cup [kind : {"remove"}, workOrderId : WorkOrder]

Item == [id : Request \cup {NULL}, row : Row]

ASSUME NullRecordAssumption == NULL \notin Job \cup Item

Init ==
  /\ table = [id \in Request |-> NULL]
  /\ pc = [r \in Request |-> "idle"]
  /\ job = [r \in Request |-> NULL]
  /\ entity = [r \in Request |-> NULL]
  /\ loaded = [r \in Request |-> NULL]
  /\ published = {}
  /\ disturbed = {}

RowsOf(wo) == {id \in Request : table[id] # NULL /\ table[id].workOrderId = wo}

Goto(r, label) == pc' = [pc EXCEPT ![r] = label]

Begin(r, request, label) ==
  /\ pc[r] = "idle"
  /\ job' = [job EXCEPT ![r] = request]
  /\ Goto(r, label)

(* The statement changes row `id`, of work order `wo`: every other request *)
(* in flight on that work order now acts on a row it has not seen.         *)
Write(r, wo, id, row) ==
  /\ table' = [table EXCEPT ![id] = row]
  /\ disturbed' = disturbed \cup
       {q \in Request \ {r} : pc[q] \in InFlight /\ job[q].workOrderId = wo}

Save(r, id, row, label) ==
  /\ entity' = [entity EXCEPT ![r] = [id |-> id, row |-> row]]
  /\ Goto(r, label)

(* A slip: a row that is made complete is not announced. *)
AfterSaveOfKnown(r) ==
  IF job[r].kind = "update" /\ job[r].status = "COMPLETED" /\ entity[r].id # NULL
  THEN "notify" ELSE "done"

(* Where a handler goes once its row is saved: only a PATCH to COMPLETED    *)
(* has something left to do.                                                *)
AfterSave(r) ==
  IF job[r].kind = "update" /\ job[r].status = "COMPLETED" THEN "notify" ELSE "done"

-----------------------------------------------------------------------------
(* addWorkOrderToQueue: SELECT a QUEUED row; a duplicate is ignored. *)
AddWorkOrder(r, wo, details) ==
  /\ Begin(r, [kind |-> "add", workOrderId |-> wo, details |-> details],
           IF \E id \in RowsOf(wo) : table[id].status = "QUEUED"
           THEN "done" ELSE "findAny")
  /\ UNCHANGED <<table, entity, loaded, published, disturbed>>

(* A slip: only finished rows count as already known. *)
FindAnyCompleted(r) ==
  LET wo == job[r].workOrderId
      known == {id \in RowsOf(wo) : table[id].status = "COMPLETED"} IN
  /\ pc[r] = "findAny"
  /\ \/ \E id \in known : Save(r, id, Requeued(table[id], job[r].details), "reload")
     \/ known = {} /\ Save(r, NULL, NewlyQueued(wo, job[r].details), "insert")
  /\ UNCHANGED <<table, job, loaded, published, disturbed>>

(* addWorkOrderToQueue: SELECT a row in any status, and requeue it or make *)
(* a new one.                                                              *)
FindAny(r) ==
  LET wo == job[r].workOrderId IN
  /\ pc[r] = "findAny"
  /\ \/ \E id \in RowsOf(wo) : Save(r, id, Requeued(table[id], job[r].details), "reload")
     \/ RowsOf(wo) = {} /\ Save(r, NULL, NewlyQueued(wo, job[r].details), "insert")
  /\ UNCHANGED <<table, job, loaded, published, disturbed>>

(* A slip: asked to complete a finished order, it only sends once more. *)
ExecuteUpdateResends(r, wo, status) ==
  LET finished == \E id \in RowsOf(wo) : table[id].status = "COMPLETED" IN
  /\ Begin(r, [kind |-> "update", workOrderId |-> wo, status |-> status],
           IF finished /\ status = "COMPLETED" THEN "notify"
           ELSE IF \E id \in RowsOf(wo) : Rejects(table[id], status) THEN "rejected"
           ELSE "findItem")
  /\ UNCHANGED <<table, entity, loaded, published, disturbed>>

(* execute: read the current row, refuse a finished order and a step back. *)
ExecuteUpdate(r, wo, status) ==
  /\ Begin(r, [kind |-> "update", workOrderId |-> wo, status |-> status],
           IF \E id \in RowsOf(wo) : Rejects(table[id], status)
           THEN "rejected" ELSE "findItem")
  /\ UNCHANGED <<table, entity, loaded, published, disturbed>>

(* updateItemStatus: read the row again and change the copy, or make one. *)
FindItem(r) ==
  LET wo == job[r].workOrderId  status == job[r].status IN
  /\ pc[r] = "findItem"
  /\ \/ \E id \in RowsOf(wo) : Save(r, id, Updated(table[id], status, r), "reload")
     \/ RowsOf(wo) = {} /\ Save(r, NULL, NewWithStatus(wo, status, r), "insert")
  /\ UNCHANGED <<table, job, loaded, published, disturbed>>

(* save of an item that has an id: SELECT by id.  A row that is gone is    *)
(* inserted, one that does not differ needs no statement.                  *)
Reload(r) ==
  LET row == table[entity[r].id] IN
  /\ pc[r] = "reload"
  /\ loaded' = [loaded EXCEPT ![r] = row]
  /\ Goto(r, IF row = NULL THEN "insert"
             ELSE IF row = entity[r].row THEN AfterSave(r) ELSE "update")
  /\ UNCHANGED <<table, job, entity, published, disturbed>>

(* A slip: the number of a removed row is given out again. *)
FirstFreeId(r) ==
  IF entity[r].id # NULL THEN entity[r].id ELSE CHOOSE id \in Request : table[id] = NULL

InsertedId(r) == Coalesce(entity[r].id, r)

(* A slip: a primary key, and no constraint on the work order. *)
ViolatesPrimaryKey(r) == table[InsertedId(r)] # NULL

(* The UNIQUE constraint on work_order_id, and the primary key. *)
ViolatesUnique(r) ==
  RowsOf(entity[r].row.workOrderId) # {} \/ table[InsertedId(r)] # NULL

Insert(r) ==
  /\ pc[r] = "insert"
  /\ ~ViolatesUnique(r)
  /\ Write(r, job[r].workOrderId, InsertedId(r), entity[r].row)
  /\ Goto(r, AfterSave(r))
  /\ UNCHANGED <<job, entity, loaded, published>>

InsertConflict(r) ==
  /\ pc[r] = "insert"
  /\ ViolatesUnique(r)
  /\ Goto(r, "conflict")
  /\ UNCHANGED <<table, job, entity, loaded, published, disturbed>>

(* UPDATE ... WHERE id: no row to update is not an error. *)
UpdateChanged(r) ==
  LET id == entity[r].id IN
  /\ pc[r] = "update"
  /\ \/ /\ table[id] # NULL
        /\ Write(r, job[r].workOrderId, id,
                 ChangedColumns(table[id], loaded[r], entity[r].row))
     \/ /\ table[id] = NULL
        /\ UNCHANGED <<table, disturbed>>
  /\ Goto(r, AfterSave(r))
  /\ UNCHANGED <<job, entity, loaded, published>>

(* sendStatusUpdate, awaited: the message is in the broker. *)
Notify(r) ==
  /\ pc[r] = "notify"
  /\ published' = published \cup
       {[workOrderId |-> job[r].workOrderId,
         status |-> WorkOrderStatus[job[r].status], finishedAt |-> r]}
  /\ Goto(r, "done")
  /\ UNCHANGED <<table, job, entity, loaded, disturbed>>

(* removeFromQueueByWorkOrderId: one DELETE, successful also when nothing   *)
(* matches.                                                                 *)
RemoveFromQueue(r, wo) ==
  /\ Begin(r, [kind |-> "remove", workOrderId |-> wo], "done")
  /\ \/ \E id \in RowsOf(wo) : Write(r, wo, id, NULL)
     \/ RowsOf(wo) = {} /\ UNCHANGED <<table, disturbed>>
  /\ UNCHANGED <<entity, loaded, published>>

(* The next statement or the send fails, or the process stops: the handler *)
(* ends where it is, and what it has written stays.                        *)
Fail(r) ==
  /\ pc[r] \in InFlight
  /\ Goto(r, "failed")
  /\ UNCHANGED <<table, job, entity, loaded, published, disturbed>>

Step(r) ==
  \/ FindAny(r) \/ FindItem(r) \/ Reload(r)
  \/ Insert(r) \/ InsertConflict(r) \/ UpdateChanged(r) \/ Notify(r) \/ Fail(r)

Start(r, wo) ==
  \/ \E details \in Details \cup {NULL} : AddWorkOrder(r, wo, details)
  \/ \E status \in ProductionStatus : ExecuteUpdate(r, wo, status)
  \/ RemoveFromQueue(r, wo)

AllEnded == (\A r \in Request : pc[r] \in Ended) /\ UNCHANGED vars

Next ==
  \/ \E r \in Request, wo \in WorkOrder : Start(r, wo)
  \/ \E r \in Request : Step(r)
  \/ AllEnded

Spec == Init /\ [][Next]_vars

-----------------------------------------------------------------------------
TypeOK ==
  /\ table \in [Request -> Row \cup {NULL}]
  /\ pc \in [Request -> {"idle"} \cup InFlight \cup Ended]
  /\ job \in [Request -> Job \cup {NULL}]
  /\ entity \in [Request -> Item \cup {NULL}]
  /\ loaded \in [Request -> Row \cup {NULL}]
  /\ published \subseteq StatusUpdate
  /\ disturbed \subseteq Request

(* A work order has at most one row, however enqueues, PATCH upserts and   *)
(* re-inserts of removed rows interleave.                                  *)
OneRowPerWorkOrder ==
  \A wo \in WorkOrder : \A a, b \in RowsOf(wo) : a = b

(* The announcement of a completion is lost only with the handler that made *)
(* it: whoever stamped a row as completed, directly or through a copy that  *)
(* others took and wrote back, has sent FINISHED, is about to, or failed.   *)
StampedIsAnnounced ==
  \A id \in Request : table[id] # NULL /\ table[id].completedAt # NULL =>
    LET r == table[id].completedAt IN
    \/ pc[r] \in {"notify", "failed"}
    \/ [workOrderId |-> table[id].workOrderId, status |-> "FINISHED", finishedAt |-> r]
         \in published

(* The orders the table holds, as OrderLifecycle sees them. *)
OrderOf(wo) ==
  IF RowsOf(wo) = {} THEN NULL ELSE table[CHOOSE id \in RowsOf(wo) : TRUE]

Orders == [wo \in WorkOrder |-> OrderOf(wo)]

Lifecycle == INSTANCE OrderLifecycle WITH orders <- Orders, published <- published

(* The promise under concurrency: a handler whose row no other handler     *)
(* wrote since it began does only what OrderLifecycle allows, whatever the *)
(* other handlers did elsewhere or before it.  So every departure from the *)
(* lifecycle needs two handlers on one work order at once.                 *)
UndisturbedStepsImplementLifecycle ==
  [][\A r \in Request :
       pc'[r] # pc[r] /\ r \notin disturbed => [Lifecycle!Next]_(Lifecycle!vars)]_vars

(* The UNIQUE constraint is hit only by a handler that lost a race: the    *)
(* SELECT before the INSERT is enough when nothing intervenes.             *)
ConflictOnlyUnderRace ==
  \A r \in Request : pc[r] = "conflict" => r \in disturbed

(* What the code's own words say of it, and two handlers or one failure    *)
(* can undo.                                                               *)

(* "Nao e permitido voltar para status anterior": no PATCH moves the row   *)
(* of its work order to an earlier status.                                 *)
StatusNeverGoesBack ==
  [][\A r \in Request : pc'[r] # pc[r] /\ job'[r].kind = "update" =>
       \A id \in RowsOf(job'[r].workOrderId) :
         table'[id] # NULL =>
           StatusOrder[table[id].status] <= StatusOrder[table'[id].status]]_vars

(* "Nao e possivel alterar nem reenviar notificacao": once the completion  *)
(* on record has been announced, no FINISHED is sent while it stands.      *)
FinishedOnlyOnce ==
  [][\A wo \in WorkOrder :
       (OrderOf(wo) # NULL /\ OrderOf(wo).status = "COMPLETED") =>
         \A sent \in published, new \in published' \ published :
           ~(/\ sent.workOrderId = wo /\ sent.finishedAt = OrderOf(wo).completedAt
             /\ new.workOrderId = wo)]_vars

(* "removida da fila de producao": the row that compensation removed does  *)
(* not come back; only a row with an id of its own may be inserted later.  *)
RemovedStaysRemoved ==
  [][\A id \in Request :
       table[id] = NULL /\ table'[id] # NULL => pc[id] = "insert"]_vars

(* An order that is finished, with no handler at work on it, has been      *)
(* announced.                                                              *)
CompletedIsAnnounced ==
  \A wo \in WorkOrder :
    /\ OrderOf(wo) # NULL /\ OrderOf(wo).status = "COMPLETED"
    /\ \A r \in Request : pc[r] \in InFlight => job[r].workOrderId # wo
    => \E update \in published : update.workOrderId = wo
=============================================================================
