------------------------- MODULE ProductionQueueProofs -------------------------
(***************************************************************************)
(* Proofs about ProductionQueue, for every set of work orders, requests    *)
(* and details.                                                            *)
(*                                                                         *)
(* Inv is inductive by itself and gives the types and the one row per work *)
(* order.  View says what an undisturbed handler still knows of the table; *)
(* with Inv it is inductive too, and it is why such a handler keeps the    *)
(* lifecycle.                                                              *)
(***************************************************************************)
EXTENDS ProductionQueue, TLAPS

(* What the control point of a request says of its other variables. *)
Control(r) ==
  /\ pc[r] = "idle" <=> job[r] = NULL
  /\ pc[r] = "findAny" => job[r].kind = "add"
  /\ pc[r] = "findItem" => job[r].kind = "update"
  /\ pc[r] \in {"reload", "insert", "update"} =>
       job[r].kind \in {"add", "update"} /\ entity[r] # NULL
  /\ pc[r] \in {"reload", "update"} => entity[r].id # NULL
  /\ pc[r] = "update" => loaded[r] # NULL
  /\ pc[r] = "notify" => job[r].kind = "update" /\ job[r].status = "COMPLETED"

(* A copy is of the work order the request asks for, and so is the row     *)
(* whose id it carries.                                                    *)
Copy(r) ==
  entity[r] # NULL =>
    /\ job[r] # NULL
    /\ entity[r].row.workOrderId = job[r].workOrderId
    /\ entity[r].id # NULL =>
         /\ job[entity[r].id] # NULL
         /\ job[entity[r].id].workOrderId = job[r].workOrderId

(* A row belongs to the work order of the request that first inserted it. *)
RowIdentity ==
  \A id \in Request : table[id] # NULL =>
    job[id] # NULL /\ table[id].workOrderId = job[id].workOrderId

Inv ==
  /\ TypeOK
  /\ \A r \in Request : Control(r) /\ Copy(r)
  /\ RowIdentity
  /\ OneRowPerWorkOrder

-----------------------------------------------------------------------------
(* The rows the service computes are rows, of the work order asked for or  *)
(* of the row they change.                                                 *)
LEMMA NewRowTypes ==
  ASSUME NEW wo \in WorkOrder, NEW d \in Details \cup {NULL},
         NEW s \in ProductionStatus, NEW now \in Request
  PROVE  /\ NewlyQueued(wo, d) \in Row /\ NewlyQueued(wo, d).workOrderId = wo
         /\ NewWithStatus(wo, s, now) \in Row /\ NewWithStatus(wo, s, now).workOrderId = wo
  BY DEF Row, Stamp, ProductionStatus, NewlyQueued, NewWithStatus

LEMMA ChangedRowTypes ==
  ASSUME NEW row \in Row, NEW d \in Details \cup {NULL},
         NEW s \in ProductionStatus, NEW now \in Request
  PROVE  /\ Requeued(row, d) \in Row /\ Requeued(row, d).workOrderId = row.workOrderId
         /\ Updated(row, s, now) \in Row /\ Updated(row, s, now).workOrderId = row.workOrderId
  BY DEF Row, Stamp, ProductionStatus, Requeued, Updated, Coalesce

LEMMA ChangedColumnsType ==
  ASSUME NEW current \in Row, NEW reloaded \in Row, NEW wanted \in Row
  PROVE  /\ ChangedColumns(current, reloaded, wanted) \in Row
         /\ ChangedColumns(current, reloaded, wanted).workOrderId = current.workOrderId
  BY DEF Row, ChangedColumns

(* No row, request, work order, job or item is NULL. *)
LEMMA NotNull ==
  /\ NULL \notin Row /\ NULL \notin Request /\ NULL \notin WorkOrder
  /\ NULL \notin Job /\ NULL \notin Item
  BY NullAssumption, NullRecordAssumption

-----------------------------------------------------------------------------
LEMMA InitInv == Init => Inv
  BY NotNull DEF Init, Inv, TypeOK, Control, Copy, RowIdentity, OneRowPerWorkOrder, RowsOf, Ended, InFlight

(* A request that begins has asked nothing before, and no row or copy      *)
(* bears its id.                                                           *)
LEMMA BeginKeepsIdentity ==
  ASSUME Inv, NEW r \in Request, NEW request \in Job, NEW label,
         Begin(r, request, label), UNCHANGED <<table, entity>>
  PROVE  /\ \A q \in Request : Copy(q)'
         /\ RowIdentity' /\ OneRowPerWorkOrder'
  <1>1. job[r] = NULL /\ job' = [job EXCEPT ![r] = request]
    BY DEF Begin, Inv, Control
  <1>2. \A q \in Request : job[q] # NULL => job'[q] = job[q]
    BY <1>1 DEF Inv, TypeOK
  <1>3. ASSUME NEW q \in Request PROVE Copy(q)'
    <2>1. Copy(q) /\ entity'[q] = entity[q] /\ entity[q] \in Item \cup {NULL}
      BY DEF Inv, TypeOK
    <2> QED BY <1>2, <2>1, NotNull DEF Copy, Item
  <1>4. RowIdentity' BY <1>2 DEF Inv, RowIdentity
  <1>5. OneRowPerWorkOrder' BY DEF Inv, OneRowPerWorkOrder, RowsOf
  <1> QED BY <1>3, <1>4, <1>5
-----------------------------------------------------------------------------
(* One lemma per action: Inv is kept. *)
LEMMA AddWorkOrderInv ==
  ASSUME Inv, NEW r \in Request, NEW wo \in WorkOrder, NEW d \in Details \cup {NULL},
         AddWorkOrder(r, wo, d)
  PROVE  Inv'
  <1> DEFINE request == [kind |-> "add", workOrderId |-> wo, details |-> d]
  <1>1. request \in Job BY DEF Job
  <1>2. PICK label \in {"done", "findAny"} : Begin(r, request, label)
    BY DEF AddWorkOrder
  <1>3. (\A q \in Request : Copy(q)') /\ RowIdentity' /\ OneRowPerWorkOrder'
    BY <1>1, <1>2, BeginKeepsIdentity DEF AddWorkOrder
  <1>4. TypeOK'
    BY <1>1, <1>2 DEF AddWorkOrder, Inv, TypeOK, Begin, Goto, InFlight, Ended
  <1>5. \A q \in Request : Control(q)'
    <2>1. request # NULL BY <1>1, NotNull
    <2> QED BY <1>2, <2>1 DEF AddWorkOrder, Inv, TypeOK, Control, Begin, Goto
  <1> QED BY <1>3, <1>4, <1>5 DEF Inv

LEMMA ExecuteUpdateInv ==
  ASSUME Inv, NEW r \in Request, NEW wo \in WorkOrder, NEW status \in ProductionStatus,
         ExecuteUpdate(r, wo, status)
  PROVE  Inv'
  <1> DEFINE request == [kind |-> "update", workOrderId |-> wo, status |-> status]
  <1>1. request \in Job BY DEF Job
  <1>2. PICK label \in {"rejected", "findItem"} : Begin(r, request, label)
    BY DEF ExecuteUpdate
  <1>3. (\A q \in Request : Copy(q)') /\ RowIdentity' /\ OneRowPerWorkOrder'
    BY <1>1, <1>2, BeginKeepsIdentity DEF ExecuteUpdate
  <1>4. TypeOK'
    BY <1>1, <1>2 DEF ExecuteUpdate, Inv, TypeOK, Begin, Goto, InFlight, Ended
  <1>5. \A q \in Request : Control(q)'
    <2>1. request # NULL BY <1>1, NotNull
    <2> QED BY <1>2, <2>1 DEF ExecuteUpdate, Inv, TypeOK, Control, Begin, Goto
  <1> QED BY <1>3, <1>4, <1>5 DEF Inv

(* A copy about to be saved, of the right work order, under no id or under *)
(* that of a row of the work order.                                        *)
LEMMA SaveInv ==
  ASSUME Inv, NEW r \in Request, job[r] \in Job, job[r].kind \in {"add", "update"},
         NEW id \in Request \cup {NULL}, NEW row \in Row,
         NEW label \in {"reload", "insert"}, label = "reload" => id # NULL,
         row.workOrderId = job[r].workOrderId,
         id # NULL => table[id] # NULL /\ table[id].workOrderId = job[r].workOrderId,
         Save(r, id, row, label), UNCHANGED <<table, job, loaded, published, disturbed>>
  PROVE  Inv'
  <1> DEFINE item == [id |-> id, row |-> row]
  <1>1. item \in Item BY DEF Item
  <1>2. /\ entity' = [entity EXCEPT ![r] = item]
        /\ pc' = [pc EXCEPT ![r] = label]
    BY DEF Save, Goto
  <1>3. item # NULL /\ item.id = id /\ item.row = row
    BY <1>1, NotNull
  <1> HIDE DEF item
  <1>4. TypeOK'
    BY <1>1, <1>2 DEF Inv, TypeOK, InFlight
  <1>5. ASSUME NEW q \in Request PROVE Control(q)' /\ Copy(q)'
    <2>1. CASE q = r
      <3>1. /\ entity'[r] = item /\ pc'[r] = label
            /\ job' = job /\ loaded' = loaded /\ job[r] # NULL
        BY <1>2, NotNull DEF Inv, TypeOK
      <3>2. Control(r)' BY <1>3, <3>1 DEF Control
      <3>3. Copy(r)' BY <1>3, <3>1 DEF Copy, Inv, RowIdentity
      <3> QED BY <2>1, <3>2, <3>3
    <2>2. CASE q # r
      <3>1. /\ entity'[q] = entity[q] /\ pc'[q] = pc[q]
            /\ job' = job /\ loaded' = loaded
        BY <1>2, <2>2 DEF Inv, TypeOK
      <3> QED BY <3>1 DEF Inv, Control, Copy
    <2> QED BY <2>1, <2>2
  <1>6. RowIdentity' /\ OneRowPerWorkOrder'
    BY DEF Inv, RowIdentity, OneRowPerWorkOrder, RowsOf
  <1> QED BY <1>4, <1>5, <1>6 DEF Inv

LEMMA RowsOfFact ==
  ASSUME Inv, NEW wo, NEW id \in RowsOf(wo)
  PROVE  id \in Request /\ table[id] # NULL /\ table[id] \in Row /\ table[id].workOrderId = wo
  BY DEF RowsOf, Inv, TypeOK

LEMMA FindAnyInv ==
  ASSUME Inv, NEW r \in Request, FindAny(r)
  PROVE  Inv'
  <1> DEFINE wo == job[r].workOrderId
             d == job[r].details
  <1>1. job[r] \in Job /\ job[r].kind = "add"
    BY DEF FindAny, Inv, TypeOK, Control
  <1>2. wo \in WorkOrder /\ d \in Details \cup {NULL}
    BY <1>1 DEF Job
  <1>3. UNCHANGED <<table, job, loaded, published, disturbed>> BY DEF FindAny
  <1>4. CASE \E id \in RowsOf(wo) : Save(r, id, Requeued(table[id], d), "reload")
    <2>1. PICK id \in RowsOf(wo) : Save(r, id, Requeued(table[id], d), "reload")
      BY <1>4
    <2>2. /\ id \in Request /\ table[id] # NULL /\ table[id] \in Row
          /\ table[id].workOrderId = wo
      BY RowsOfFact
    <2>3. /\ Requeued(table[id], d) \in Row
          /\ Requeued(table[id], d).workOrderId = wo
      BY <1>2, <2>2, ChangedRowTypes DEF ProductionStatus
    <2> QED BY <1>1, <1>3, <2>1, <2>2, <2>3, SaveInv, NotNull
  <1>5. CASE Save(r, NULL, NewlyQueued(wo, d), "insert")
    <2>1. /\ NewlyQueued(wo, d) \in Row
          /\ NewlyQueued(wo, d).workOrderId = wo
      BY <1>2, NewRowTypes DEF ProductionStatus
    <2> QED BY <1>1, <1>3, <1>5, <2>1, SaveInv
  <1> QED BY <1>4, <1>5 DEF FindAny

LEMMA FindItemInv ==
  ASSUME Inv, NEW r \in Request, FindItem(r)
  PROVE  Inv'
  <1> DEFINE wo == job[r].workOrderId
             status == job[r].status
  <1>1. job[r] \in Job /\ job[r].kind = "update"
    BY DEF FindItem, Inv, TypeOK, Control
  <1>2. wo \in WorkOrder /\ status \in ProductionStatus
    BY <1>1 DEF Job
  <1>3. UNCHANGED <<table, job, loaded, published, disturbed>> BY DEF FindItem
  <1>4. CASE \E id \in RowsOf(wo) : Save(r, id, Updated(table[id], status, r), "reload")
    <2>1. PICK id \in RowsOf(wo) : Save(r, id, Updated(table[id], status, r), "reload")
      BY <1>4
    <2>2. /\ id \in Request /\ table[id] # NULL /\ table[id] \in Row
          /\ table[id].workOrderId = wo
      BY RowsOfFact
    <2>3. /\ Updated(table[id], status, r) \in Row
          /\ Updated(table[id], status, r).workOrderId = wo
      BY <1>2, <2>2, ChangedRowTypes
    <2> QED BY <1>1, <1>3, <2>1, <2>2, <2>3, SaveInv, NotNull
  <1>5. CASE Save(r, NULL, NewWithStatus(wo, status, r), "insert")
    <2>1. /\ NewWithStatus(wo, status, r) \in Row
          /\ NewWithStatus(wo, status, r).workOrderId = wo
      BY <1>2, NewRowTypes
    <2> QED BY <1>1, <1>3, <1>5, <2>1, SaveInv
  <1> QED BY <1>4, <1>5 DEF FindItem
(* An ended request, or one past its save, owes nothing to its copy. *)
LEMMA EndInv ==
  ASSUME Inv, NEW r \in Request, pc[r] \in InFlight, NEW label \in Ended,
         Goto(r, label), UNCHANGED <<table, job, entity, loaded, disturbed>>,
         published' \subseteq StatusUpdate
  PROVE  Inv'
  <1>1. TypeOK' BY DEF Inv, TypeOK, Goto
  <1>2. \A q \in Request : Control(q)'
    BY DEF Inv, TypeOK, Control, Goto, Ended, InFlight
  <1>3. \A q \in Request : Copy(q)' BY DEF Inv, Copy
  <1>4. RowIdentity' /\ OneRowPerWorkOrder'
    BY DEF Inv, RowIdentity, OneRowPerWorkOrder, RowsOf
  <1> QED BY <1>1, <1>2, <1>3, <1>4 DEF Inv

LEMMA AfterSaveLabel ==
  ASSUME NEW r \in Request
  PROVE  /\ AfterSave(r) \in {"notify", "done"}
         /\ AfterSave(r) = "notify" => job[r].kind = "update" /\ job[r].status = "COMPLETED"
  BY DEF AfterSave

LEMMA ReloadInv ==
  ASSUME Inv, NEW r \in Request, Reload(r)
  PROVE  Inv'
  <1> DEFINE row == table[entity[r].id]
  <1>1. /\ entity[r] \in Item /\ entity[r].id \in Request /\ row \in Row \cup {NULL}
        /\ pc[r] = "reload" /\ job[r].kind \in {"add", "update"}
    BY DEF Reload, Inv, TypeOK, Control, Item
  <1>2. PICK label \in {"insert", "update", "notify", "done"} :
           /\ Goto(r, label)
           /\ label = "update" => row # NULL
           /\ label = "notify" => job[r].kind = "update" /\ job[r].status = "COMPLETED"
    BY AfterSaveLabel DEF Reload
  <1>3. /\ loaded' = [loaded EXCEPT ![r] = row]
        /\ UNCHANGED <<table, job, entity, published, disturbed>>
    BY DEF Reload
  <1> HIDE DEF row
  <1>4. TypeOK'
    BY <1>1, <1>2, <1>3 DEF Inv, TypeOK, Goto, InFlight, Ended
  <1>5. \A q \in Request : Control(q)'
    BY <1>1, <1>2, <1>3 DEF Inv, TypeOK, Control, Goto
  <1>6. \A q \in Request : Copy(q)' BY <1>3 DEF Inv, Copy
  <1>7. RowIdentity' /\ OneRowPerWorkOrder'
    BY <1>3 DEF Inv, RowIdentity, OneRowPerWorkOrder, RowsOf
  <1> QED BY <1>4, <1>5, <1>6, <1>7 DEF Inv

(* What a handler that has saved leaves behind, whatever it wrote. *)
LEMMA SavedControl ==
  ASSUME Inv, NEW r \in Request, pc[r] \in {"insert", "update"},
         Goto(r, AfterSave(r)), UNCHANGED <<job, entity, loaded, published>>
  PROVE  \A q \in Request : Control(q)' /\ Copy(q)'
  <1>1. PICK label \in {"notify", "done"} :
           /\ Goto(r, label)
           /\ label = "notify" => job[r].kind = "update" /\ job[r].status = "COMPLETED"
    BY AfterSaveLabel
  <1>2. \A q \in Request : Control(q)'
    BY <1>1 DEF Inv, TypeOK, Control, Goto
  <1>3. \A q \in Request : Copy(q)' BY DEF Inv, Copy
  <1> QED BY <1>2, <1>3

LEMMA InsertInv ==
  ASSUME Inv, NEW r \in Request, Insert(r)
  PROVE  Inv'
  <1> DEFINE id == InsertedId(r)
             row == entity[r].row
  <1>1. /\ entity[r] \in Item /\ entity[r] # NULL /\ row \in Row /\ id \in Request
        /\ pc[r] = "insert" /\ row.workOrderId = job[r].workOrderId
    BY DEF Insert, Inv, TypeOK, Control, Copy, Item, InsertedId, Coalesce
  <1>2. job[id] # NULL /\ row.workOrderId = job[id].workOrderId
    BY <1>1 DEF Inv, Control, Copy, InsertedId, Coalesce
  <1>3. /\ table' = [table EXCEPT ![id] = row]
        /\ Goto(r, AfterSave(r)) /\ UNCHANGED <<job, entity, loaded, published>>
        /\ RowsOf(row.workOrderId) = {}
    BY DEF Insert, Write, ViolatesUnique
  <1>4. disturbed' \subseteq Request BY DEF Insert, Write, Inv, TypeOK
  <1> HIDE DEF id, row
  <1>5. TypeOK'
    BY <1>1, <1>3, <1>4, AfterSaveLabel DEF Inv, TypeOK, Goto, InFlight, Ended
  <1>6. \A q \in Request : Control(q)' /\ Copy(q)'
    BY <1>1, <1>3, SavedControl
  <1>7. RowIdentity'
    BY <1>1, <1>2, <1>3 DEF Inv, TypeOK, RowIdentity
  <1>8. OneRowPerWorkOrder'
    <2>1. \A a \in Request : table[a] # NULL => table[a].workOrderId # row.workOrderId
      BY <1>3 DEF RowsOf
    <2>2. \A a \in Request : table'[a] = IF a = id THEN row ELSE table[a]
      BY <1>3 DEF Inv, TypeOK
    <2> QED BY <2>1, <2>2 DEF Inv, OneRowPerWorkOrder, RowsOf
  <1> QED BY <1>5, <1>6, <1>7, <1>8 DEF Inv

LEMMA UpdateChangedInv ==
  ASSUME Inv, NEW r \in Request, UpdateChanged(r)
  PROVE  Inv'
  <1> DEFINE id == entity[r].id
             new == ChangedColumns(table[id], loaded[r], entity[r].row)
  <1>1. /\ entity[r] \in Item /\ entity[r].row \in Row /\ id \in Request
        /\ loaded[r] \in Row /\ pc[r] = "update"
    BY DEF UpdateChanged, Inv, TypeOK, Control, Item
  <1>2. Goto(r, AfterSave(r)) /\ UNCHANGED <<job, entity, loaded, published>>
    BY DEF UpdateChanged
  <1>3. \A q \in Request : Control(q)' /\ Copy(q)'
    BY <1>1, <1>2, SavedControl
  <1>4. pc' \in [Request -> {"idle"} \cup InFlight \cup Ended]
    BY <1>2, AfterSaveLabel DEF Inv, TypeOK, Goto, InFlight, Ended
  <1>5. CASE table[id] # NULL /\ Write(r, job[r].workOrderId, id, new)
    <2>1. table[id] \in Row BY <1>1, <1>5 DEF Inv, TypeOK
    <2>2. new \in Row /\ new.workOrderId = table[id].workOrderId
      BY <1>1, <2>1, ChangedColumnsType
    <2>3. table' = [table EXCEPT ![id] = new] /\ disturbed' \subseteq Request
      BY <1>5 DEF Write, Inv, TypeOK
    <2> HIDE DEF new
    <2>4. TypeOK' BY <1>1, <1>2, <1>4, <2>2, <2>3 DEF Inv, TypeOK
    <2>5. \A a \in Request : table'[a] = IF a = id THEN new ELSE table[a]
      BY <2>3 DEF Inv, TypeOK
    <2>6. \A a \in Request : table'[a] # NULL =>
             table[a] # NULL /\ table'[a].workOrderId = table[a].workOrderId
      BY <1>5, <2>2, <2>5
    <2>7. RowIdentity' /\ OneRowPerWorkOrder'
      BY <1>2, <2>6 DEF Inv, RowIdentity, OneRowPerWorkOrder, RowsOf
    <2> QED BY <1>3, <2>4, <2>7 DEF Inv
  <1>6. CASE UNCHANGED <<table, disturbed>>
    <2>1. TypeOK' BY <1>2, <1>4, <1>6 DEF Inv, TypeOK
    <2>2. RowIdentity' /\ OneRowPerWorkOrder'
      BY <1>2, <1>6 DEF Inv, RowIdentity, OneRowPerWorkOrder, RowsOf
    <2> QED BY <1>3, <2>1, <2>2 DEF Inv
  <1> QED BY <1>5, <1>6 DEF UpdateChanged

LEMMA NotifyInv ==
  ASSUME Inv, NEW r \in Request, Notify(r)
  PROVE  Inv'
  <1>1. /\ job[r] \in Job /\ job[r].kind = "update" /\ job[r].status = "COMPLETED"
        /\ pc[r] \in InFlight
    BY DEF Notify, Inv, TypeOK, Control, InFlight
  <1>2. job[r].workOrderId \in WorkOrder BY <1>1 DEF Job
  <1>3. published' \subseteq StatusUpdate
    BY <1>1, <1>2 DEF Notify, Inv, TypeOK, StatusUpdate, WorkOrderStatus
  <1> QED BY <1>1, <1>3, EndInv DEF Notify, Ended

LEMMA RemoveFromQueueInv ==
  ASSUME Inv, NEW r \in Request, NEW wo \in WorkOrder, RemoveFromQueue(r, wo)
  PROVE  Inv'
  <1> DEFINE request == [kind |-> "remove", workOrderId |-> wo]
  <1>1. request \in Job BY DEF Job
  <1>2. /\ job[r] = NULL /\ job' = [job EXCEPT ![r] = request]
        /\ pc' = [pc EXCEPT ![r] = "done"] /\ pc[r] = "idle"
        /\ UNCHANGED <<entity, loaded, published>>
    BY DEF RemoveFromQueue, Begin, Goto, Inv, Control
  <1>3. request # NULL BY <1>1, NotNull
  <1> HIDE DEF request
  <1>4. /\ \A a \in Request : table'[a] # NULL => table'[a] = table[a]
        /\ table' \in [Request -> Row \cup {NULL}] /\ disturbed' \subseteq Request
    BY DEF RemoveFromQueue, Write, RowsOf, Inv, TypeOK
  <1>5. TypeOK'
    BY <1>1, <1>2, <1>4 DEF Inv, TypeOK, Ended
  <1>6. \A q \in Request : job[q] # NULL => job'[q] = job[q]
    BY <1>2 DEF Inv, TypeOK
  <1>7. \A q \in Request : Control(q)'
    BY <1>2, <1>3 DEF Inv, TypeOK, Control
  <1>8. ASSUME NEW q \in Request PROVE Copy(q)'
    <2>1. Copy(q) /\ entity'[q] = entity[q] /\ entity[q] \in Item \cup {NULL}
      BY <1>2 DEF Inv, TypeOK
    <2> QED BY <1>6, <2>1, NotNull DEF Copy, Item
  <1>9. RowIdentity' /\ OneRowPerWorkOrder'
    BY <1>4, <1>6 DEF Inv, RowIdentity, OneRowPerWorkOrder, RowsOf
  <1> QED BY <1>5, <1>7, <1>8, <1>9 DEF Inv

LEMMA InvStep == Inv /\ [Next]_vars => Inv'
  <1> SUFFICES ASSUME Inv, [Next]_vars PROVE Inv'
    OBVIOUS
  <1>1. ASSUME NEW r \in Request, NEW wo \in WorkOrder, Start(r, wo) PROVE Inv'
    BY <1>1, AddWorkOrderInv, ExecuteUpdateInv, RemoveFromQueueInv DEF Start
  <1>2. ASSUME NEW r \in Request, Step(r) PROVE Inv'
    <2>1. CASE FindAny(r) BY <2>1, FindAnyInv
    <2>2. CASE FindItem(r) BY <2>2, FindItemInv
    <2>3. CASE Reload(r) BY <2>3, ReloadInv
    <2>4. CASE Insert(r) BY <2>4, InsertInv
    <2>5. CASE InsertConflict(r)
      BY <2>5, EndInv DEF InsertConflict, InFlight, Ended, Inv, TypeOK
    <2>6. CASE UpdateChanged(r) BY <2>6, UpdateChangedInv
    <2>7. CASE Notify(r) BY <2>7, NotifyInv
    <2>8. CASE Fail(r) BY <2>8, EndInv DEF Fail, Ended, Inv, TypeOK
    <2> QED BY <1>2, <2>1, <2>2, <2>3, <2>4, <2>5, <2>6, <2>7, <2>8 DEF Step
  <1>3. CASE UNCHANGED vars
    BY <1>3 DEF vars, Inv, TypeOK, Control, Copy, RowIdentity, OneRowPerWorkOrder, RowsOf
  <1> QED BY <1>1, <1>2, <1>3 DEF Next, AllEnded

(* Every variable keeps its type, whatever the handlers, their requests    *)
(* and their failures.                                                     *)
THEOREM TypeCorrect == Spec => []TypeOK
  <1>1. Inv => TypeOK BY DEF Inv
  <1> QED BY InitInv, InvStep, <1>1, PTL DEF Spec

(* A work order never has two rows: the row a handler inserts or updates   *)
(* is of the work order it was asked about, and the UNIQUE constraint      *)
(* stops the second insert.                                                *)
THEOREM OneRow == Spec => []OneRowPerWorkOrder
  <1>1. Inv => OneRowPerWorkOrder BY DEF Inv
  <1> QED BY InitInv, InvStep, <1>1, PTL DEF Spec

-----------------------------------------------------------------------------
(* Whoever stamped a completion announces it.  The stamp travels: a handler *)
(* may read it in a row, keep it in its copy and write it back after the    *)
(* row was removed, so the copies have to be followed with the rows.        *)

Announced(r, wo) ==
  \/ pc[r] = "failed"
  \/ pc[r] = "notify" /\ job[r].workOrderId = wo
  \/ [workOrderId |-> wo, status |-> "FINISHED", finishedAt |-> r] \in published

StampsOfRows ==
  \A id \in Request : table[id] # NULL /\ table[id].completedAt # NULL =>
    Announced(table[id].completedAt, table[id].workOrderId)

(* The stamp of a copy is the handler's own, not yet saved, or another's. *)
StampsOfCopies ==
  \A r \in Request : entity[r] # NULL /\ entity[r].row.completedAt # NULL =>
    \/ Announced(entity[r].row.completedAt, entity[r].row.workOrderId)
    \/ /\ entity[r].row.completedAt = r
       /\ job[r].kind = "update" /\ job[r].status = "COMPLETED"

Stamps == StampsOfRows /\ StampsOfCopies

LEMMA AnnouncedStays ==
  ASSUME Inv, [Next]_vars, NEW r \in Request, NEW wo, Announced(r, wo)
  PROVE  Announced(r, wo)'
  <1>1. published \subseteq published'
    BY DEF Next, Start, Step, AddWorkOrder, ExecuteUpdate, RemoveFromQueue, FindAny, FindItem,
           Reload, Insert, InsertConflict, UpdateChanged, Notify, Fail, AllEnded, vars
  <1>2. CASE pc'[r] = pc[r] /\ job'[r] = job[r]
    BY <1>1, <1>2 DEF Announced
  <1>3. ASSUME NEW q \in Request, NEW w \in WorkOrder, Start(q, w)
        PROVE  Announced(r, wo)'
    <2>1. PICK request, label : Begin(q, request, label)
      BY <1>3 DEF Start, AddWorkOrder, ExecuteUpdate, RemoveFromQueue
    <2>2. CASE q = r
      BY <1>1, <2>1, <2>2 DEF Begin, Announced
    <2>3. CASE q # r
      BY <1>2, <2>1, <2>3 DEF Begin, Goto, Inv, TypeOK
    <2> QED BY <2>2, <2>3
  <1>4. ASSUME NEW q \in Request, Step(q)
        PROVE  Announced(r, wo)'
    <2>1. PICK label : pc' = [pc EXCEPT ![q] = label] /\ job' = job /\ pc[q] \in InFlight
      BY <1>4 DEF Step, FindAny, FindItem, Save, Reload, Insert, InsertConflict, UpdateChanged,
             Notify, Fail, Goto, InFlight
    <2>2. CASE q # r
      BY <1>2, <2>1, <2>2 DEF Inv, TypeOK
    <2>3. CASE q = r /\ pc[r] # "notify"
      BY <1>1, <2>1, <2>3 DEF Announced, InFlight
    <2>4. CASE q = r /\ pc[r] = "notify" /\ Notify(r)
      <3>1. job[r].kind = "update" /\ job[r].status = "COMPLETED"
        BY <2>4 DEF Inv, Control
      <3>2. WorkOrderStatus[job[r].status] = "FINISHED"
        BY <3>1 DEF WorkOrderStatus
      <3>3. [workOrderId |-> job[r].workOrderId, status |-> "FINISHED", finishedAt |-> r]
              \in published'
        BY <2>4, <3>2 DEF Notify
      <3> QED BY <1>1, <2>4, <3>3 DEF Announced
    <2>5. CASE q = r /\ pc[r] = "notify" /\ Fail(r)
      BY <2>5 DEF Fail, Goto, Announced, Inv, TypeOK
    <2>6. CASE q = r /\ pc[r] = "notify" /\ ~Notify(r) /\ ~Fail(r)
      BY <1>4, <2>6 DEF Step, FindAny, FindItem, Reload, Insert, InsertConflict, UpdateChanged
    <2> QED BY <2>2, <2>3, <2>4, <2>5, <2>6
  <1>5. CASE UNCHANGED vars
    BY <1>2, <1>5 DEF vars
  <1> QED BY <1>3, <1>4, <1>5 DEF Next, AllEnded

(* Where the stamp of a row comes from: the row, or the copy just saved. *)
RowKept(id) ==
  /\ table[id] # NULL
  /\ table'[id].completedAt = table[id].completedAt
  /\ table'[id].workOrderId = table[id].workOrderId

RowSaved(r, id) ==
  /\ pc'[r] = AfterSave(r) /\ job'[r] = job[r] /\ entity[r] # NULL
  /\ table'[id].completedAt = entity[r].row.completedAt
  /\ table'[id].workOrderId = entity[r].row.workOrderId
  /\ entity[r].row.workOrderId = job[r].workOrderId

LEMMA RowsAfter ==
  ASSUME Inv, [Next]_vars, NEW id \in Request, table'[id] # NULL
  PROVE  RowKept(id) \/ \E r \in Request : RowSaved(r, id)
  <1>1. CASE table'[id] = table[id]
    BY <1>1 DEF RowKept
  <1>2. ASSUME NEW r \in Request, Insert(r), table'[id] # table[id]
        PROVE  RowSaved(r, id)
    <2>1. entity[r] # NULL /\ entity[r].row.workOrderId = job[r].workOrderId
      BY <1>2 DEF Insert, Inv, Control, Copy
    <2>2. table'[id] = entity[r].row
      BY <1>2 DEF Insert, Write, Inv, TypeOK
    <2>3. pc'[r] = AfterSave(r) /\ job'[r] = job[r]
      BY <1>2 DEF Insert, Goto, Inv, TypeOK
    <2> QED BY <2>1, <2>2, <2>3 DEF RowSaved
  <1>3. ASSUME NEW r \in Request, UpdateChanged(r), table'[id] # table[id]
        PROVE  RowKept(id) \/ RowSaved(r, id)
    <2> DEFINE new == ChangedColumns(table[id], loaded[r], entity[r].row)
    <2>1. /\ entity[r] # NULL /\ entity[r].row.workOrderId = job[r].workOrderId
          /\ entity[r].id # NULL /\ job[entity[r].id].workOrderId = job[r].workOrderId
      BY <1>3 DEF UpdateChanged, Inv, Control, Copy
    <2>2. id = entity[r].id /\ table[id] # NULL /\ table'[id] = new
      BY <1>3 DEF UpdateChanged, Write, Inv, TypeOK
    <2>3. table[id].workOrderId = entity[r].row.workOrderId
      BY <2>1, <2>2 DEF Inv, RowIdentity
    <2>4. /\ new.workOrderId = table[id].workOrderId
          /\ new.completedAt \in {table[id].completedAt, entity[r].row.completedAt}
      BY DEF ChangedColumns
    <2>5. pc'[r] = AfterSave(r) /\ job'[r] = job[r]
      BY <1>3 DEF UpdateChanged, Goto, Inv, TypeOK
    <2> HIDE DEF new
    <2> QED BY <2>1, <2>2, <2>3, <2>4, <2>5 DEF RowKept, RowSaved
  <1>4. ASSUME NEW r \in Request, NEW wo \in WorkOrder, RemoveFromQueue(r, wo)
        PROVE  table'[id] = table[id]
    BY <1>4 DEF RemoveFromQueue, Write, Inv, TypeOK
  <1> QED BY <1>1, <1>2, <1>3, <1>4
      DEF Next, Start, Step, AddWorkOrder, ExecuteUpdate, FindAny, FindItem, Reload,
          InsertConflict, Notify, Fail, AllEnded, vars

(* Where the stamp of a copy comes from: no one, the handler, or a row. *)
CopyKept(r) == entity'[r] = entity[r] /\ (entity[r] # NULL => job'[r] = job[r])

CopyMade(r) ==
  /\ job'[r] = job[r] /\ job[r].kind = "update" /\ job[r].status = "COMPLETED"
  /\ entity'[r].row.completedAt = r

CopyTaken(r, id) ==
  /\ table[id] # NULL
  /\ entity'[r].row.completedAt = table[id].completedAt
  /\ entity'[r].row.workOrderId = table[id].workOrderId

LEMMA CopiesAfter ==
  ASSUME Inv, [Next]_vars, NEW r \in Request
  PROVE  \/ CopyKept(r)
         \/ entity'[r].row.completedAt = NULL
         \/ CopyMade(r)
         \/ \E id \in Request : CopyTaken(r, id)
  <1>1. CASE entity'[r] = entity[r]
    <2>1. entity[r] # NULL => job[r] # NULL
      BY DEF Inv, Copy
    <2>2. job[r] # NULL => job'[r] = job[r]
      BY DEF Inv, TypeOK, Control, Next, Start, Step, AddWorkOrder, ExecuteUpdate,
             RemoveFromQueue, Begin, FindAny, FindItem, Reload, Insert, InsertConflict,
             UpdateChanged, Notify, Fail, AllEnded, vars
    <2> QED BY <1>1, <2>1, <2>2 DEF CopyKept
  <1>2. ASSUME NEW q \in Request, FindAny(q), entity'[r] # entity[r]
        PROVE  entity'[r].row.completedAt = NULL
    <2>1. PICK id, row, label : Save(q, id, row, label) /\ row.completedAt = NULL
      <3>1. CASE \E id \in RowsOf(job[q].workOrderId) :
                   Save(q, id, Requeued(table[id], job[q].details), "reload")
        <4>1. PICK id \in RowsOf(job[q].workOrderId) :
                   Save(q, id, Requeued(table[id], job[q].details), "reload")
          BY <3>1
        <4>2. Requeued(table[id], job[q].details).completedAt = NULL
          BY <4>1, RowsOfFact DEF Requeued, Row
        <4> QED BY <4>1, <4>2
      <3>2. CASE Save(q, NULL, NewlyQueued(job[q].workOrderId, job[q].details), "insert")
        BY <3>2 DEF NewlyQueued
      <3> QED BY <1>2, <3>1, <3>2 DEF FindAny
    <2> QED BY <1>2, <2>1 DEF Save, Inv, TypeOK
  <1>3. ASSUME NEW q \in Request, FindItem(q), entity'[r] # entity[r]
        PROVE  \/ entity'[r].row.completedAt = NULL
               \/ CopyMade(r)
               \/ \E id \in Request : CopyTaken(r, id)
    <2> DEFINE wo == job[q].workOrderId
               status == job[q].status
    <2>1. job[q].kind = "update" /\ job' = job
      BY <1>3 DEF FindItem, Inv, Control
    <2>2. ASSUME NEW id, NEW row, NEW label, Save(q, id, row, label)
          PROVE  q = r /\ entity'[r].row = row
      BY <1>3, <2>2 DEF Save, Inv, TypeOK
    <2>3. CASE \E id \in RowsOf(wo) : Save(q, id, Updated(table[id], status, q), "reload")
      <3>1. PICK id \in RowsOf(wo) : Save(q, id, Updated(table[id], status, q), "reload")
        BY <2>3
      <3>2. id \in Request /\ table[id] # NULL /\ table[id] \in Row
        BY RowsOfFact
      <3>3. /\ Updated(table[id], status, q).workOrderId = table[id].workOrderId
            /\ Updated(table[id], status, q).completedAt
                 = IF status = "COMPLETED" THEN q ELSE table[id].completedAt
        BY <3>2 DEF Updated, Row
      <3>4. q = r /\ entity'[r].row = Updated(table[id], status, q)
        BY <2>2, <3>1
      <3> QED BY <2>1, <3>2, <3>3, <3>4 DEF CopyMade, CopyTaken
    <2>4. CASE Save(q, NULL, NewWithStatus(wo, status, q), "insert")
      <3>1. NewWithStatus(wo, status, q).completedAt = IF status = "COMPLETED" THEN q ELSE NULL
        BY DEF NewWithStatus
      <3>2. q = r /\ entity'[r].row = NewWithStatus(wo, status, q)
        BY <2>2, <2>4
      <3> QED BY <2>1, <3>1, <3>2 DEF CopyMade
    <2> QED BY <1>3, <2>3, <2>4 DEF FindItem
  <1> QED BY <1>1, <1>2, <1>3
      DEF Next, Start, Step, AddWorkOrder, ExecuteUpdate, RemoveFromQueue, Reload, Insert,
          InsertConflict, UpdateChanged, Notify, Fail, AllEnded, vars

LEMMA StampsStep == Inv /\ Inv' /\ Stamps /\ [Next]_vars => Stamps'
  <1> SUFFICES ASSUME Inv, Inv', Stamps, [Next]_vars PROVE Stamps'
    OBVIOUS
  <1>1. ASSUME NEW row \in Row, row.completedAt # NULL,
               Announced(row.completedAt, row.workOrderId),
               NEW stamp, NEW wo, stamp = row.completedAt, wo = row.workOrderId
        PROVE  Announced(stamp, wo)'
    <2>1. stamp \in Request
      BY <1>1 DEF Row, Stamp
    <2> QED BY <1>1, <2>1, AnnouncedStays
  <1>2. \A id \in Request : table[id] # NULL => table[id] \in Row
    BY DEF Inv, TypeOK
  <1>3. \A r \in Request : entity[r] # NULL => entity[r].row \in Row
    BY DEF Inv, TypeOK, Item
  <1>4. ASSUME NEW id \in Request, NEW stamp, NEW wo, table'[id] # NULL, stamp # NULL,
               stamp = table'[id].completedAt, wo = table'[id].workOrderId
        PROVE  Announced(stamp, wo)'
    <2>1. CASE RowKept(id)
      BY <1>1, <1>2, <1>4, <2>1 DEF RowKept, Stamps, StampsOfRows
    <2>2. ASSUME NEW r \in Request, RowSaved(r, id)
          PROVE  Announced(stamp, wo)'
      <3>1. CASE Announced(entity[r].row.completedAt, entity[r].row.workOrderId)
        BY <1>1, <1>3, <1>4, <2>2, <3>1 DEF RowSaved
      <3>2. CASE /\ entity[r].row.completedAt = r
                 /\ job[r].kind = "update" /\ job[r].status = "COMPLETED"
        <4>1. stamp = r /\ pc'[r] = "notify" /\ job'[r].workOrderId = wo
          BY <1>4, <2>2, <3>2 DEF RowSaved, AfterSave
        <4> QED BY <4>1 DEF Announced
      <3> QED BY <1>4, <2>2, <3>1, <3>2 DEF RowSaved, Stamps, StampsOfCopies
    <2> QED BY <1>4, <2>1, <2>2, RowsAfter
  <1>5. StampsOfRows'
    BY <1>4 DEF StampsOfRows, Announced
  <1>6. ASSUME NEW r \in Request, NEW stamp, NEW wo, entity'[r] # NULL, stamp # NULL,
               stamp = entity'[r].row.completedAt, wo = entity'[r].row.workOrderId
        PROVE  \/ Announced(stamp, wo)'
               \/ stamp = r /\ job'[r].kind = "update" /\ job'[r].status = "COMPLETED"
    <2>1. CASE CopyKept(r)
      BY <1>1, <1>3, <1>6, <2>1 DEF CopyKept, Stamps, StampsOfCopies
    <2>2. CASE CopyMade(r)
      BY <1>6, <2>2 DEF CopyMade
    <2>3. ASSUME NEW id \in Request, CopyTaken(r, id)
          PROVE  Announced(stamp, wo)'
      BY <1>1, <1>2, <1>6, <2>3 DEF CopyTaken, Stamps, StampsOfRows
    <2> QED BY <1>6, <2>1, <2>2, <2>3, CopiesAfter
  <1>7. StampsOfCopies'
    BY <1>6 DEF StampsOfCopies, Announced
  <1> QED BY <1>5, <1>7 DEF Stamps

LEMMA InitStamps == Init => Stamps
  BY DEF Init, Stamps, StampsOfRows, StampsOfCopies

(* A completion goes unannounced only because the handler that stamped it  *)
(* failed, for any number of handlers, whoever else carries the stamp.     *)
THEOREM CompletionIsAnnounced == Spec => []StampedIsAnnounced
  <1>1. Stamps => StampedIsAnnounced
    BY DEF Stamps, StampsOfRows, StampedIsAnnounced, Announced
  <1> QED BY InitInv, InvStep, InitStamps, StampsStep, <1>1, PTL DEF Spec
=============================================================================
