---------------------------- MODULE LifecycleProofs ----------------------------
(***************************************************************************)
(* A handler whose row nobody else writes keeps the lifecycle, for every   *)
(* set of work orders, requests and details.  Where requests on one work   *)
(* order do not overlap, nobody is disturbed, so this applies to every     *)
(* step: the code implements OrderLifecycle, and inherits its properties.  *)
(***************************************************************************)
EXTENDS SerializedQueue, ProductionQueueProofs

(* The copy is what the request makes of `row`, which it accepted. *)
Computed(r, row) ==
  \/ /\ job[r].kind = "add" /\ row.status # "QUEUED"
     /\ entity[r].row = Requeued(row, job[r].details)
  \/ /\ job[r].kind = "update" /\ ~Rejects(row, job[r].status)
     /\ entity[r].row = Updated(row, job[r].status, r)

(* The copy is what the request makes of no row. *)
ComputedNew(r) ==
  LET wo == job[r].workOrderId IN
  \/ job[r].kind = "add" /\ entity[r].row = NewlyQueued(wo, job[r].details)
  \/ job[r].kind = "update" /\ entity[r].row = NewWithStatus(wo, job[r].status, r)

(* What an undisturbed request still knows of the table: what it checked   *)
(* holds, its copy is up to date, what it wrote is there.                  *)
View(r) ==
  LET rows == RowsOf(job[r].workOrderId)  current == table[entity[r].id] IN
  r \notin disturbed =>
    /\ pc[r] = "findAny" => \A id \in rows : table[id].status # "QUEUED"
    /\ pc[r] = "findItem" => \A id \in rows : ~Rejects(table[id], job[r].status)
    /\ pc[r] \in {"reload", "update"} => current # NULL /\ Computed(r, current)
    /\ pc[r] = "update" => loaded[r] = current
    /\ pc[r] = "insert" => rows = {} /\ entity[r].id = NULL /\ ComputedNew(r)
    /\ pc[r] = "notify" => \E id \in rows : table[id].completedAt = r
    /\ pc[r] # "conflict"

Views == \A r \in Request : View(r)

-----------------------------------------------------------------------------
(* Nothing of the work order of q changes in the step. *)
Foreign(q) ==
  \A id \in Request :
    \/ table[id] # NULL /\ table[id].workOrderId = job[q].workOrderId
    \/ table'[id] # NULL /\ table'[id].workOrderId = job[q].workOrderId
    => table'[id] = table[id]

LEMMA ViewKept ==
  ASSUME Inv, NEW q \in Request, View(q),
         pc'[q] = pc[q], job'[q] = job[q], entity'[q] = entity[q], loaded'[q] = loaded[q],
         disturbed \subseteq disturbed',
         q \notin disturbed' /\ pc[q] \in InFlight => Foreign(q)
  PROVE  View(q)'
  <1>1. CASE q \in disturbed' BY <1>1 DEF View
  <1>2. CASE q \notin disturbed' /\ pc[q] \notin InFlight
    BY <1>2 DEF View, InFlight
  <1>3. CASE q \notin disturbed' /\ pc[q] \in InFlight
    <2>1. Foreign(q) /\ q \notin disturbed BY <1>3
    <2>2. RowsOf(job[q].workOrderId)' = RowsOf(job[q].workOrderId)
      BY <2>1 DEF Foreign, RowsOf
    <2>3. \A id \in RowsOf(job[q].workOrderId) : table'[id] = table[id]
      BY <2>1 DEF Foreign, RowsOf
    <2>4. pc[q] \in {"reload", "update"} =>
            table'[entity[q].id] = table[entity[q].id]
      <3> SUFFICES ASSUME pc[q] \in {"reload", "update"}
                   PROVE  table'[entity[q].id] = table[entity[q].id]
        OBVIOUS
      <3>1. entity[q] \in Item /\ entity[q].id \in Request
        BY DEF Inv, TypeOK, Control, Item
      <3>2. table[entity[q].id] # NULL BY <2>1 DEF View
      <3>3. table[entity[q].id].workOrderId = job[q].workOrderId
        BY <3>1, <3>2, NotNull DEF Inv, RowIdentity, Copy
      <3> QED BY <2>1, <3>1, <3>2, <3>3 DEF Foreign
    <2> QED BY <2>1, <2>2, <2>3, <2>4 DEF View, Computed, ComputedNew
  <1> QED BY <1>1, <1>2, <1>3

LEMMA WriteIsForeign ==
  ASSUME Inv, NEW r \in Request, NEW wo, NEW id \in Request, NEW row,
         Write(r, wo, id, row),
         table[id] = NULL \/ table[id].workOrderId = wo,
         row = NULL \/ row.workOrderId = wo,
         NEW q \in Request \ {r}, q \notin disturbed', pc[q] \in InFlight
  PROVE  Foreign(q)
  <1>1. job[q].workOrderId # wo BY DEF Write
  <1>2. \A a \in Request : table'[a] = IF a = id THEN row ELSE table[a]
    BY DEF Write, Inv, TypeOK
  <1> QED BY <1>1, <1>2 DEF Foreign

(* A step of r that leaves the table alone, and the others with it. *)
LEMMA OthersKeepView ==
  ASSUME Inv, Views, NEW r \in Request, NEW q \in Request \ {r},
         pc'[q] = pc[q], job'[q] = job[q], entity'[q] = entity[q], loaded'[q] = loaded[q],
         UNCHANGED <<table, disturbed>>
  PROVE  View(q)'
  BY ViewKept DEF Views, Foreign

(* A write of r, on the work order its request asks for. *)
LEMMA OthersKeepViewOfWrite ==
  ASSUME Inv, Views, NEW r \in Request, NEW wo, NEW id \in Request, NEW row,
         Write(r, wo, id, row),
         table[id] = NULL \/ table[id].workOrderId = wo,
         row = NULL \/ row.workOrderId = wo,
         NEW q \in Request \ {r},
         pc'[q] = pc[q], job'[q] = job[q], entity'[q] = entity[q], loaded'[q] = loaded[q]
  PROVE  View(q)'
  <1>1. q \notin disturbed' /\ pc[q] \in InFlight => Foreign(q)
    BY WriteIsForeign
  <1>2. disturbed \subseteq disturbed' BY DEF Write
  <1> QED BY <1>1, <1>2, ViewKept DEF Views

-----------------------------------------------------------------------------
LEMMA AddWorkOrderViews ==
  ASSUME Inv, Views, NEW r \in Request, NEW wo \in WorkOrder, NEW d \in Details \cup {NULL},
         AddWorkOrder(r, wo, d)
  PROVE  Views'
  <1>1. \A q \in Request \ {r} : View(q)'
    BY OthersKeepView DEF AddWorkOrder, Begin, Goto, Inv, TypeOK
  <1>2. View(r)'
    <2>1. job'[r].workOrderId = wo /\ table' = table
      BY DEF AddWorkOrder, Begin, Inv, TypeOK
    <2>2. RowsOf(wo)' = RowsOf(wo) BY <2>1 DEF RowsOf
    <2>3. pc'[r] \in {"done", "findAny"}
      BY DEF AddWorkOrder, Begin, Goto, Inv, TypeOK
    <2>4. pc'[r] = "findAny" => \A id \in RowsOf(wo) : table[id].status # "QUEUED"
      BY DEF AddWorkOrder, Begin, Goto, Inv, TypeOK
    <2> QED BY <2>1, <2>2, <2>3, <2>4 DEF View
  <1> QED BY <1>1, <1>2 DEF Views

LEMMA ExecuteUpdateViews ==
  ASSUME Inv, Views, NEW r \in Request, NEW wo \in WorkOrder, NEW status \in ProductionStatus,
         ExecuteUpdate(r, wo, status)
  PROVE  Views'
  <1>1. \A q \in Request \ {r} : View(q)'
    BY OthersKeepView DEF ExecuteUpdate, Begin, Goto, Inv, TypeOK
  <1>2. View(r)'
    <2>1. job'[r].workOrderId = wo /\ job'[r].status = status /\ table' = table
      BY DEF ExecuteUpdate, Begin, Inv, TypeOK
    <2>2. RowsOf(wo)' = RowsOf(wo) BY <2>1 DEF RowsOf
    <2>3. pc'[r] \in {"rejected", "findItem"}
      BY DEF ExecuteUpdate, Begin, Goto, Inv, TypeOK
    <2>4. pc'[r] = "findItem" => \A id \in RowsOf(wo) : ~Rejects(table[id], status)
      BY DEF ExecuteUpdate, Begin, Goto, Inv, TypeOK
    <2> QED BY <2>1, <2>2, <2>3, <2>4 DEF View
  <1> QED BY <1>1, <1>2 DEF Views
LEMMA FindAnyViews ==
  ASSUME Inv, Views, NEW r \in Request, FindAny(r)
  PROVE  Views'
  <1> DEFINE wo == job[r].workOrderId
             d == job[r].details
  <1>1. /\ job[r].kind = "add" /\ pc[r] = "findAny"
        /\ UNCHANGED <<table, job, loaded, published, disturbed>>
    BY DEF FindAny, Inv, Control
  <1>2. \A q \in Request \ {r} : View(q)'
    BY OthersKeepView DEF FindAny, Save, Goto, Inv, TypeOK
  <1>3. RowsOf(wo)' = RowsOf(wo) BY <1>1 DEF RowsOf
  <1>4. CASE \E id \in RowsOf(wo) : Save(r, id, Requeued(table[id], d), "reload")
    <2>1. PICK id \in RowsOf(wo) : Save(r, id, Requeued(table[id], d), "reload")
      BY <1>4
    <2>2. /\ entity'[r].id = id /\ entity'[r].row = Requeued(table[id], d)
          /\ pc'[r] = "reload"
      BY <2>1 DEF Save, Goto, Inv, TypeOK
    <2>3. table[id] # NULL BY <2>1 DEF RowsOf
    <2>4. r \notin disturbed => table[id].status # "QUEUED"
      BY <1>1, <2>1 DEF Views, View
    <2>5. View(r)' BY <1>1, <2>2, <2>3, <2>4 DEF View, Computed
    <2> QED BY <1>2, <2>5 DEF Views
  <1>5. CASE RowsOf(wo) = {} /\ Save(r, NULL, NewlyQueued(wo, d), "insert")
    <2>1. /\ entity'[r].id = NULL /\ entity'[r].row = NewlyQueued(wo, d)
          /\ pc'[r] = "insert"
      BY <1>5 DEF Save, Goto, Inv, TypeOK
    <2>2. View(r)' BY <1>1, <1>3, <1>5, <2>1 DEF View, ComputedNew
    <2> QED BY <1>2, <2>2 DEF Views
  <1> QED BY <1>4, <1>5 DEF FindAny

LEMMA FindItemViews ==
  ASSUME Inv, Views, NEW r \in Request, FindItem(r)
  PROVE  Views'
  <1> DEFINE wo == job[r].workOrderId
             status == job[r].status
  <1>1. /\ job[r].kind = "update" /\ pc[r] = "findItem"
        /\ UNCHANGED <<table, job, loaded, published, disturbed>>
    BY DEF FindItem, Inv, Control
  <1>2. \A q \in Request \ {r} : View(q)'
    BY OthersKeepView DEF FindItem, Save, Goto, Inv, TypeOK
  <1>3. RowsOf(wo)' = RowsOf(wo) BY <1>1 DEF RowsOf
  <1>4. CASE \E id \in RowsOf(wo) : Save(r, id, Updated(table[id], status, r), "reload")
    <2>1. PICK id \in RowsOf(wo) : Save(r, id, Updated(table[id], status, r), "reload")
      BY <1>4
    <2>2. /\ entity'[r].id = id /\ entity'[r].row = Updated(table[id], status, r)
          /\ pc'[r] = "reload"
      BY <2>1 DEF Save, Goto, Inv, TypeOK
    <2>3. table[id] # NULL BY <2>1 DEF RowsOf
    <2>4. r \notin disturbed => ~Rejects(table[id], status)
      BY <1>1, <2>1 DEF Views, View
    <2>5. View(r)' BY <1>1, <2>2, <2>3, <2>4 DEF View, Computed
    <2> QED BY <1>2, <2>5 DEF Views
  <1>5. CASE RowsOf(wo) = {} /\ Save(r, NULL, NewWithStatus(wo, status, r), "insert")
    <2>1. /\ entity'[r].id = NULL /\ entity'[r].row = NewWithStatus(wo, status, r)
          /\ pc'[r] = "insert"
      BY <1>5 DEF Save, Goto, Inv, TypeOK
    <2>2. View(r)' BY <1>1, <1>3, <1>5, <2>1 DEF View, ComputedNew
    <2> QED BY <1>2, <2>2 DEF Views
  <1> QED BY <1>4, <1>5 DEF FindItem

(* The copy of a request to finish an order carries its own stamp. *)
LEMMA ComputedStamp ==
  ASSUME NEW r \in Request, NEW row \in Row,
         job[r].kind = "update", job[r].status = "COMPLETED",
         Computed(r, row) \/ ComputedNew(r)
  PROVE  entity[r].row.completedAt = r /\ entity[r].row.status = "COMPLETED"
  <1>1. /\ Updated(row, "COMPLETED", r).completedAt = r
        /\ Updated(row, "COMPLETED", r).status = "COMPLETED"
    BY DEF Updated, Row
  <1>2. \A wo : /\ NewWithStatus(wo, "COMPLETED", r).completedAt = r
                /\ NewWithStatus(wo, "COMPLETED", r).status = "COMPLETED"
    BY DEF NewWithStatus
  <1> QED BY <1>1, <1>2 DEF Computed, ComputedNew

LEMMA ReloadViews ==
  ASSUME Inv, Views, NEW r \in Request, Reload(r)
  PROVE  Views'
  <1> DEFINE id == entity[r].id
             wo == job[r].workOrderId
  <1>1. /\ pc[r] = "reload" /\ id \in Request
        /\ UNCHANGED <<table, job, entity, published, disturbed>>
        /\ loaded' = [loaded EXCEPT ![r] = table[id]]
    BY DEF Reload, Inv, TypeOK, Control, Item
  <1>2. \A q \in Request \ {r} : View(q)'
    BY OthersKeepView DEF Reload, Goto, Inv, TypeOK
  <1>3. ASSUME r \notin disturbed PROVE View(r)'
    <2>1. table[id] # NULL /\ table[id] \in Row /\ Computed(r, table[id])
      BY <1>1, <1>3 DEF Views, View, Inv, TypeOK
    <2>2. id \in RowsOf(wo)
      BY <1>1, <2>1, NotNull DEF RowsOf, Inv, RowIdentity, Copy, TypeOK, Control
    <2>3. CASE table[id] # entity[r].row
      <3>1. pc'[r] = "update" /\ loaded'[r] = table[id]
        BY <1>1, <2>1, <2>3 DEF Reload, Goto, Inv, TypeOK
      <3> QED BY <1>1, <2>1, <3>1 DEF View, Computed
    <2>4. CASE table[id] = entity[r].row
      <3>1. /\ pc'[r] \in {"notify", "done"}
            /\ pc'[r] = "notify" => job[r].kind = "update" /\ job[r].status = "COMPLETED"
        BY <1>1, <2>1, <2>4, AfterSaveLabel DEF Reload, Goto, Inv, TypeOK
      <3>2. pc'[r] = "notify" => table[id].completedAt = r
        BY <2>1, <2>4, <3>1, ComputedStamp
      <3>3. RowsOf(wo)' = RowsOf(wo) BY <1>1 DEF RowsOf
      <3> QED BY <1>1, <2>2, <3>1, <3>2, <3>3 DEF View
    <2> QED BY <2>3, <2>4
  <1>4. View(r)' BY <1>1, <1>3 DEF View
  <1> QED BY <1>2, <1>4 DEF Views

(* An undisturbed INSERT is of a new row, under the request's own id. *)
LEMMA FreshInsert ==
  ASSUME Inv, Views, NEW r \in Request, pc[r] = "insert", r \notin disturbed
  PROVE  /\ InsertedId(r) = r /\ table[r] = NULL /\ ComputedNew(r)
         /\ RowsOf(job[r].workOrderId) = {} /\ ~ViolatesUnique(r)
  <1>1. /\ RowsOf(job[r].workOrderId) = {} /\ entity[r].id = NULL /\ ComputedNew(r)
    BY DEF Views, View
  <1>2. InsertedId(r) = r BY <1>1 DEF InsertedId, Coalesce
  <1>3. table[r] = NULL BY <1>1 DEF RowsOf, Inv, RowIdentity
  <1>4. entity[r].row.workOrderId = job[r].workOrderId
    BY DEF Inv, Control, Copy
  <1> QED BY <1>1, <1>2, <1>3, <1>4 DEF ViolatesUnique
LEMMA InsertViews ==
  ASSUME Inv, Views, NEW r \in Request, Insert(r)
  PROVE  Views'
  <1> DEFINE wo == job[r].workOrderId
             id == InsertedId(r)
             row == entity[r].row
  <1>1. /\ pc[r] = "insert" /\ row \in Row /\ row.workOrderId = wo /\ id \in Request
        /\ UNCHANGED <<job, entity, loaded, published>>
        /\ Goto(r, AfterSave(r)) /\ Write(r, wo, id, row)
    BY DEF Insert, Inv, TypeOK, Control, Copy, Item, InsertedId, Coalesce
  <1>2. table[id] = NULL BY DEF Insert, ViolatesUnique
  <1>3. \A q \in Request \ {r} : View(q)'
    <2> SUFFICES ASSUME NEW q \in Request \ {r} PROVE View(q)'
      OBVIOUS
    <2>1. pc'[q] = pc[q] BY <1>1 DEF Goto, Inv, TypeOK
    <2> HIDE DEF wo, id, row
    <2> QED BY <1>1, <1>2, <2>1, OthersKeepViewOfWrite
  <1>4. ASSUME r \notin disturbed PROVE View(r)'
    <2>1. id = r /\ ComputedNew(r) BY <1>1, <1>4, FreshInsert
    <2>2. table' = [table EXCEPT ![r] = row] BY <1>1, <2>1 DEF Write
    <2>3. table'[r] = row /\ table'[r] # NULL
      BY <1>1, <2>2, NotNull DEF Inv, TypeOK
    <2>4. /\ pc'[r] \in {"notify", "done"}
          /\ pc'[r] = "notify" => job[r].kind = "update" /\ job[r].status = "COMPLETED"
      BY <1>1, AfterSaveLabel DEF Goto, Inv, TypeOK
    <2>5. pc'[r] = "notify" => row.completedAt = r
      BY <1>1, <2>1, <2>4, ComputedStamp
    <2>6. r \in RowsOf(wo)' BY <1>1, <2>3 DEF RowsOf
    <2> QED BY <1>1, <2>3, <2>4, <2>5, <2>6 DEF View
  <1>5. View(r)'
    <2>1. r \in disturbed => r \in disturbed' BY <1>1 DEF Write
    <2> QED BY <1>4, <2>1 DEF View
  <1> QED BY <1>3, <1>5 DEF Views

(* An undisturbed UPDATE writes the copy as a whole. *)
LEMMA WholeUpdate ==
  ASSUME Inv, Views, NEW r \in Request, pc[r] = "update", r \notin disturbed
  PROVE  LET current == table[entity[r].id] IN
         /\ entity[r].id \in RowsOf(job[r].workOrderId)
         /\ current # NULL /\ current \in Row /\ entity[r].row \in Row
         /\ Computed(r, current)
         /\ ChangedColumns(current, loaded[r], entity[r].row) = entity[r].row
  <1> DEFINE current == table[entity[r].id]
  <1>1. /\ entity[r] # NULL /\ entity[r] \in Item /\ entity[r].id \in Request
        /\ entity[r].row \in Row
    BY DEF Inv, TypeOK, Control, Item
  <1>2. current # NULL /\ Computed(r, current) /\ loaded[r] = current
    BY DEF Views, View
  <1>3. current \in Row BY <1>1, <1>2 DEF Inv, TypeOK
  <1>4. current.workOrderId = job[r].workOrderId /\ entity[r].row.workOrderId = job[r].workOrderId
    BY <1>1, <1>2, NotNull DEF Inv, RowIdentity, Copy
  <1>5. ChangedColumns(current, current, entity[r].row) = entity[r].row
    BY <1>1, <1>3, <1>4 DEF ChangedColumns, Row
  <1> QED BY <1>1, <1>2, <1>3, <1>4, <1>5 DEF RowsOf

LEMMA UpdateChangedViews ==
  ASSUME Inv, Views, NEW r \in Request, UpdateChanged(r)
  PROVE  Views'
  <1> DEFINE wo == job[r].workOrderId
             id == entity[r].id
             row == ChangedColumns(table[id], loaded[r], entity[r].row)
  <1>1. /\ pc[r] = "update" /\ id \in Request /\ loaded[r] \in Row /\ entity[r].row \in Row
        /\ UNCHANGED <<job, entity, loaded, published>> /\ Goto(r, AfterSave(r))
    BY DEF UpdateChanged, Inv, TypeOK, Control, Item
  <1>2. \A q \in Request \ {r} : pc'[q] = pc[q]
    BY <1>1 DEF Goto, Inv, TypeOK
  <1>3. /\ pc'[r] \in {"notify", "done"}
        /\ pc'[r] = "notify" => job[r].kind = "update" /\ job[r].status = "COMPLETED"
    BY <1>1, AfterSaveLabel DEF Goto, Inv, TypeOK
  <1>4. CASE table[id] # NULL /\ Write(r, wo, id, row)
    <2>1. table[id] \in Row BY <1>1, <1>4 DEF Inv, TypeOK
    <2>2. table[id].workOrderId = wo
      BY <1>1, <1>4, NotNull DEF Inv, RowIdentity, Copy, Control
    <2>3. row \in Row /\ row.workOrderId = wo
      BY <1>1, <2>1, <2>2, ChangedColumnsType
    <2>4. \A q \in Request \ {r} : View(q)'
      <3> HIDE DEF wo, id, row
      <3> QED BY <1>1, <1>2, <1>4, <2>2, <2>3, OthersKeepViewOfWrite
    <2>5. ASSUME r \notin disturbed PROVE View(r)'
      <3>1. Computed(r, table[id]) /\ row = entity[r].row
        BY <1>1, <2>5, WholeUpdate
      <3>2. table' = [table EXCEPT ![id] = row] BY <1>4 DEF Write
      <3> HIDE DEF row
      <3>3. table'[id] = row /\ table'[id] # NULL
        BY <1>1, <2>3, <3>2, NotNull DEF Inv, TypeOK
      <3>4. pc'[r] = "notify" => row.completedAt = r
        BY <1>3, <2>1, <3>1, ComputedStamp
      <3>5. id \in RowsOf(wo)' BY <1>1, <2>3, <3>3 DEF RowsOf
      <3> QED BY <1>1, <1>3, <3>3, <3>4, <3>5 DEF View
    <2>6. View(r)'
      <3>1. r \in disturbed => r \in disturbed' BY <1>4 DEF Write
      <3> QED BY <2>5, <3>1 DEF View
    <2> QED BY <2>4, <2>6 DEF Views
  <1>5. CASE table[id] = NULL /\ UNCHANGED <<table, disturbed>>
    <2>1. r \in disturbed BY <1>1, <1>5, WholeUpdate
    <2>2. View(r)' BY <1>5, <2>1 DEF View
    <2>3. \A q \in Request \ {r} : View(q)'
      BY <1>1, <1>2, <1>5, OthersKeepView
    <2> QED BY <2>2, <2>3 DEF Views
  <1> QED BY <1>4, <1>5 DEF UpdateChanged
LEMMA EndViews ==
  ASSUME Inv, Views, NEW r \in Request, NEW label \in Ended \ {"conflict"},
         Goto(r, label), UNCHANGED <<table, job, entity, loaded, disturbed>>
  PROVE  Views'
  <1>1. \A q \in Request \ {r} : View(q)'
    BY OthersKeepView DEF Goto, Inv, TypeOK
  <1>2. View(r)' BY DEF View, Goto, Ended, Inv, TypeOK
  <1> QED BY <1>1, <1>2 DEF Views

LEMMA InsertConflictViews ==
  ASSUME Inv, Views, NEW r \in Request, InsertConflict(r)
  PROVE  Views'
  <1>1. \A q \in Request \ {r} : View(q)'
    BY OthersKeepView DEF InsertConflict, Goto, Inv, TypeOK
  <1>2. r \in disturbed BY FreshInsert DEF InsertConflict
  <1>3. View(r)' BY <1>2 DEF View, InsertConflict
  <1> QED BY <1>1, <1>3 DEF Views

LEMMA RemoveFromQueueViews ==
  ASSUME Inv, Views, NEW r \in Request, NEW wo \in WorkOrder, RemoveFromQueue(r, wo)
  PROVE  Views'
  <1>1. /\ UNCHANGED <<entity, loaded, published>>
        /\ pc'[r] = "done"
        /\ \A q \in Request \ {r} : pc'[q] = pc[q] /\ job'[q] = job[q]
    BY DEF RemoveFromQueue, Begin, Goto, Inv, TypeOK
  <1>2. View(r)' BY <1>1 DEF View
  <1>3. CASE \E id \in RowsOf(wo) : Write(r, wo, id, NULL)
    <2>1. PICK id \in RowsOf(wo) : Write(r, wo, id, NULL) BY <1>3
    <2>2. id \in Request /\ table[id].workOrderId = wo BY RowsOfFact
    <2>3. \A q \in Request \ {r} : View(q)'
      BY <1>1, <2>1, <2>2, OthersKeepViewOfWrite
    <2> QED BY <1>2, <2>3 DEF Views
  <1>4. CASE UNCHANGED <<table, disturbed>>
    <2>1. \A q \in Request \ {r} : View(q)' BY <1>1, <1>4, OthersKeepView
    <2> QED BY <1>2, <2>1 DEF Views
  <1> QED BY <1>3, <1>4 DEF RemoveFromQueue

LEMMA InitViews == Init => Views
  BY DEF Init, Views, View

LEMMA ViewsStep == Inv /\ Views /\ [Next]_vars => Views'
  <1> SUFFICES ASSUME Inv, Views, [Next]_vars PROVE Views'
    OBVIOUS
  <1>1. ASSUME NEW r \in Request, NEW wo \in WorkOrder, Start(r, wo) PROVE Views'
    BY <1>1, AddWorkOrderViews, ExecuteUpdateViews, RemoveFromQueueViews DEF Start
  <1>2. ASSUME NEW r \in Request, Step(r) PROVE Views'
    <2>1. CASE FindAny(r) BY <2>1, FindAnyViews
    <2>2. CASE FindItem(r) BY <2>2, FindItemViews
    <2>3. CASE Reload(r) BY <2>3, ReloadViews
    <2>4. CASE Insert(r) BY <2>4, InsertViews
    <2>5. CASE InsertConflict(r) BY <2>5, InsertConflictViews
    <2>6. CASE UpdateChanged(r) BY <2>6, UpdateChangedViews
    <2>7. CASE Notify(r) BY <2>7, EndViews DEF Notify, Ended
    <2>8. CASE Fail(r) BY <2>8, EndViews DEF Fail, Ended
    <2> QED BY <1>2, <2>1, <2>2, <2>3, <2>4, <2>5, <2>6, <2>7, <2>8 DEF Step
  <1>3. CASE UNCHANGED vars
    BY <1>3 DEF vars, Views, View, RowsOf, Computed, ComputedNew
  <1> QED BY <1>1, <1>2, <1>3 DEF Next, AllEnded

(* A handler that meets the UNIQUE constraint lost a race: without another *)
(* writer, the SELECT that found no row is still right at the INSERT.      *)
THEOREM ConflictIsRace == Spec => []ConflictOnlyUnderRace
  <1>1. Views => ConflictOnlyUnderRace
    BY DEF Views, View, ConflictOnlyUnderRace
  <1> QED BY InitInv, InvStep, InitViews, ViewsStep, <1>1, PTL DEF Spec
-----------------------------------------------------------------------------
(* The abstract orders are read off the rows. *)
LEMMA OrderOfRow ==
  ASSUME Inv, NEW wo \in WorkOrder, NEW id \in RowsOf(wo)
  PROVE  Orders[wo] = table[id]
  <1>1. (CHOOSE a \in RowsOf(wo) : TRUE) \in RowsOf(wo) OBVIOUS
  <1>2. (CHOOSE a \in RowsOf(wo) : TRUE) = id BY <1>1 DEF Inv, OneRowPerWorkOrder
  <1> QED BY <1>2 DEF Orders, OrderOf

LEMMA OrderOfNoRow ==
  ASSUME NEW wo \in WorkOrder, RowsOf(wo) = {}
  PROVE  Orders[wo] = NULL
  BY DEF Orders, OrderOf

LEMMA OrdersUnchanged ==
  ASSUME UNCHANGED table
  PROVE  UNCHANGED Orders
  BY DEF Orders, OrderOf, RowsOf

LEMMA OrdersWrite ==
  ASSUME Inv, Inv', NEW wo \in WorkOrder, NEW id \in Request, NEW row \in Row \cup {NULL},
         table' = [table EXCEPT ![id] = row],
         table[id] = NULL \/ table[id].workOrderId = wo,
         row # NULL => row.workOrderId = wo,
         row = NULL => RowsOf(wo) \subseteq {id}
  PROVE  Orders' = [Orders EXCEPT ![wo] = row]
  <1>1. \A a \in Request : table'[a] = IF a = id THEN row ELSE table[a]
    BY DEF Inv, TypeOK
  <1>2. Orders'[wo] = row
    <2>1. CASE row # NULL
      <3>1. id \in RowsOf(wo)' BY <1>1, <2>1 DEF RowsOf
      <3>2. (CHOOSE a \in RowsOf(wo)' : TRUE) = id
        BY <3>1 DEF Inv, OneRowPerWorkOrder
      <3> QED BY <1>1, <3>1, <3>2 DEF Orders, OrderOf
    <2>2. CASE row = NULL
      <3>1. RowsOf(wo)' = {} BY <1>1, <2>2 DEF RowsOf
      <3> QED BY <2>2, <3>1 DEF Orders, OrderOf
    <2> QED BY <2>1, <2>2
  <1>3. ASSUME NEW w \in WorkOrder \ {wo} PROVE Orders'[w] = Orders[w]
    <2>1. RowsOf(w)' = RowsOf(w) BY <1>1 DEF RowsOf
    <2>2. \A a \in RowsOf(w) : table'[a] = table[a] BY <1>1 DEF RowsOf
    <2>3. RowsOf(w) # {} => (CHOOSE a \in RowsOf(w) : TRUE) \in RowsOf(w) OBVIOUS
    <2> QED BY <2>1, <2>2, <2>3 DEF Orders, OrderOf
  <1> QED BY <1>2, <1>3 DEF Orders

(* The data definitions are the same on both sides of the refinement. *)
LEMMA SameData == Lifecycle!Row = Row /\ Lifecycle!StatusOrder = StatusOrder
  BY DEF Lifecycle!Row, Lifecycle!Stamp, Lifecycle!ProductionStatus, Lifecycle!StatusOrder,
         Row, Stamp, ProductionStatus, StatusOrder

(* What a request makes of a row, or of none, is a step of the order. *)
LEMMA OrderStep ==
  ASSUME NEW r \in Request, NEW wo \in WorkOrder, NEW new \in Row, new.workOrderId = wo,
         job[r] \in Job, job[r].workOrderId = wo,
         Orders' = [Orders EXCEPT ![wo] = new], UNCHANGED published,
         new = entity[r].row,
         \/ Orders[wo] = NULL /\ ComputedNew(r)
         \/ Orders[wo] # NULL /\ Orders[wo] \in Row /\ Computed(r, Orders[wo])
  PROVE  Lifecycle!Receive(wo) \/ Lifecycle!Advance(wo)
  <1> DEFINE old == Orders[wo]
             d == job[r].details
             status == job[r].status
  <1>1. Orders'[wo] = new /\ Lifecycle!OnlyChanges(wo)
    BY DEF Orders, Lifecycle!OnlyChanges
  <1>2. CASE job[r].kind = "add"
    <2>1. d \in Details \cup {NULL} BY <1>2 DEF Job
    <2>2. CASE old = NULL
      <3>1. new = NewlyQueued(wo, d)
        BY <1>2, <2>2 DEF Computed, ComputedNew
      <3> QED BY <1>1, <2>2, <3>1, SameData DEF Lifecycle!Receive, NewlyQueued
    <2>3. CASE old # NULL
      <3>1. old \in Row /\ old.status # "QUEUED" /\ new = Requeued(old, d)
        BY <1>2, <2>3 DEF Computed, ComputedNew
      <3>2. /\ new.status = "QUEUED" /\ new.startedAt = NULL /\ new.completedAt = NULL
            /\ old.details # NULL => new.details # NULL
        BY <2>1, <3>1 DEF Requeued, Row, Coalesce
      <3> QED BY <1>1, <2>3, <3>1, <3>2, SameData DEF Lifecycle!Receive
    <2> QED BY <2>2, <2>3
  <1>3. CASE job[r].kind = "update"
    <2>1. status \in ProductionStatus BY <1>3 DEF Job
    <2>2. CASE old = NULL
      <3>1. new = NewWithStatus(wo, status, r)
        BY <1>3, <2>2 DEF Computed, ComputedNew
      <3>2. Lifecycle!WellStamped(new)
        BY <2>1, <3>1, NotNull DEF Lifecycle!WellStamped, NewWithStatus, ProductionStatus
      <3> QED BY <1>1, <2>2, <3>2, SameData DEF Lifecycle!Advance
    <2>3. CASE old # NULL
      <3>1. old \in Row /\ ~Rejects(old, status) /\ new = Updated(old, status, r)
        BY <1>3, <2>3 DEF Computed, ComputedNew
      <3>2. old.status # "COMPLETED" /\ StatusOrder[old.status] <= StatusOrder[status]
        BY <2>1, <3>1 DEF Rejects, StatusOrder, Row, ProductionStatus
      <3>3. /\ new.status = status /\ new.details = old.details
            /\ old.startedAt # NULL => new.startedAt = old.startedAt
            /\ new.startedAt = IF status = "IN_DIAGNOSIS" THEN Coalesce(old.startedAt, r) ELSE old.startedAt
            /\ new.completedAt = IF status = "COMPLETED" THEN r ELSE old.completedAt
        BY <2>1, <3>1 DEF Updated, Row, Coalesce
      <3>4. Lifecycle!WellStamped(old) => Lifecycle!WellStamped(new)
        BY <2>1, <3>1, <3>2, <3>3, NotNull
        DEF Lifecycle!WellStamped, StatusOrder, ProductionStatus, Row, Coalesce
      <3> QED BY <1>1, <2>3, <3>2, <3>3, <3>4, SameData DEF Lifecycle!Advance
    <2> QED BY <2>2, <2>3
  <1> QED BY <1>2, <1>3 DEF Computed, ComputedNew
LEMMA QuietStep ==
  ASSUME UNCHANGED <<table, published>>
  PROVE  UNCHANGED Lifecycle!vars
  BY OrdersUnchanged DEF Lifecycle!vars

LEMMA InsertImplements ==
  ASSUME Inv, Inv', Views, NEW r \in Request, r \notin disturbed, Insert(r)
  PROVE  Lifecycle!Next
  <1> DEFINE wo == job[r].workOrderId
             row == entity[r].row
  <1>1. /\ pc[r] = "insert" /\ row \in Row /\ row.workOrderId = wo
        /\ job[r] \in Job /\ wo \in WorkOrder
    BY DEF Insert, Inv, TypeOK, Control, Copy, Item, Row
  <1>2. /\ InsertedId(r) = r /\ table[r] = NULL /\ ComputedNew(r) /\ RowsOf(wo) = {}
    BY <1>1, FreshInsert
  <1>3. table' = [table EXCEPT ![r] = row] /\ UNCHANGED published
    BY <1>2 DEF Insert, Write
  <1>4. Orders' = [Orders EXCEPT ![wo] = row] /\ Orders[wo] = NULL
    <2>1. row # NULL BY <1>1, NotNull
    <2>2. Orders[wo] = NULL BY <1>1, <1>2, OrderOfNoRow
    <2> HIDE DEF wo, row
    <2> QED BY <1>1, <1>2, <1>3, <2>1, <2>2, OrdersWrite
  <1>5. Lifecycle!Receive(wo) \/ Lifecycle!Advance(wo)
    BY <1>1, <1>2, <1>3, <1>4, OrderStep
  <1> QED BY <1>1, <1>5 DEF Lifecycle!Next

LEMMA UpdateImplements ==
  ASSUME Inv, Inv', Views, NEW r \in Request, r \notin disturbed, UpdateChanged(r)
  PROVE  Lifecycle!Next
  <1> DEFINE wo == job[r].workOrderId
             id == entity[r].id
             row == entity[r].row
  <1>1. /\ pc[r] = "update" /\ row \in Row /\ row.workOrderId = wo
        /\ job[r] \in Job /\ wo \in WorkOrder /\ id \in Request
    BY DEF UpdateChanged, Inv, TypeOK, Control, Copy, Item, Row
  <1>2. /\ id \in RowsOf(wo) /\ table[id] # NULL /\ table[id] \in Row
        /\ Computed(r, table[id])
        /\ ChangedColumns(table[id], loaded[r], row) = row
    BY <1>1, WholeUpdate
  <1>3. table' = [table EXCEPT ![id] = row] /\ UNCHANGED published
    BY <1>2 DEF UpdateChanged, Write
  <1>4. Orders' = [Orders EXCEPT ![wo] = row]
    <2>1. row # NULL BY <1>1, NotNull
    <2>2. table[id].workOrderId = wo BY <1>2 DEF RowsOf
    <2> HIDE DEF wo, id, row
    <2> QED BY <1>1, <1>3, <2>1, <2>2, OrdersWrite
  <1>5. Orders[wo] = table[id] BY <1>1, <1>2, OrderOfRow
  <1>6. Lifecycle!Receive(wo) \/ Lifecycle!Advance(wo)
    BY <1>1, <1>2, <1>3, <1>4, <1>5, OrderStep
  <1> QED BY <1>1, <1>6 DEF Lifecycle!Next

LEMMA RemoveImplements ==
  ASSUME Inv, Inv', NEW r \in Request, NEW wo \in WorkOrder, RemoveFromQueue(r, wo)
  PROVE  [Lifecycle!Next]_(Lifecycle!vars)
  <1>1. UNCHANGED published BY DEF RemoveFromQueue
  <1>2. CASE \E id \in RowsOf(wo) : Write(r, wo, id, NULL)
    <2>1. PICK id \in RowsOf(wo) : Write(r, wo, id, NULL) BY <1>2
    <2>2. id \in Request /\ table[id].workOrderId = wo /\ table[id] # NULL
      BY RowsOfFact
    <2>3. RowsOf(wo) \subseteq {id} BY <2>1 DEF Inv, OneRowPerWorkOrder
    <2>4. Orders' = [Orders EXCEPT ![wo] = NULL]
      BY <2>1, <2>2, <2>3, OrdersWrite DEF Write
    <2>5. Orders[wo] # NULL BY <2>2, OrderOfRow
    <2>6. Orders'[wo] = NULL BY <2>4 DEF Orders
    <2>7. Lifecycle!Compensate(wo)
      BY <1>1, <2>4, <2>5, <2>6 DEF Lifecycle!Compensate, Lifecycle!OnlyChanges
    <2> QED BY <2>7 DEF Lifecycle!Next
  <1>3. CASE UNCHANGED table BY <1>1, <1>3, QuietStep
  <1> QED BY <1>2, <1>3 DEF RemoveFromQueue

LEMMA NotifyImplements ==
  ASSUME Inv, Views, NEW r \in Request, r \notin disturbed, Notify(r)
  PROVE  Lifecycle!Next
  <1> DEFINE wo == job[r].workOrderId
  <1>1. /\ job[r] \in Job /\ job[r].kind = "update" /\ job[r].status = "COMPLETED"
    BY DEF Notify, Inv, TypeOK, Control
  <1>2. wo \in WorkOrder BY <1>1 DEF Job
  <1>3. PICK id \in RowsOf(wo) : table[id].completedAt = r
    BY DEF Notify, Views, View
  <1>4. Orders[wo] # NULL /\ Orders[wo].completedAt = r
    BY <1>2, <1>3, OrderOfRow, RowsOfFact
  <1>5. published' = published \cup
          {[workOrderId |-> wo, status |-> "FINISHED", finishedAt |-> r]}
    BY <1>1 DEF Notify, WorkOrderStatus
  <1>6. UNCHANGED Orders BY OrdersUnchanged DEF Notify
  <1>7. Lifecycle!Announce(wo, r)
    BY <1>4, <1>5, <1>6 DEF Lifecycle!Announce
  <1> QED BY <1>2, <1>7 DEF Lifecycle!Next

(* A step of a request is known by its program counter. *)
LEMMA StepOf ==
  ASSUME Inv, NEW r \in Request, NEW q \in Request, pc'[q] # pc[q],
         (\E wo \in WorkOrder : Start(r, wo)) \/ Step(r)
  PROVE  q = r
  <1>1. PICK label : pc' = [pc EXCEPT ![r] = label]
    BY DEF Start, Step, AddWorkOrder, ExecuteUpdate, RemoveFromQueue, Begin, FindAny, FindItem,
           Save, Reload, Insert, InsertConflict, UpdateChanged, Notify, Fail, Goto
  <1> QED BY <1>1 DEF Inv, TypeOK

LEMMA UndisturbedStep ==
  ASSUME Inv, Inv', Views, NEW r \in Request, r \notin disturbed,
         (\E wo \in WorkOrder : Start(r, wo)) \/ Step(r)
  PROVE  [Lifecycle!Next]_(Lifecycle!vars)
  <1>1. ASSUME NEW wo \in WorkOrder, Start(r, wo)
        PROVE  [Lifecycle!Next]_(Lifecycle!vars)
    <2>1. CASE \E d \in Details \cup {NULL} : AddWorkOrder(r, wo, d)
      BY <2>1, QuietStep DEF AddWorkOrder
    <2>2. CASE \E status \in ProductionStatus : ExecuteUpdate(r, wo, status)
      BY <2>2, QuietStep DEF ExecuteUpdate
    <2>3. CASE RemoveFromQueue(r, wo) BY <2>3, RemoveImplements
    <2> QED BY <1>1, <2>1, <2>2, <2>3 DEF Start
  <1>2. CASE Step(r)
    <2>1. CASE FindAny(r) BY <2>1, QuietStep DEF FindAny
    <2>2. CASE FindItem(r) BY <2>2, QuietStep DEF FindItem
    <2>3. CASE Reload(r) BY <2>3, QuietStep DEF Reload
    <2>4. CASE Insert(r) BY <2>4, InsertImplements
    <2>5. CASE InsertConflict(r) BY <2>5, QuietStep DEF InsertConflict
    <2>6. CASE UpdateChanged(r) BY <2>6, UpdateImplements
    <2>7. CASE Notify(r) BY <2>7, NotifyImplements
    <2>8. CASE Fail(r) BY <2>8, QuietStep DEF Fail
    <2> QED BY <1>2, <2>1, <2>2, <2>3, <2>4, <2>5, <2>6, <2>7, <2>8 DEF Step
  <1> QED BY <1>1, <1>2

(* However the handlers interleave and fail, one whose row no other wrote  *)
(* since it began only takes steps that the lifecycle allows.              *)
THEOREM UndisturbedImplements == Spec => UndisturbedStepsImplementLifecycle
  <1> DEFINE Allowed ==
        \A r \in Request : pc'[r] # pc[r] /\ r \notin disturbed => [Lifecycle!Next]_(Lifecycle!vars)
  <1>1. Inv /\ Inv' /\ Views /\ [Next]_vars => [Allowed]_vars
    <2> SUFFICES ASSUME Inv, Inv', Views, Next, NEW q \in Request,
                        pc'[q] # pc[q], q \notin disturbed
                 PROVE  [Lifecycle!Next]_(Lifecycle!vars)
      OBVIOUS
    <2>1. PICK r \in Request : (\E wo \in WorkOrder : Start(r, wo)) \/ Step(r)
      BY DEF Next, AllEnded, vars
    <2>2. q = r BY <2>1, StepOf
    <2> QED BY <2>1, <2>2, UndisturbedStep
  <1> QED BY InitInv, InvStep, InitViews, ViewsStep, <1>1, PTL
      DEF Spec, UndisturbedStepsImplementLifecycle

-----------------------------------------------------------------------------
(* One request at a time on a work order, and hence none disturbed. *)
Alone ==
  \A a, b \in Request :
    /\ pc[a] \in InFlight /\ pc[b] \in InFlight
    /\ job[a].workOrderId = job[b].workOrderId
    => a = b

SerialInv == Inv /\ Views /\ Alone /\ disturbed = {}

LEMMA SerialNextIsNext == SerialNext => Next
  BY DEF SerialNext, Next

LEMMA AloneWrites ==
  ASSUME Alone, disturbed = {}, NEW r \in Request, NEW wo, NEW id, NEW row,
         Write(r, wo, id, row),
         (pc[r] \in InFlight /\ job[r].workOrderId = wo) \/ Quiet(wo)
  PROVE  disturbed' = {}
  BY DEF Alone, Write, Quiet

LEMMA SerialStart ==
  ASSUME SerialInv, NEW r \in Request, NEW wo \in WorkOrder, Quiet(wo), Start(r, wo)
  PROVE  Alone' /\ disturbed' = {}
  <1>1. PICK request, label :
          /\ request.workOrderId = wo /\ pc[r] = "idle"
          /\ job' = [job EXCEPT ![r] = request] /\ pc' = [pc EXCEPT ![r] = label]
    BY DEF Start, AddWorkOrder, ExecuteUpdate, RemoveFromQueue, Begin, Goto
  <1>2. Alone'
    BY <1>1 DEF SerialInv, Inv, TypeOK, Alone, Quiet
  <1>3. disturbed' = {}
    BY AloneWrites DEF SerialInv, Start, AddWorkOrder, ExecuteUpdate, RemoveFromQueue
  <1> QED BY <1>2, <1>3

LEMMA SerialStep ==
  ASSUME SerialInv, NEW r \in Request, Step(r)
  PROVE  Alone' /\ disturbed' = {}
  <1>1. PICK label :
          pc[r] \in InFlight /\ job' = job /\ pc' = [pc EXCEPT ![r] = label]
    BY DEF Step, FindAny, FindItem, Save, Reload, Insert, InsertConflict, UpdateChanged,
           Notify, Fail, Goto, InFlight
  <1>2. Alone'
    BY <1>1 DEF SerialInv, Inv, TypeOK, Alone
  <1>3. disturbed' = {}
    <2>1. CASE UNCHANGED disturbed BY <2>1 DEF SerialInv
    <2>2. CASE \E id, row : Write(r, job[r].workOrderId, id, row)
      BY <1>1, <2>2, AloneWrites DEF SerialInv
    <2> QED BY <2>1, <2>2
        DEF Step, FindAny, FindItem, Reload, Insert, InsertConflict, UpdateChanged, Notify, Fail
  <1> QED BY <1>2, <1>3

LEMMA SerialInvStep == SerialInv /\ [SerialNext]_vars => SerialInv'
  <1> SUFFICES ASSUME SerialInv, [SerialNext]_vars PROVE SerialInv'
    OBVIOUS
  <1>1. [Next]_vars BY SerialNextIsNext
  <1>2. Inv' /\ Views' BY <1>1, InvStep, ViewsStep DEF SerialInv
  <1>3. Alone' /\ disturbed' = {}
    <2>1. CASE UNCHANGED vars BY <2>1 DEF vars, SerialInv, Alone
    <2>2. CASE SerialNext
      BY <2>1, <2>2, SerialStart, SerialStep DEF SerialNext, AllEnded
    <2> QED BY <2>1, <2>2
  <1> QED BY <1>2, <1>3 DEF SerialInv

LEMMA SerialInit == Init => SerialInv
  BY InitInv, InitViews DEF Init, SerialInv, Alone, InFlight

(* Without overlapping requests the code implements the lifecycle: every   *)
(* statement of every handler is a step of OrderLifecycle or none.         *)
THEOREM SerialImplements == SerialSpec => ImplementsLifecycle
  <1>1. Init => Lifecycle!Init
    BY DEF Init, Lifecycle!Init, Orders, OrderOf, RowsOf
  <1>2. SerialInv /\ SerialInv' /\ [SerialNext]_vars => [Lifecycle!Next]_(Lifecycle!vars)
    <2> SUFFICES ASSUME SerialInv, SerialInv', [SerialNext]_vars
                 PROVE  [Lifecycle!Next]_(Lifecycle!vars)
      OBVIOUS
    <2>1. CASE UNCHANGED vars BY <2>1, QuietStep DEF vars
    <2>2. ASSUME NEW r \in Request, (\E wo \in WorkOrder : Start(r, wo)) \/ Step(r)
          PROVE  [Lifecycle!Next]_(Lifecycle!vars)
      BY <2>2, UndisturbedStep DEF SerialInv
    <2> QED BY <2>1, <2>2 DEF SerialNext, AllEnded
  <1> QED BY SerialInit, SerialInvStep, <1>1, <1>2, PTL
      DEF SerialSpec, ImplementsLifecycle, Lifecycle!Spec

(* Without overlapping requests the stamps of every row agree with its     *)
(* status: a property of the lifecycle, which the code inherits.           *)
THEOREM SerialStamps == SerialSpec => []StampsMatchStatus
  <1>1. Lifecycle!Init => Lifecycle!StampsMatchStatus
    BY DEF Lifecycle!Init, Lifecycle!StampsMatchStatus
  <1>2. Lifecycle!StampsMatchStatus /\ [Lifecycle!Next]_(Lifecycle!vars)
          => Lifecycle!StampsMatchStatus'
    <2> SUFFICES ASSUME Lifecycle!StampsMatchStatus, [Lifecycle!Next]_(Lifecycle!vars),
                        NEW wo \in WorkOrder, Orders'[wo] # NULL
                 PROVE  Lifecycle!WellStamped(Orders'[wo])
      BY DEF Lifecycle!StampsMatchStatus
    <2>1. CASE UNCHANGED Orders BY <2>1 DEF Lifecycle!StampsMatchStatus
    <2>2. ASSUME NEW w \in WorkOrder,
                 Lifecycle!Receive(w) \/ Lifecycle!Advance(w) \/ Lifecycle!Compensate(w)
          PROVE  Lifecycle!WellStamped(Orders'[wo])
      <3>1. Orders' = [Orders EXCEPT ![w] = Orders'[w]]
        BY <2>2 DEF Lifecycle!Receive, Lifecycle!Advance, Lifecycle!Compensate,
                    Lifecycle!OnlyChanges
      <3>2. CASE w # wo
        <4>1. wo \in DOMAIN Orders BY DEF Orders
        <4>2. Orders'[wo] = Orders[wo] BY <3>1, <3>2, <4>1
        <4> QED BY <4>2 DEF Lifecycle!StampsMatchStatus
      <3>3. CASE w = wo
        BY <2>2, <3>3 DEF Lifecycle!Receive, Lifecycle!Advance, Lifecycle!Compensate,
                          Lifecycle!WellStamped, Lifecycle!StampsMatchStatus
      <3> QED BY <3>2, <3>3
    <2> QED BY <2>1, <2>2
        DEF Lifecycle!Next, Lifecycle!Announce, Lifecycle!vars
  <1> QED BY SerialImplements, <1>1, <1>2, PTL
      DEF ImplementsLifecycle, Lifecycle!Spec, StampsMatchStatus

-----------------------------------------------------------------------------
(* What overlapping requests undo, and requests one at a time do not. *)

(* A request of a PATCH only moves the row of its work order forward. *)
LEMMA ForwardStep ==
  ASSUME SerialInv, NEW r \in Request, Step(r), job'[r].kind = "update",
         NEW id \in RowsOf(job'[r].workOrderId), table'[id] # NULL
  PROVE  StatusOrder[table[id].status] <= StatusOrder[table'[id].status]
  <1>1. job' = job /\ r \notin disturbed
    BY DEF SerialInv, Step, FindAny, FindItem, Reload, Insert, InsertConflict, UpdateChanged,
           Notify, Fail
  <1>2. table[id] \in Row /\ id \in Request
    BY <1>1, RowsOfFact DEF SerialInv
  <1>3. CASE table' = table
    <2>1. table[id].status \in ProductionStatus
      BY <1>2 DEF Row
    <2> QED BY <1>3, <2>1 DEF ProductionStatus, StatusOrder
  <1>4. CASE Insert(r)
    <2>1. RowsOf(job[r].workOrderId) = {}
      BY <1>1, <1>4, FreshInsert DEF SerialInv, Insert
    <2> QED BY <1>1, <2>1
  <1>5. CASE UpdateChanged(r) /\ table' # table
    <2> DEFINE wo == job[r].workOrderId
               status == job[r].status
    <2>1. /\ entity[r].id \in RowsOf(wo) /\ Computed(r, table[entity[r].id])
          /\ ChangedColumns(table[entity[r].id], loaded[r], entity[r].row) = entity[r].row
      BY <1>1, <1>5, WholeUpdate DEF SerialInv, UpdateChanged
    <2>2. entity[r].id = id
      <3>1. wo \in WorkOrder
        BY <1>1, <1>2 DEF RowsOf, Row
      <3> QED BY <1>1, <2>1, <3>1 DEF SerialInv, Inv, OneRowPerWorkOrder
    <2>3. table'[id] = entity[r].row
      BY <1>2, <1>5, <2>1, <2>2 DEF UpdateChanged, Write, SerialInv, Inv, TypeOK
    <2>4. ~Rejects(table[id], status) /\ entity[r].row = Updated(table[id], status, r)
      BY <1>1, <2>1, <2>2 DEF Computed
    <2>5. Updated(table[id], status, r).status = status
      BY <1>2 DEF Updated, Row
    <2>6. status \in ProductionStatus /\ table[id].status \in ProductionStatus
      <3>1. job[r] \in Job /\ job[r].kind = "update"
        BY <1>1, <1>5 DEF SerialInv, Inv, TypeOK, Control, UpdateChanged
      <3> QED BY <1>2, <3>1 DEF Job, Row
    <2>7. StatusOrder[table[id].status] <= StatusOrder[status]
      BY <2>4, <2>6 DEF Rejects, ProductionStatus, StatusOrder
    <2> QED BY <2>3, <2>4, <2>5, <2>7
  <1> QED BY <1>3, <1>4, <1>5
      DEF Step, FindAny, FindItem, Reload, InsertConflict, Notify, Fail

(* One request at a time on a work order: no PATCH moves it back, because  *)
(* the row that execute checked is the row that save() writes.             *)
THEOREM SerialForward == SerialSpec => StatusNeverGoesBack
  <1> DEFINE Forward ==
        \A r \in Request : pc'[r] # pc[r] /\ job'[r].kind = "update" =>
          \A id \in RowsOf(job'[r].workOrderId) :
            table'[id] # NULL =>
              StatusOrder[table[id].status] <= StatusOrder[table'[id].status]
  <1>1. SerialInv /\ [SerialNext]_vars => [Forward]_vars
    <2> SUFFICES ASSUME SerialInv, SerialNext, NEW q \in Request,
                        pc'[q] # pc[q], job'[q].kind = "update",
                        NEW id \in RowsOf(job'[q].workOrderId), table'[id] # NULL
                 PROVE  StatusOrder[table[id].status] <= StatusOrder[table'[id].status]
      OBVIOUS
    <2>1. PICK r \in Request : (\E wo \in WorkOrder : Start(r, wo)) \/ Step(r)
      BY DEF SerialNext, AllEnded, vars
    <2>2. q = r
      BY <2>1, StepOf DEF SerialInv
    <2>3. CASE Step(r)
      BY <2>2, <2>3, ForwardStep
    <2>4. ASSUME NEW wo \in WorkOrder, Start(r, wo)
          PROVE  StatusOrder[table[id].status] <= StatusOrder[table'[id].status]
      <3>1. table' = table
        <4>1. ~RemoveFromQueue(r, wo)
          BY <2>2 DEF RemoveFromQueue, Begin, SerialInv, Inv, TypeOK
        <4> QED BY <2>4, <4>1 DEF Start, AddWorkOrder, ExecuteUpdate
      <3>2. table[id].status \in ProductionStatus
        BY DEF RowsOf, SerialInv, Inv, TypeOK, Row
      <3> QED BY <3>1, <3>2 DEF ProductionStatus, StatusOrder
    <2> QED BY <2>1, <2>3, <2>4
  <1> QED BY SerialInit, SerialInvStep, <1>1, PTL DEF SerialSpec, StatusNeverGoesBack

(* One request at a time on a work order: a row that was removed does not  *)
(* come back, because save() still finds the row its copy is of.           *)
THEOREM SerialRemoval == SerialSpec => RemovedStaysRemoved
  <1> DEFINE Fresh ==
        \A id \in Request : table[id] = NULL /\ table'[id] # NULL => pc[id] = "insert"
  <1>1. SerialInv /\ [SerialNext]_vars => [Fresh]_vars
    <2> SUFFICES ASSUME SerialInv, SerialNext, NEW id \in Request,
                        table[id] = NULL, table'[id] # NULL
                 PROVE  pc[id] = "insert"
      OBVIOUS
    <2>1. ASSUME NEW r \in Request, Insert(r) PROVE pc[id] = "insert"
      <3>1. InsertedId(r) = r /\ pc[r] = "insert"
        BY <2>1, FreshInsert DEF SerialInv, Insert
      <3> QED BY <2>1, <3>1 DEF Insert, Write, SerialInv, Inv, TypeOK
    <2>2. ASSUME NEW r \in Request, UpdateChanged(r) PROVE FALSE
      BY <2>2 DEF UpdateChanged, Write, SerialInv, Inv, TypeOK
    <2>3. ASSUME NEW r \in Request, NEW wo \in WorkOrder, RemoveFromQueue(r, wo) PROVE FALSE
      BY <2>3 DEF RemoveFromQueue, Write, SerialInv, Inv, TypeOK
    <2> QED BY <2>1, <2>2, <2>3
        DEF SerialNext, Start, Step, AddWorkOrder, ExecuteUpdate, FindAny, FindItem, Reload,
            InsertConflict, Notify, Fail, AllEnded, vars
  <1> QED BY SerialInit, SerialInvStep, <1>1, PTL DEF SerialSpec, RemovedStaysRemoved

(* What was announced was announced by a request that has ended. *)
AnnouncedBefore == \A sent \in published : pc[sent.finishedAt] = "done"

LEMMA AnnouncedBeforeStep ==
  Inv /\ AnnouncedBefore /\ [Next]_vars => AnnouncedBefore'
  <1> SUFFICES ASSUME Inv, AnnouncedBefore, [Next]_vars, NEW sent \in published'
               PROVE  pc'[sent.finishedAt] = "done"
    BY DEF AnnouncedBefore
  <1>1. ASSUME NEW r \in Request, Notify(r) PROVE pc'[sent.finishedAt] = "done"
    BY <1>1 DEF Notify, Goto, Inv, TypeOK, AnnouncedBefore
  <1>2. CASE published' = published
    <2>1. pc[sent.finishedAt] = "done"
      BY <1>2 DEF AnnouncedBefore
    <2>2. ASSUME NEW r \in Request, NEW label, Goto(r, label), pc[r] # "done"
          PROVE  pc'[sent.finishedAt] = "done"
      BY <2>1, <2>2 DEF Goto
    <2> QED BY <2>1, <2>2
        DEF Next, Start, Step, AddWorkOrder, ExecuteUpdate, RemoveFromQueue, Begin, FindAny,
            FindItem, Save, Reload, Insert, InsertConflict, UpdateChanged, Notify, Fail, InFlight,
            AllEnded, vars
  <1> QED BY <1>1, <1>2
      DEF Next, Start, Step, AddWorkOrder, ExecuteUpdate, RemoveFromQueue, FindAny, FindItem,
          Reload, Insert, InsertConflict, UpdateChanged, Fail, AllEnded, vars

(* One request at a time on a work order: a completion is announced once,  *)
(* because only the request that stamped it can still announce it.         *)
THEOREM SerialAnnouncement == SerialSpec => FinishedOnlyOnce
  <1> DEFINE Once ==
        \A wo \in WorkOrder :
          (OrderOf(wo) # NULL /\ OrderOf(wo).status = "COMPLETED") =>
            \A sent \in published, new \in published' \ published :
              ~(/\ sent.workOrderId = wo /\ sent.finishedAt = OrderOf(wo).completedAt
                /\ new.workOrderId = wo)
  <1>1. Init => AnnouncedBefore
    BY DEF Init, AnnouncedBefore
  <1>2. SerialInv /\ AnnouncedBefore /\ [SerialNext]_vars => [Once]_vars
    <2> SUFFICES ASSUME SerialInv, AnnouncedBefore, SerialNext, NEW wo \in WorkOrder,
                        NEW sent \in published, NEW new \in published' \ published,
                        sent.workOrderId = wo, sent.finishedAt = OrderOf(wo).completedAt,
                        new.workOrderId = wo
                 PROVE  FALSE
      OBVIOUS
    <2>1. PICK r \in Request : Notify(r)
      BY DEF SerialNext, Start, Step, AddWorkOrder, ExecuteUpdate, RemoveFromQueue, FindAny,
             FindItem, Reload, Insert, InsertConflict, UpdateChanged, Fail, AllEnded, vars
    <2>2. job[r].workOrderId = wo
      BY <2>1 DEF Notify
    <2>3. PICK id \in RowsOf(wo) : table[id].completedAt = r
      BY <2>1, <2>2 DEF Notify, SerialInv, Views, View
    <2>4. OrderOf(wo).completedAt = r
      BY <2>3, OrderOfRow DEF SerialInv, Orders
    <2>5. pc[r] = "done"
      BY <2>4 DEF AnnouncedBefore
    <2> QED BY <2>1, <2>5 DEF Notify
  <1>3. Inv /\ AnnouncedBefore /\ [SerialNext]_vars => AnnouncedBefore'
    BY AnnouncedBeforeStep, SerialNextIsNext
  <1>4. SerialInv => Inv
    BY DEF SerialInv
  <1> QED BY SerialInit, SerialInvStep, <1>1, <1>2, <1>3, <1>4, PTL DEF SerialSpec, FinishedOnlyOnce
=============================================================================
