---------------------------- MODULE OrderLifecycle ----------------------------
(***************************************************************************)
(* What the production service promises about each work order, with no     *)
(* database, no memory copies and no interleaving: an order is absent or   *)
(* has one row, a row moves forward only, a finished order is not touched  *)
(* except to be queued afresh, and the order service is told FINISHED only *)
(* of an order that is finished.  ProductionQueue and SerializedQueue say  *)
(* how far the code keeps this promise.                                    *)
(***************************************************************************)
EXTENDS ProductionOrder

VARIABLES
  orders,      \* work order -> its row, or NULL
  published    \* the status updates sent so far

vars == <<orders, published>>

Init ==
  /\ orders = [wo \in WorkOrder |-> NULL]
  /\ published = {}

OnlyChanges(wo) ==
  /\ orders' = [orders EXCEPT ![wo] = orders'[wo]]
  /\ UNCHANGED published

(* The stamps a row carries agree with its status. *)
WellStamped(row) ==
  /\ row.status = "COMPLETED" <=> row.completedAt # NULL
  /\ row.status = "QUEUED" => row.startedAt = NULL
  /\ row.status = "IN_DIAGNOSIS" => row.startedAt # NULL

(* An order enters the queue with no stamps; one that waits stays as it    *)
(* is, and details once known are not forgotten.                           *)
Receive(wo) ==
  LET old == orders[wo]  new == orders'[wo] IN
  /\ OnlyChanges(wo)
  /\ new \in Row /\ new.workOrderId = wo
  /\ new.status = "QUEUED" /\ new.startedAt = NULL /\ new.completedAt = NULL
  /\ old # NULL =>
       /\ old.status # "QUEUED"
       /\ old.details # NULL => new.details # NULL

(* Work advances an order, forward only: a finished order stays finished,  *)
(* and a start once stamped is kept.  The status of an unknown order may   *)
(* be anything.  The stamps of a well-stamped row stay so.                 *)
Advance(wo) ==
  LET old == orders[wo]  new == orders'[wo] IN
  /\ OnlyChanges(wo)
  /\ new \in Row /\ new.workOrderId = wo
  /\ old = NULL => WellStamped(new)
  /\ old # NULL =>
       /\ old.status # "COMPLETED"
       /\ StatusOrder[old.status] <= StatusOrder[new.status]
       /\ new.details = old.details
       /\ old.startedAt # NULL => new.startedAt = old.startedAt
       /\ WellStamped(old) => WellStamped(new)

Compensate(wo) ==
  /\ OnlyChanges(wo)
  /\ orders[wo] # NULL /\ orders'[wo] = NULL

(* FINISHED is told of a finished order, by the request that finished it. *)
Announce(wo, request) ==
  /\ orders[wo] # NULL /\ orders[wo].completedAt = request
  /\ published' = published \cup
       {[workOrderId |-> wo, status |-> "FINISHED", finishedAt |-> request]}
  /\ UNCHANGED orders

Next ==
  \/ \E wo \in WorkOrder : Receive(wo) \/ Advance(wo) \/ Compensate(wo)
  \/ \E wo \in WorkOrder, request \in Request : Announce(wo, request)

Spec == Init /\ [][Next]_vars

-----------------------------------------------------------------------------
(* Types *)
TypeOK ==
  /\ orders \in [WorkOrder -> Row \cup {NULL}]
  /\ published \subseteq StatusUpdate

(* A row is stamped as its status says: completedAt exactly when COMPLETED, *)
(* no startedAt while QUEUED, a startedAt in diagnosis.                     *)
StampsMatchStatus ==
  \A wo \in WorkOrder : orders[wo] # NULL => WellStamped(orders[wo])
=============================================================================
