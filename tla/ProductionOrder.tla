---------------------------- MODULE ProductionOrder ----------------------------
(***************************************************************************)
(* The rows of production_queue_items and what the service computes from   *)
(* them: the pure part of production-queue.service.ts and of               *)
(* update-production-status.use-case.ts.                                   *)
(*                                                                         *)
(* A row keeps the columns the rules read or write.  The four descriptive  *)
(* columns (customerId, vehicleId, protocol, totalAmount), always written  *)
(* together and with the same `extra?.x ?? old`, are one column, details.  *)
(* A timestamp is the request whose `new Date()` produced it: the rules    *)
(* only ask whether there is one, and two requests never share one.        *)
(***************************************************************************)
EXTENDS Integers

CONSTANTS
  WorkOrder,   \* work order numbers (the external key of a row)
  Request,     \* the requests the service handles: messages and PATCH calls
  Details,     \* values of the descriptive columns
  NULL         \* SQL NULL, and "no row"

ProductionStatus == {"QUEUED", "IN_DIAGNOSIS", "IN_REPAIR", "COMPLETED"}

(* STATUS_ORDER *)
StatusOrder == [QUEUED |-> 0, IN_DIAGNOSIS |-> 1, IN_REPAIR |-> 2, COMPLETED |-> 3]

Stamp == Request \cup {NULL}

Row == [workOrderId : WorkOrder, details : Details \cup {NULL},
        status : ProductionStatus, startedAt : Stamp, completedAt : Stamp]

ASSUME NullAssumption ==
  NULL \notin WorkOrder \cup Request \cup Details \cup Row

Coalesce(a, b) == IF a # NULL THEN a ELSE b

(* The row a receive message inserts. *)
NewlyQueued(wo, details) ==
  [workOrderId |-> wo, details |-> details, status |-> "QUEUED",
   startedAt |-> NULL, completedAt |-> NULL]

(* A slip: the row goes back in the queue with its old completion. *)
RequeuedKeepingCompletion(row, details) ==
  [row EXCEPT !.status = "QUEUED", !.details = Coalesce(details, @), !.startedAt = NULL]

(* An existing row put back in the queue: its stamps are erased, and the   *)
(* details the message does not carry are kept.                            *)
Requeued(row, details) ==
  [row EXCEPT !.status = "QUEUED", !.details = Coalesce(details, @),
              !.startedAt = NULL, !.completedAt = NULL]

(* The row created by a status update for an unknown work order. *)
NewWithStatus(wo, status, now) ==
  [workOrderId |-> wo, details |-> NULL, status |-> status,
   startedAt   |-> IF status # "QUEUED" THEN now ELSE NULL,
   completedAt |-> IF status = "COMPLETED" THEN now ELSE NULL]

(* An existing row moved to a status.  Only IN_DIAGNOSIS starts the clock. *)
Updated(row, status, now) ==
  [row EXCEPT
     !.status      = status,
     !.startedAt   = IF status = "IN_DIAGNOSIS" THEN Coalesce(@, now) ELSE @,
     !.completedAt = IF status = "COMPLETED" THEN now ELSE @]

(* Slips: only one of the two checks. *)
RejectsCompletedOnly(row, status) == row.status = "COMPLETED"
RejectsBackwardOnly(row, status) == StatusOrder[status] < StatusOrder[row.status]

(* The two BadRequest exits of execute. *)
Rejects(row, status) ==
  \/ row.status = "COMPLETED"
  \/ StatusOrder[status] < StatusOrder[row.status]

(* The UPDATE that save() issues: the columns on which the entity differs   *)
(* from the row reloaded before the statement, written over the row as it   *)
(* is when the statement runs.                                              *)
ChangedColumns(current, reloaded, wanted) ==
  LET Column(c) == IF wanted[c] = reloaded[c] THEN current[c] ELSE wanted[c]
  IN  [workOrderId |-> current.workOrderId,
       details     |-> Column("details"),
       status      |-> Column("status"),
       startedAt   |-> Column("startedAt"),
       completedAt |-> Column("completedAt")]

(* A slip: the production status is sent as it is. *)
WorkOrderStatusUnmapped ==
  [QUEUED |-> "QUEUED", IN_DIAGNOSIS |-> "IN_DIAGNOSIS",
   IN_REPAIR |-> "IN_REPAIR", COMPLETED |-> "COMPLETED"]

(* mapProductionStatusToWorkOrderStatus *)
WorkOrderStatus ==
  [QUEUED |-> "RECEIVED", IN_DIAGNOSIS |-> "DIAGNOSING",
   IN_REPAIR |-> "IN_PROGRESS", COMPLETED |-> "FINISHED"]

(* What production.v1.status-update carries. *)
StatusUpdate ==
  [workOrderId : WorkOrder, status : {"RECEIVED", "DIAGNOSING", "IN_PROGRESS", "FINISHED"},
   finishedAt : Request]
=============================================================================
