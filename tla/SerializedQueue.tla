---------------------------- MODULE SerializedQueue ----------------------------
(***************************************************************************)
(* ProductionQueue in an environment that is kinder than the code demands: *)
(* a request on a work order begins only when no other is in flight on it  *)
(* (one operator at a time, and no message while a PATCH runs).  Failures  *)
(* and requests on other work orders interleave as before.  Here the code  *)
(* keeps the whole promise of OrderLifecycle.                              *)
(***************************************************************************)
EXTENDS ProductionQueue

Quiet(wo) == \A r \in Request : pc[r] \in InFlight => job[r].workOrderId # wo

SerialNext ==
  \/ \E r \in Request, wo \in WorkOrder : Quiet(wo) /\ Start(r, wo)
  \/ \E r \in Request : Step(r)
  \/ AllEnded

SerialSpec == Init /\ [][SerialNext]_vars

-----------------------------------------------------------------------------
(* Without overlapping requests every statement the handlers issue is one  *)
(* step of the lifecycle or none: checks, copies, save() and the send are  *)
(* atomic as far as anyone can tell.                                       *)
ImplementsLifecycle == Lifecycle!Spec

(* Without overlapping requests the stamps of a row agree with its status, *)
(* whichever path of PATCH calls, enqueues and removals led to it.         *)
StampsMatchStatus == Lifecycle!StampsMatchStatus
=============================================================================
