------------------------------ MODULE MessageFate ------------------------------
(***************************************************************************)
(* What a queue, its dead-letter queue and their consumer promise of each  *)
(* message as it was published, whatever connections and processes are     *)
(* lost: one copy of it, which is answered for once and never comes back   *)
(* from that, and acknowledged only after its effect.                      *)
(***************************************************************************)
CONSTANT Message

Fate == {"unsent", "waiting", "held", "dead", "acked", "buried"}

VARIABLES
  fate,      \* where each message is
  effected   \* the messages whose effect was committed, once or more often

vars == <<fate, effected>>

TypeOK == fate \in [Message -> Fate] /\ effected \subseteq Message

Init == fate = [m \in Message |-> "unsent"] /\ effected = {}

Turn(m, from, to) ==
  /\ fate[m] \in from
  /\ fate' = [fate EXCEPT ![m] = to]
  /\ UNCHANGED effected

Publish(m) == Turn(m, {"unsent"}, "waiting")

Deliver(m) == Turn(m, {"waiting"}, "held")

(* The connection is lost. *)
Return(m) == Turn(m, {"held"}, "waiting")

Acknowledge(m) == m \in effected /\ Turn(m, {"held"}, "acked")

(* By the handler that holds it, or for want of one. *)
Reject(m) == Turn(m, {"held", "waiting"}, "dead")

(* Thrown away, or published again as something else. *)
Bury(m) == Turn(m, {"dead"}, "buried")

(* A handler that has lost its connection may still have its effect. *)
Effect(m) ==
  /\ fate[m] # "unsent"
  /\ effected' = effected \cup {m}
  /\ UNCHANGED fate

Next ==
  \E m \in Message :
    \/ Publish(m) \/ Deliver(m) \/ Return(m) \/ Acknowledge(m) \/ Reject(m) \/ Bury(m)
    \/ Effect(m)

Spec == Init /\ [][Next]_vars
=============================================================================
