--------------------------- MODULE MCMessageConsumer ---------------------------
(* Small instances of MessageConsumer for TLC. *)
EXTENDS MessageConsumer
=============================================================================
