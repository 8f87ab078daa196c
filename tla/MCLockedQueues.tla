--------------------------- MODULE MCLockedQueues ---------------------------
(* LockedQueues for TLC: one message and two readers on every component.   *)
EXTENDS LockedQueues
=============================================================================
