-------------------------- MODULE MCPushedReaders ---------------------------
(***************************************************************************)
(* PushedReaders for TLC: all three components.                            *)
(***************************************************************************)
EXTENDS PushedReaders

MCComponents == {"nats", "rabbitmq", "mqtt"}

\* Good metadata, and one that lacks each of the things asked for.
MCMetadata ==
  {[address |-> a, name |-> n, wellFormed |-> w] : a, n, w \in BOOLEAN}
=============================================================================
