------------------------------ MODULE MCKafka -------------------------------
(* Kafka for TLC: metadata that Init takes, and metadata that it refuses.  *)
EXTENDS Kafka

MCMetadata ==
  {[authRequired |-> "false", saslUsername |-> FALSE, saslPassword |-> FALSE],
   [authRequired |-> "true", saslUsername |-> TRUE, saslPassword |-> FALSE]}
=============================================================================
