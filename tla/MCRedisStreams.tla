--------------------------- MODULE MCRedisStreams ---------------------------
(***************************************************************************)
(* A small instance of RedisStreams for TLC: one message, which retries    *)
(* can store twice, and two instances of the application with MaxFaults    *)
(* crashes and lost replies between them.                                  *)
(***************************************************************************)
EXTENDS RedisStreams
=============================================================================
