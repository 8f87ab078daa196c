---------------------------- MODULE MCMongoState ----------------------------
(* MongoState for TLC: the operation lists of Multi calls.                 *)
EXTENDS MongoState, TLC

CONSTANTS k1, k2

Op(op, k) == [op |-> op, key |-> k]

\* Transactions that write the same documents in different orders, that delete
\* what another one upserts, that begin with an operation of another kind, and
\* that have nothing to send.
MCRequests ==
  {<<Op("upsert", k1), Op("delete", k2)>>,
   <<Op("upsert", k2), Op("upsert", k1)>>,
   <<Op("other", k2), Op("delete", k1), Op("upsert", k1)>>,
   <<Op("other", k1)>>, <<>>}
=============================================================================
