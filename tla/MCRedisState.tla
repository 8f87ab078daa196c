---------------------------- MODULE MCRedisState ----------------------------
(* RedisState for TLC: which calls are made, and with which requests.      *)
EXTENDS RedisState, TLC

CONSTANTS k1, k2

Symmetry == Permutations(Calls)

Opt(conc, cons, pat, n) ==
  [concurrency |-> conc, consistency |-> cons, pattern |-> pat, threshold |-> n]

Rq(k, e, o) == [key |-> k, etag |-> e, options |-> o]

Once    == Opt(FirstWrite, Eventual, "", 0)
Twice   == Opt(FirstWrite, Eventual, Linear, 2)
Blind   == Opt(LastWrite, "", Exponential, 0)
Durable == Opt("", Strong, "", 1)

MCInitial == {None, Str(Foreign), [type |-> "fields", data |-> Foreign], Hash(Foreign, 1)}

\* Conditional and unconditional writers of one key, retried and not.
MCSets ==
  {<<Rq(k1, 1, Twice)>>, <<Rq(k1, 2, Once)>>,
   <<Rq(k1, 1, Blind)>>, <<Rq(k1, 1, Durable)>>}
MCDeletes == {<<Rq(k1, 1, Once)>>, <<Rq(k1, NoETag, Once)>>}
MCMultis == {<<[op |-> "upsert", key |-> k1], [op |-> "delete", key |-> k1]>>,
             <<[op |-> "other", key |-> k1], [op |-> "upsert", key |-> k1]>>}

\* Lists of requests over two keys, and requests the store turns away.
BulkSets ==
  {<<Rq(k1, 1, Twice), Rq(k2, NoETag, Once)>>,
   <<Rq(k2, BadETag, Twice), Rq(k1, NoETag, Once)>>,
   <<Rq(k1, NoETag, Durable), Rq(k2, 0, Opt("", "", Bogus, 1))>>,
   <<Rq(k1, 0, Opt(Bogus, "", "", 0))>>}
BulkDeletes ==
  {<<Rq(k1, BadETag, Once), Rq(k2, 1, Twice)>>,
   <<Rq(k2, NoETag, Opt("", Bogus, "", 0))>>}
BulkMultis == {<<[op |-> "upsert", key |-> k1], [op |-> "delete", key |-> k2]>>}

AllSets == MCSets \cup BulkSets
AllDeletes == MCDeletes \cup BulkDeletes
AllMultis == MCMultis \cup BulkMultis
=============================================================================
