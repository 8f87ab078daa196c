-------------------------- MODULE MCZookeeperState --------------------------
(* ZookeeperState for TLC: which calls are made, and with which requests.  *)
EXTENDS ZookeeperState, TLC

CONSTANTS k1, k2

Opt(conc, cons, pat, n) ==
  [concurrency |-> conc, consistency |-> cons, pattern |-> pat, threshold |-> n]

Rq(k, e, o) == [key |-> k, etag |-> e, options |-> o]

Once  == Opt(FirstWrite, "", "", 0)
Twice == Opt("", Strong, Exponential, 2)
Blind == Opt(LastWrite, "", Linear, -1)

\* Conditional and unconditional writers that meet on k1.
MCSets == {Rq(k1, 1, Twice), Rq(k1, 0, Blind), Rq(k1, BadETag, Once)}
MCDeletes == {Rq(k1, 1, Once), Rq(k1, NoETag, Once)}
MCBulkSets == {<<Rq(k1, 1, Once), Rq(k2, NoETag, Twice)>>}
MCBulkDeletes == {<<Rq(k2, 0, Once), Rq(k1, 1, Once)>>}

\* Transactions that write the same key twice: the second write finds the version
\* the first one leaves.
Again == {<<Rq(k1, 0, Once), Rq(k1, 1, Once)>>, <<Rq(k1, 1, Once), Rq(k1, 1, Once)>>}

\* Requests that retry, and requests the store turns away.
AllSets == MCSets \cup {Rq(k1, 1, Opt(Bogus, "", "", 0)), Rq(k1, 0, Opt(LastWrite, "", "", 2))}
AllDeletes == MCDeletes \cup {Rq(k1, 1, Opt("", "", Bogus, 0)), Rq(k1, 1, Twice)}
AllBulkSets ==
  MCBulkSets \cup {<<Rq(k1, 0, Once), Rq(k2, 1, Opt("", Bogus, "", 0))>>} \cup Again
AllBulkDeletes == MCBulkDeletes \cup {<<>>, <<Rq(k1, 0, Once), Rq(k1, NoETag, Once)>>}

\* Requests without a condition.
BlindSets == {Rq(k1, NoETag, Opt(LastWrite, "", "", 0))}
BlindDeletes == BlindSets
BlindBulks == {<<Rq(k1, NoETag, Once), Rq(k2, NoETag, Once)>>}
=============================================================================
