------------------------------ MODULE MCStores ------------------------------
(***************************************************************************)
(* Model checking of the stores without a key's version in their requests: *)
(* the six of PlainStores and MongoDB.  A behaviour is one of one of them, *)
(* so that the instance is the sum of the two modules and not their        *)
(* product.                                                                *)
(***************************************************************************)
EXTENDS PlainStores, MCMongoState

Opt(conc, cons, pat, n) ==
  [concurrency |-> conc, consistency |-> cons, pattern |-> pat, threshold |-> n]

Rq(k, e, o) == [key |-> k, etag |-> e, options |-> o]

Once  == Opt(FirstWrite, "", "", 0)
Twice == Opt("", Strong, Exponential, 2)

\* Conditional writers of one key, and lists with requests some stores turn away.
MCSets ==
  {<<Rq(k1, 1, Once)>>,
   <<Rq(k1, 1, Twice), Rq(k2, NoETag, Once)>>,
   <<Rq(k2, 2, Opt(LastWrite, Eventual, Linear, 2)), Rq(k1, 0, Opt("", "", Bogus, 1))>>,
   <<Rq(k1, NoETag, Opt(Bogus, "", "", 2))>>}
MCDeletes ==
  {<<Rq(k1, 1, Twice)>>,
   <<Rq(k2, NoETag, Once), Rq(k1, BadETag, Once)>>}

VARIABLE mongo   \* is this a behaviour of MongoDB?

storesVars == <<mongo, vars, mongoVars>>

\* What is not used is empty.
StoresInit ==
  /\ mongo \in BOOLEAN
  /\ Init /\ MongoInit
  /\ mongo => which = "etcd" /\ \A k \in Keys : db[k] = Nothing
  /\ ~mongo => \A k \in Keys : docs[k] = Nothing

PlainAlone == ~mongo /\ UNCHANGED <<mongo, mongoVars>>

MongoAlone == mongo /\ UNCHANGED <<mongo, vars>>

StoresNext ==
  \/ Next /\ PlainAlone
  \/ MongoNext /\ MongoAlone

\* The fairness of FairSpec and of MongoFairSpec.
StoresFairSpec ==
  /\ StoresInit /\ [][StoresNext]_storesVars
  /\ \A c \in Calls :
       /\ WF_storesVars(Step(c) /\ PlainAlone)
       /\ WF_storesVars(MongoStep(c) /\ MongoAlone) /\ WF_storesVars(TimerFires(c) /\ MongoAlone)
=============================================================================
