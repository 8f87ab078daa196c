---------------------------- MODULE PlainStores -----------------------------
(***************************************************************************)
(* The state stores that send one command for each request: etcd, Consul,  *)
(* Memcached, Firestore, Cosmos DB and Cassandra, under src/state.  They   *)
(* have the same shape, a bulk method being a loop over the single one     *)
(* that stops at the first error, and differ in what they check, what they *)
(* retry, what they tell the server and what it takes for an error.        *)
(*                                                                         *)
(* When the connection fails while a command is outstanding the caller     *)
(* sees an error, and the command is an orphan the server may still        *)
(* perform.  The data a call writes is the call itself.  Replication       *)
(* behind a server, and eviction by Memcached, are left out.               *)
(***************************************************************************)
EXTENDS Integers, Sequences, Retry, StoreCalls

CONSTANTS
  Stores,        \* the stores looked at
  SetLists,      \* the requests of Set and BulkSet calls
  DeleteLists    \* the requests of Delete and BulkDelete calls

Requests == [key : Keys, etag : ETags, options : Options]

AllStores == {"etcd", "consul", "memcached", "firestore", "cosmosdb", "cassandra"}

ASSUME ConstantsAssumption ==
  /\ Stores \subseteq AllStores
  /\ SetLists \subseteq Seq(Requests)
  /\ DeleteLists \subseteq Seq(Requests)

VARIABLES
  which,     \* the store
  db,        \* what each key holds, and its tag
  clock,     \* the last tag Cosmos DB has handed out
  pc,        \* where each call is
  kind,      \* the method of each call
  reqs,      \* its requests
  idx,       \* the request it is at
  att,       \* failed attempts at that request
  orphans,   \* commands whose connection failed before the reply
  \* What follows is history, read by the properties only.
  wins,      \* accepted commands that named the tag of a key
  effects,   \* <<call, request>> pairs that have been performed
  faulted    \* calls that met a connection failure

callVars == <<pc, kind, reqs, idx, att>>
serverVars == <<db, clock, orphans, wins, effects>>
vars == <<which, db, clock, pc, kind, reqs, idx, att, orphans, wins, effects, faulted>>

Held == [data : Calls \cup {Foreign}, tag : Nat]
Commands == [call : Calls, nr : Nat, att : Nat, op : {"set", "delete"}, key : Keys, etag : ETags]

Init ==
  /\ which \in Stores
  /\ db \in [Keys -> {Nothing, [data |-> Foreign, tag |-> 1]}]
  /\ clock = 1
  /\ pc = [c \in Calls |-> "idle"]
  /\ kind = [c \in Calls |-> "none"]
  /\ reqs = [c \in Calls |-> <<>>]
  /\ idx = [c \in Calls |-> 1]
  /\ att = [c \in Calls |-> 0]
  /\ orphans = {} /\ wins = {} /\ effects = {} /\ faulted = {}

-----------------------------------------------------------------------------
\* What tells the stores apart: the methods that check the options of a request,
\* the methods that run under the retry loop, whether the ETag is sent to the
\* server, whether deleting a missing key is an error, and whether the server
\* understands the statements.

EtcdProfile ==
  [checks |-> {}, retries |-> {}, ifMatch |-> FALSE, strictDelete |-> FALSE, valid |-> TRUE]

ConsulProfile ==
  [checks |-> {}, retries |-> {}, ifMatch |-> FALSE, strictDelete |-> FALSE, valid |-> TRUE]

\* The client returns ErrCacheMiss for a key that cannot be deleted.
MemcachedProfile ==
  [checks |-> {}, retries |-> {"set"}, ifMatch |-> FALSE, strictDelete |-> TRUE, valid |-> TRUE]

FirestoreProfile ==
  [checks |-> {"set"}, retries |-> {"set", "delete"}, ifMatch |-> FALSE,
   strictDelete |-> FALSE, valid |-> TRUE]

CosmosProfile ==
  [checks |-> {"set", "delete"}, retries |-> {}, ifMatch |-> TRUE,
   strictDelete |-> TRUE, valid |-> TRUE]

\* CQL takes no bind marker for the name of a table, which every statement of
\* the store has.
CassandraProfile ==
  [checks |-> {}, retries |-> {}, ifMatch |-> FALSE, strictDelete |-> FALSE, valid |-> FALSE]

Profile ==
  [etcd |-> EtcdProfile, consul |-> ConsulProfile, memcached |-> MemcachedProfile,
   firestore |-> FirestoreProfile, cosmosdb |-> CosmosProfile,
   cassandra |-> CassandraProfile][which]

Request(c) == reqs[c][idx[c]]

Checks(c) == kind[c] \in Profile.checks

RetriesOn(c) == kind[c] \in Profile.retries

\* The servers.

Missing(m) == db[m.key] = Nothing

IfMatch(m) == Profile.ifMatch /\ m.etag # NoETag

DeletesNothing(m) == m.op = "delete" /\ Missing(m) /\ Profile.strictDelete

\* Mutant: the ETag is not sent.
CanAcceptAnyTag(m) == Profile.valid /\ ~DeletesNothing(m)

CanAccept(m) ==
  /\ Profile.valid
  /\ ~DeletesNothing(m)
  /\ IfMatch(m) /\ ~Missing(m) => db[m.key].tag = m.etag

\* Whether Cosmos DB creates a document for an upsert with an ETag is left open.
CanRefuse(m) == ~CanAccept(m) \/ (IfMatch(m) /\ Missing(m))

\* A tag of Cosmos DB is never used again; the version of etcd is counted for
\* each key, and from 1 again when it is created anew.
NextTag(m) ==
  IF which = "cosmosdb" THEN clock + 1 ELSE IF Missing(m) THEN 1 ELSE db[m.key].tag + 1

Perform(m) ==
  /\ CanAccept(m)
  /\ db' = [db EXCEPT ![m.key] =
              IF m.op = "set" THEN [data |-> m.call, tag |-> NextTag(m)] ELSE Nothing]
  /\ clock' = IF m.op = "set" /\ which = "cosmosdb" THEN clock + 1 ELSE clock
  /\ wins' = IF IfMatch(m) /\ ~Missing(m)
             THEN wins \cup {[key |-> m.key, tag |-> m.etag, command |-> <<m.call, m.nr, m.att>>]}
             ELSE wins
  /\ effects' = effects \cup {<<m.call, m.nr>>}
-----------------------------------------------------------------------------
\* The control of a call.

Start(c, method, lists) ==
  /\ pc[c] = "idle"
  /\ kind' = [kind EXCEPT ![c] = method]
  /\ \E list \in lists : reqs' = [reqs EXCEPT ![c] = list]
  /\ pc' = [pc EXCEPT ![c] = "next"]
  /\ UNCHANGED <<which, serverVars, idx, att, faulted>>

CallSet(c) == Start(c, "set", SetLists)

CallDelete(c) == Start(c, "delete", DeleteLists)

\* The loop over the requests, and the switch on the retry pattern.
NextRequest(c) ==
  /\ pc[c] = "next"
  /\ pc' = [pc EXCEPT ![c] =
       IF idx[c] > Len(reqs[c]) THEN "ok"
       ELSE IF RetriesOn(c) /\ ~KnownPattern(Request(c).options) THEN "err"
       ELSE "attempt"]
  /\ att' = [att EXCEPT ![c] = 0]
  /\ UNCHANGED <<which, serverVars, kind, reqs, idx, faulted>>

Command(c) ==
  [call |-> c, nr |-> idx[c], att |-> att[c], op |-> kind[c],
   key |-> Request(c).key, etag |-> Request(c).etag]

\* Mutant: a bulk method goes on after an error.
AttemptFailedGoesOn(c) ==
  /\ pc' = [pc EXCEPT ![c] = "next"]
  /\ idx' = [idx EXCEPT ![c] = @ + 1]
  /\ UNCHANGED <<kind, reqs, att>>

\* Mutant: the loop counter is not moved.
AttemptNotCounted(c) ==
  /\ pc' = [pc EXCEPT ![c] =
       IF RetriesOn(c) /\ Retries(Request(c).options) THEN "sleep" ELSE "err"]
  /\ UNCHANGED <<kind, reqs, idx, att>>

AttemptFailed(c) ==
  /\ IF RetriesOn(c) /\ Retries(Request(c).options)
     THEN pc' = [pc EXCEPT ![c] = "sleep"] /\ att' = [att EXCEPT ![c] = @ + 1]
     ELSE pc' = [pc EXCEPT ![c] = "err"] /\ UNCHANGED att
  /\ UNCHANGED <<kind, reqs, idx>>

OptionsOK(c) == Checks(c) => CheckRequestOptions(Request(c).options)

\* Firestore checks the options in every attempt, Cosmos DB in its only one.
RejectOptions(c) ==
  /\ pc[c] = "attempt" /\ ~OptionsOK(c)
  /\ AttemptFailed(c)
  /\ UNCHANGED <<which, serverVars, faulted>>

Performed(c) ==
  /\ pc[c] = "attempt" /\ OptionsOK(c)
  /\ Perform(Command(c))
  /\ pc' = [pc EXCEPT ![c] = "next"]
  /\ idx' = [idx EXCEPT ![c] = @ + 1]
  /\ UNCHANGED <<which, kind, reqs, att, orphans, faulted>>

Refused(c) ==
  /\ pc[c] = "attempt" /\ OptionsOK(c)
  /\ CanRefuse(Command(c))
  /\ AttemptFailed(c)
  /\ UNCHANGED <<which, serverVars, faulted>>

Lost(c) ==
  /\ pc[c] = "attempt" /\ OptionsOK(c)
  /\ orphans' = orphans \cup {Command(c)}
  /\ faulted' = faulted \cup {c}
  /\ AttemptFailed(c)
  /\ UNCHANGED <<which, db, clock, wins, effects>>

\* Mutant: one attempt too many.
WakeOnceMore(c) ==
  /\ pc[c] = "sleep"
  /\ pc' = [pc EXCEPT ![c] =
              IF att[c] <= Request(c).options.threshold THEN "attempt" ELSE "err"]
  /\ UNCHANGED <<which, serverVars, kind, reqs, idx, att, faulted>>

Wake(c) ==
  /\ pc[c] = "sleep"
  /\ pc' = [pc EXCEPT ![c] =
              IF MoreAttempts(Request(c).options, att[c]) THEN "attempt" ELSE "err"]
  /\ UNCHANGED <<which, serverVars, kind, reqs, idx, att, faulted>>

\* Get sends one command; a missing key is no error for any of these stores.
Get(c) ==
  /\ pc[c] = "idle"
  /\ kind' = [kind EXCEPT ![c] = "get"]
  /\ \E r \in Returned :
       /\ ~Profile.valid => r = "err"
       /\ pc' = [pc EXCEPT ![c] = r]
  /\ UNCHANGED <<which, serverVars, reqs, idx, att, faulted>>

OrphanPerformed(m) ==
  /\ m \in orphans
  /\ orphans' = orphans \ {m}
  /\ Perform(m)
  /\ UNCHANGED <<which, callVars, faulted>>

-----------------------------------------------------------------------------
Step(c) ==
  \/ NextRequest(c) \/ RejectOptions(c) \/ Performed(c) \/ Refused(c) \/ Lost(c) \/ Wake(c)

Finished == (\A c \in Calls : pc[c] \in Returned) /\ UNCHANGED vars

Next ==
  \/ \E c \in Calls : CallSet(c) \/ CallDelete(c) \/ Get(c) \/ Step(c)
  \/ \E m \in orphans : OrphanPerformed(m)
  \/ Finished

Spec == Init /\ [][Next]_vars

\* The Go scheduler runs every goroutine; a command is answered or its
\* connection fails; a sleep ends.
FairSpec == Spec /\ \A c \in Calls : WF_vars(Step(c))

-----------------------------------------------------------------------------
\* Properties.

\* Every variable has its type; attempts stay within the threshold.
TypeOK ==
  /\ which \in Stores
  /\ db \in [Keys -> Held \cup {Nothing}]
  /\ clock \in Nat
  /\ pc \in [Calls -> {"idle", "next", "attempt", "sleep"} \cup Returned]
  /\ kind \in [Calls -> {"none", "set", "delete", "get"}]
  /\ reqs \in [Calls -> Seq(Requests)]
  /\ idx \in [Calls -> Nat]
  /\ att \in [Calls -> Nat]
  /\ \A c \in Calls : pc[c] = "attempt" /\ att[c] > 0 => att[c] < Request(c).options.threshold
  /\ orphans \subseteq Commands
  /\ wins \subseteq [key : Keys, tag : Int, command : Calls \X Nat \X Nat]
  /\ effects \subseteq Calls \X Nat
  /\ faulted \subseteq Calls

Done(c) == {i \in DOMAIN reqs[c] : <<c, i>> \in effects}

\* A Set, Delete, BulkSet or BulkDelete that returns nil has performed each of
\* its requests, whatever its retries went through.
SuccessIsReal ==
  \A c \in Calls : pc[c] = "ok" /\ kind[c] # "get" => Done(c) = DOMAIN reqs[c]

\* A bulk method takes effect on a prefix of its list: on all requests before
\* the one it is at, and on none behind it, also through orphans.
BulkIsAPrefix ==
  \A c \in Calls :
    pc[c] # "idle" /\ kind[c] # "get" => 1 .. idx[c] - 1 \subseteq Done(c) /\ Done(c) \subseteq 1 .. idx[c]

\* Only a connection failure can make a call fail on a request that has been
\* performed.
CleanErrorHasNoEffect ==
  \A c \in Calls : pc[c] = "err" /\ c \notin faulted => idx[c] \notin Done(c)

\* What a caller may conclude from the answer of a call, over retries, lost
\* replies and orphans: nil means all was done, an error without a connection
\* failure that the request it stopped at was not, and a bulk call that stops
\* has done all the requests before that one and none behind it.
AnswersAreTrue == SuccessIsReal /\ CleanErrorHasNoEffect /\ BulkIsAPrefix

\* First write wins in Cosmos DB: of all commands that name the same tag of a
\* key, orphans included, at most one is performed.
FirstWriteWins ==
  \A w1, w2 \in wins : w1.key = w2.key /\ w1.tag = w2.tag => w1 = w2

\* Every call returns: no retry loop runs for ever.
EveryCallReturns == \A c \in Calls : pc[c] # "idle" ~> pc[c] \in Returned
=============================================================================
