--------------------------- MODULE ZookeeperState ---------------------------
(***************************************************************************)
(* The ZooKeeper state store (src/state/zookeeper/zk.go), used by any      *)
(* number of concurrent calls.                                             *)
(*                                                                         *)
(* Set and Delete send one command at a time and retry; a Set that finds   *)
(* no node goes on to create it.  BulkSet and BulkDelete send one          *)
(* transaction.  A command is a list of operations the server performs     *)
(* together or not at all, of length one outside a transaction.  When the  *)
(* connection fails while a command is outstanding the caller sees an      *)
(* error, and the command is an orphan the server may still perform.       *)
(*                                                                         *)
(* The data a call writes is the call itself.  A numeric ETag is taken to  *)
(* fit an int32, as every version ZooKeeper hands out does; the node of    *)
(* the key prefix exists, and no key is a path below another one.          *)
(***************************************************************************)
EXTENDS Integers, Sequences, FiniteSets, Retry

CONSTANTS
  Calls,              \* calls of the store's methods
  Keys,               \* keys
  Foreign,            \* data that was in the tree before
  InitialVersions,    \* versions of nodes that exist at the start
  SetRequests,        \* the requests of Set calls
  DeleteRequests,     \* the requests of Delete calls
  BulkSetRequests,    \* the request lists of BulkSet calls
  BulkDeleteRequests  \* the request lists of BulkDelete calls

Values == Calls \cup {Foreign}

anyVersion == -1

NoNode == [node |-> FALSE]
Node(v, n) == [node |-> TRUE, data |-> v, version |-> n]
Nodes == {NoNode} \cup [node : {TRUE}, data : Values, version : Nat]

Requests == [key : Keys, etag : ETags, options : Options]

ASSUME ConstantsAssumption ==
  /\ InitialVersions \subseteq Nat
  /\ SetRequests \subseteq Requests
  /\ DeleteRequests \subseteq Requests
  /\ BulkSetRequests \subseteq Seq(Requests)
  /\ BulkDeleteRequests \subseteq Seq(Requests)

VARIABLES
  skipACL,   \* is the server told not to look at access control lists?
  tree,      \* the nodes
  pc,        \* where each call is
  kind,      \* the method of each call
  reqs,      \* its requests
  ops,       \* the operations it sends
  att,       \* failed attempts
  err,       \* the last error the client library returned to it
  orphans,   \* commands whose connection failed before the reply
  \* What follows is history, read by the properties only.
  era,       \* per key: nodes deleted
  wins,      \* performed requests that named the version of a node
  effects,   \* <<call, request>> pairs that have been performed
  faulted    \* calls that met a connection failure

callVars == <<pc, kind, reqs, ops, att, err>>
vars == <<skipACL, tree, pc, kind, reqs, ops, att, err, orphans, era, wins, effects, faulted>>

Operations ==
  [op : {"set", "create", "delete"}, key : Keys, version : Nat \cup {anyVersion}]

Commands == [call : Calls, att : Nat, ops : Seq(Operations)]

-----------------------------------------------------------------------------
\* The server.

On(m, k) == {i \in DOMAIN m.ops : m.ops[i].key = k}

\* The operations of command m on the same key that are performed before the i-th.
Before(m, i) == {j \in On(m, m.ops[i].key) : j < i}

\* The error of the i-th operation of command m once those before it have been
\* performed.  A create carries no access control list, which a server that
\* looks at them refuses.
OpError(m, i) ==
  LET o == m.ops[i]
      n == tree[o.key]
  IN  IF o.op = "create"
      THEN IF ~skipACL THEN "InvalidACL" ELSE IF n.node THEN "NodeExists" ELSE "nil"
      ELSE IF ~n.node \/ (o.op = "delete" /\ Before(m, i) # {}) THEN "NoNode"
      ELSE IF o.version \in {anyVersion, n.version + Cardinality(Before(m, i))} THEN "nil"
      ELSE "BadVersion"

Succeeds(m) == \A i \in DOMAIN m.ops : OpError(m, i) = "nil"

\* Conn.Multi of the client library returns the first error of the operations
\* of a transaction as its own error.
FirstError(m) ==
  LET i == CHOOSE j \in DOMAIN m.ops :
             /\ OpError(m, j) # "nil"
             /\ \A n \in 1 .. j - 1 : OpError(m, n) = "nil"
  IN  OpError(m, i)

\* What the operations of m leave of the node of k: those of a command that
\* reaches the same key several times are all sets.
After(m, k) ==
  LET o == m.ops[CHOOSE i \in On(m, k) : TRUE]
  IN  CASE o.op = "delete" -> NoNode
        [] o.op = "create" -> Node(m.call, 0)
        [] o.op = "set"    -> Node(m.call, tree[k].version + Cardinality(On(m, k)))

\* Does the caller ask for a version of the node?
NamesVersion(q) == q.options.concurrency # LastWrite /\ q.etag \in Nat

\* The performed requests that did, as the caller stated them.
Won(m) ==
  {[key |-> reqs[m.call][i].key, era |-> era[reqs[m.call][i].key],
    version |-> reqs[m.call][i].etag, command |-> <<m.call, i, m.att>>] :
      i \in {j \in DOMAIN m.ops : m.ops[j].op # "create" /\ NamesVersion(reqs[m.call][j])}}

Perform(m) ==
  /\ Succeeds(m)
  /\ tree' = [k \in Keys |-> IF On(m, k) = {} THEN tree[k] ELSE After(m, k)]
  /\ era' = [k \in Keys |-> IF \E i \in On(m, k) : m.ops[i].op = "delete"
                            THEN era[k] + 1 ELSE era[k]]
  /\ wins' = wins \cup Won(m)
  /\ effects' = effects \cup {<<m.call, i>> : i \in DOMAIN m.ops}

-----------------------------------------------------------------------------
\* The control of a call.

Returned == {"ok", "err"}

ServerQuiet == UNCHANGED <<skipACL, tree, orphans, era, wins, effects, faulted>>

Goto(c, at) ==
  /\ pc' = [pc EXCEPT ![c] = at]
  /\ UNCHANGED <<kind, reqs, att>>

\* Mutant: the loop counter is not moved.
AttemptNotCounted(c, e) ==
  /\ err' = [err EXCEPT ![c] = e]
  /\ pc' = [pc EXCEPT ![c] = IF Retries(reqs[c][1].options) THEN "sleep" ELSE "err"]
  /\ UNCHANGED <<kind, reqs, ops, att>>

\* The method returned error e: pause, or give up with that error.
AttemptFailed(c, e) ==
  /\ err' = [err EXCEPT ![c] = e]
  /\ IF Retries(reqs[c][1].options)
     THEN /\ pc' = [pc EXCEPT ![c] = "sleep"]
          /\ att' = [att EXCEPT ![c] = @ + 1]
     ELSE pc' = [pc EXCEPT ![c] = "err"] /\ UNCHANGED att
  /\ UNCHANGED <<kind, reqs, ops>>

\* The command call c has outstanding.
Command(c) == [call |-> c, att |-> att[c], ops |-> ops[c]]

\* The connection fails while it is.
Lose(c) ==
  /\ orphans' = orphans \cup {Command(c)}
  /\ faulted' = faulted \cup {c}
  /\ UNCHANGED <<skipACL, tree, era, wins, effects>>

parseETag(e) == IF e \in Nat THEN e ELSE anyVersion

\* Mutant: only an explicit first-write makes an operation conditional.
OperationIfFirstWrite(op, r) ==
  [op |-> op, key |-> r.key,
   version |-> IF r.options.concurrency = FirstWrite THEN parseETag(r.etag)
               ELSE anyVersion]

\* newSetDataRequest and newDeleteRequest.
Operation(op, r) ==
  [op |-> op, key |-> r.key,
   version |-> IF r.options.concurrency = LastWrite THEN anyVersion
               ELSE parseETag(r.etag)]

\* A call begins: it prepares its operations, and stops at options it does not
\* know and at a value it cannot encode before it sends anything.
Begin(c, method, op, list, good) ==
  /\ pc[c] = "idle"
  /\ kind' = [kind EXCEPT ![c] = method]
  /\ reqs' = [reqs EXCEPT ![c] = list]
  /\ ops' = [ops EXCEPT ![c] = [i \in DOMAIN list |-> Operation(op, list[i])]]
  /\ pc' = [pc EXCEPT ![c] = IF good THEN method ELSE "err"]
  /\ err' = [err EXCEPT ![c] = IF good THEN "nil" ELSE "request"]
  /\ UNCHANGED att
  /\ ServerQuiet
-----------------------------------------------------------------------------
\* Set and Delete.

CallSet(c) ==
  \E r \in SetRequests, encoded \in BOOLEAN :
    Begin(c, "set", "set", <<r>>,
          CheckRequestOptions(r.options) /\ encoded /\ KnownPattern(r.options))

CallDelete(c) ==
  \E r \in DeleteRequests :
    Begin(c, "delete", "delete", <<r>>, CheckRequestOptions(r.options) /\ KnownPattern(r.options))

\* The operation of an attempt goes through, and the call returns nil.
Done(c) ==
  /\ pc[c] \in {"set", "create", "delete"}
  /\ Perform(Command(c))
  /\ Goto(c, "ok")
  /\ err' = [err EXCEPT ![c] = "nil"]
  /\ UNCHANGED <<skipACL, ops, orphans, faulted>>

\* Mutant: Set ignores a missing node, as Delete does.
SetIgnoresNoNode(c) ==
  /\ pc[c] = "set"
  /\ OpError(Command(c), 1) = "NoNode"
  /\ Goto(c, "ok")
  /\ UNCHANGED <<ops, err>>
  /\ ServerQuiet

\* Set finds no node: it will create one, whatever version it was given.
SetFindsNoNode(c) ==
  /\ pc[c] = "set"
  /\ OpError(Command(c), 1) = "NoNode"
  /\ Goto(c, "create")
  /\ ops' = [ops EXCEPT ![c] = <<[@[1] EXCEPT !.op = "create"]>>]
  /\ err' = [err EXCEPT ![c] = "NoNode"]
  /\ ServerQuiet

\* Delete finds no node, which is as good as deleting it.
DeleteFindsNoNode(c) ==
  /\ pc[c] = "delete"
  /\ OpError(Command(c), 1) = "NoNode"
  /\ Goto(c, "ok")
  /\ effects' = effects \cup {<<c, 1>>}
  /\ UNCHANGED <<skipACL, tree, ops, err, orphans, era, wins, faulted>>

Refused(c) ==
  /\ pc[c] \in {"set", "create", "delete"}
  /\ OpError(Command(c), 1) \in {"BadVersion", "NodeExists", "InvalidACL"}
  /\ AttemptFailed(c, OpError(Command(c), 1))
  /\ ServerQuiet

Lost(c) ==
  /\ pc[c] \in {"set", "create", "delete"}
  /\ AttemptFailed(c, "connection")
  /\ Lose(c)

\* The end of time.Sleep, the loop test, and the next attempt's operation.
Wake(c) ==
  /\ pc[c] = "sleep"
  /\ Goto(c, IF MoreAttempts(reqs[c][1].options, att[c]) THEN kind[c] ELSE "err")
  /\ ops' = [ops EXCEPT ![c] = <<Operation(kind[c], reqs[c][1])>>]
  /\ UNCHANGED err
  /\ ServerQuiet

-----------------------------------------------------------------------------
\* BulkSet and BulkDelete.

AllOptionsOK(list) == \A i \in DOMAIN list : CheckRequestOptions(list[i].options)

CallBulkSet(c) ==
  \E list \in BulkSetRequests :
    \E encoded \in [DOMAIN list -> BOOLEAN] :
      Begin(c, "bulkset", "set", list,
            AllOptionsOK(list) /\ \A i \in DOMAIN list : encoded[i])

CallBulkDelete(c) ==
  \E list \in BulkDeleteRequests : Begin(c, "bulkdelete", "delete", list, AllOptionsOK(list))

\* The transaction goes through: no result carries an error, nothing is left.
MultiDone(c) ==
  /\ pc[c] \in {"bulkset", "bulkdelete"}
  /\ Perform(Command(c))
  /\ Goto(c, "ok")
  /\ UNCHANGED <<skipACL, ops, err, orphans, faulted>>

\* It does not: Conn.Multi returns an error, which ends the call before it
\* looks at the results, where the cases for a missing node are.
MultiRefused(c) ==
  /\ pc[c] \in {"bulkset", "bulkdelete"}
  /\ ~Succeeds(Command(c))
  /\ Goto(c, "err")
  /\ err' = [err EXCEPT ![c] = FirstError(Command(c))]
  /\ UNCHANGED ops
  /\ ServerQuiet

MultiLost(c) ==
  /\ pc[c] \in {"bulkset", "bulkdelete"}
  /\ Goto(c, "err")
  /\ err' = [err EXCEPT ![c] = "connection"]
  /\ Lose(c)
  /\ UNCHANGED ops

-----------------------------------------------------------------------------
\* Get answers with the data and the version of the node, or with an error.
Get(c) ==
  /\ pc[c] = "idle"
  /\ \E k \in Keys :
       /\ pc' = [pc EXCEPT ![c] = IF tree[k].node THEN "ok" ELSE "err"]
       /\ err' = [err EXCEPT ![c] = IF tree[k].node THEN "nil" ELSE "NoNode"]
  /\ kind' = [kind EXCEPT ![c] = "get"]
  /\ UNCHANGED <<reqs, ops, att>>
  /\ ServerQuiet

GetLost(c) ==
  /\ pc[c] = "idle"
  /\ kind' = [kind EXCEPT ![c] = "get"]
  /\ pc' = [pc EXCEPT ![c] = "err"]
  /\ err' = [err EXCEPT ![c] = "connection"]
  /\ UNCHANGED <<reqs, ops, att>>
  /\ ServerQuiet

\* The server gets to a command whose caller has already seen an error.
OrphanPerformed(m) ==
  /\ m \in orphans
  /\ orphans' = orphans \ {m}
  /\ IF Succeeds(m) THEN Perform(m) ELSE UNCHANGED <<tree, era, wins, effects>>
  /\ UNCHANGED <<skipACL, callVars, faulted>>

Init ==
  /\ skipACL \in BOOLEAN
  /\ tree \in [Keys -> {NoNode} \cup {Node(Foreign, n) : n \in InitialVersions}]
  /\ pc = [c \in Calls |-> "idle"]
  /\ kind = [c \in Calls |-> "none"]
  /\ reqs = [c \in Calls |-> <<>>]
  /\ ops = [c \in Calls |-> <<>>]
  /\ att = [c \in Calls |-> 0]
  /\ err = [c \in Calls |-> "nil"]
  /\ orphans = {}
  /\ era = [k \in Keys |-> 0]
  /\ wins = {}
  /\ effects = {}
  /\ faulted = {}

Call(c) ==
  \/ CallSet(c) \/ CallDelete(c) \/ CallBulkSet(c) \/ CallBulkDelete(c)
  \/ Get(c) \/ GetLost(c)

\* One step of the goroutine of a call that has begun.
Step(c) ==
  \/ Done(c) \/ SetFindsNoNode(c) \/ DeleteFindsNoNode(c) \/ Refused(c) \/ Lost(c) \/ Wake(c)
  \/ MultiDone(c) \/ MultiRefused(c) \/ MultiLost(c)

\* Every call has been made and has returned.
Finished == (\A c \in Calls : pc[c] \in Returned) /\ UNCHANGED vars

Next ==
  \/ \E c \in Calls : Call(c) \/ Step(c)
  \/ \E m \in orphans : OrphanPerformed(m)
  \/ Finished

Spec == Init /\ [][Next]_vars

\* The Go scheduler runs every goroutine; a command is answered or its
\* connection fails; a sleep ends.
FairSpec == Spec /\ \A c \in Calls : WF_vars(Step(c))
-----------------------------------------------------------------------------
\* Properties.

\* Every variable has its type; in particular the version of an operation is a
\* version or anyVersion, never the code of an ETag that could not be parsed.
TypeOK ==
  /\ skipACL \in BOOLEAN
  /\ tree \in [Keys -> Nodes]
  /\ pc \in [Calls -> {"idle", "set", "create", "delete", "sleep",
                       "bulkset", "bulkdelete"} \cup Returned]
  /\ kind \in [Calls -> {"none", "set", "delete", "bulkset", "bulkdelete", "get"}]
  /\ reqs \in [Calls -> Seq(Requests)]
  /\ ops \in [Calls -> Seq(Operations)]
  /\ att \in [Calls -> Nat]
  /\ err \in [Calls -> {"nil", "request", "NoNode", "NodeExists", "InvalidACL", "BadVersion",
                        "connection"}]
  /\ orphans \subseteq Commands
  /\ era \in [Keys -> Nat]
  /\ wins \subseteq [key : Keys, era : Nat, version : Nat,
                     command : Calls \X Nat \X Nat]
  /\ effects \subseteq Calls \X Nat
  /\ faulted \subseteq Calls

View(n) == IF n.node THEN [kind |-> "versioned", data |-> n.data, version |-> n.version]
           ELSE [kind |-> "absent"]

VS == INSTANCE VersionedStore
        WITH FirstVersion <- 0, Batch <- Nat \ {0}, store <- [k \in Keys |-> View(tree[k])]

\* The ZooKeeper store implements the versioned store: the two commands of a
\* Set, retries, orphans and transactions, which may reach a key several times,
\* change the tree only in the ways the versioned store allows, and a request
\* whose caller names a version replaces or removes no other version of a node.
ImplementsVersionedStore == VS!Spec

\* First write wins: of all requests of all calls whose callers name the same
\* version of a node, retries and orphans included, at most one is performed in
\* the life of the node.
FirstWriteWins == VS!FirstWriteWins

\* A call that returns nil has been performed, each of its requests.
SuccessIsReal ==
  \A c \in Calls :
    pc[c] = "ok" /\ kind[c] # "get" => \A i \in DOMAIN reqs[c] : <<c, i>> \in effects

\* Only a connection failure can make a call fail after one of its requests has
\* been performed, in a transaction or in the second command of a Set.
CleanErrorHasNoEffect ==
  \A c \in Calls :
    pc[c] = "err" /\ c \notin faulted => \A i \in DOMAIN reqs[c] : <<c, i>> \notin effects

\* What a caller may conclude from the answer of a call, over retries, lost
\* replies and orphans: nil means all was done, and an error without a connection
\* failure that nothing was.
AnswersAreTrue == SuccessIsReal /\ CleanErrorHasNoEffect

\* Every call returns: no retry loop runs for ever.
EveryCallReturns ==
  \A c \in Calls : pc[c] # "idle" ~> pc[c] \in Returned

\* The bulk methods do not fail for keys that are missing: their tests have
\* BulkSet create them and BulkDelete ignore them.
BulkToleratesMissing ==
  \A c \in Calls :
    kind[c] \in {"bulkset", "bulkdelete"} /\ pc[c] = "err" => err[c] # "NoNode"

\* A Set without a condition, last-write or without an ETag, is an upsert: whether
\* the key exists does not make it fail.
SetIsAnUpsert ==
  \A c \in Calls :
    /\ kind[c] = "set" /\ pc[c] = "err"
    /\ reqs[c][1].options.concurrency = LastWrite \/ reqs[c][1].etag = NoETag
    => err[c] \in {"request", "connection"}

\* What the tests and comments say of keys that are missing, as one statement
\* about the store: a behaviour that violates it refutes both halves, the one on
\* the bulk methods, whose transaction fails, and the one on Set, whose create is
\* refused for want of an access control list or loses a race to another one.
MissingKeysAreCreated == BulkToleratesMissing \/ SetIsAnUpsert
=============================================================================
