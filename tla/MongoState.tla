----------------------------- MODULE MongoState -----------------------------
(***************************************************************************)
(* The MongoDB state store (src/state/mongodb/mongodb.go), used by any     *)
(* number of concurrent calls.                                             *)
(*                                                                         *)
(* Multi runs its operations in a transaction through WithTransaction of   *)
(* the client library, which commits and, depending on the error, commits  *)
(* again or runs the operations again.  Multi returns the error of the     *)
(* operations and drops the one WithTransaction returns.                   *)
(*                                                                         *)
(* The server gives each transaction a snapshot, taken by its first        *)
(* operation, and refuses a write of a document that another transaction   *)
(* has written since.  A connection may fail at any command; the locks a   *)
(* lost abort leaves behind until the server drops the transaction show    *)
(* only in errors that any operation may meet anyway.                      *)
(*                                                                         *)
(* The data a call writes is the call itself.                              *)
(***************************************************************************)
EXTENDS Naturals, Sequences, StoreCalls

CONSTANT MultiRequests    \* the operation lists of Multi calls

Operations == [op : {"upsert", "delete", "other"}, key : Keys]

ASSUME MongoAssumption ==
  /\ MultiRequests \subseteq Seq(Operations)
  /\ Nothing \notin Calls /\ Foreign \notin Calls

VARIABLES
  docs,      \* the documents
  phase,     \* where each call is
  meth,      \* the method of each call
  ops,       \* its operations
  opIdx,     \* the operation it is at
  view,      \* the documents as its transaction sees them
  wset,      \* the keys its transaction has written
  stale,     \* the keys others have committed since its snapshot
  applied,   \* has the server committed its transaction?
  expired,   \* has the timer of WithTransaction fired?
  commits    \* history: how often the operations of a call were committed

mongoVars ==
  <<docs, phase, meth, ops, opIdx, view, wset, stale, applied, expired, commits>>

Documents == [Keys -> Calls \cup {Nothing, Foreign}]
Methods == {"set", "bulkset", "delete", "bulkdelete", "get"}

MongoInit ==
  /\ docs \in [Keys -> {Nothing, Foreign}]
  /\ phase = [c \in Calls |-> "idle"]
  /\ meth = [c \in Calls |-> "none"]
  /\ ops = [c \in Calls |-> <<>>]
  /\ opIdx = [c \in Calls |-> 1]
  /\ view = [c \in Calls |-> docs]
  /\ wset = [c \in Calls |-> {}]
  /\ stale = [c \in Calls |-> {}]
  /\ applied = [c \in Calls |-> FALSE]
  /\ expired = [c \in Calls |-> FALSE]
  /\ commits = [c \in Calls |-> 0]

-----------------------------------------------------------------------------
\* Set, Get, Delete, BulkSet and BulkDelete give each command a context that
\* expires after operationTimeout, which Init never sets.  The client library
\* sends nothing on an expired context, so the first command fails.  A bulk
\* method with nothing to do has no command.

CallPlain(c) ==
  /\ phase[c] = "idle"
  /\ \E method \in Methods :
       /\ meth' = [meth EXCEPT ![c] = method]
       /\ \/ phase' = [phase EXCEPT ![c] = "err"]
          \/ /\ method \in {"bulkset", "bulkdelete"}
             /\ phase' = [phase EXCEPT ![c] = "ok"]
  /\ UNCHANGED <<docs, ops, opIdx, view, wset, stale, applied, expired, commits>>

-----------------------------------------------------------------------------
\* Multi, and the operations of its transaction: doTransaction.

CallMulti(c) ==
  /\ phase[c] = "idle"
  /\ meth' = [meth EXCEPT ![c] = "multi"]
  /\ \E list \in MultiRequests :
       /\ ops' = [ops EXCEPT ![c] = list]
       /\ phase' = [phase EXCEPT ![c] = IF list = <<>> THEN "commit" ELSE "operate"]
  /\ UNCHANGED <<docs, opIdx, view, wset, stale, applied, expired, commits>>

\* The client is not connected, or has no random number for a new session: the
\* session is nil, and deferring its EndSession panics before the error is looked
\* at.
StartSessionFails(c) ==
  /\ phase[c] = "idle"
  /\ meth' = [meth EXCEPT ![c] = "multi"]
  /\ phase' = [phase EXCEPT ![c] = "panicked"]
  /\ UNCHANGED <<docs, ops, opIdx, view, wset, stale, applied, expired, commits>>

\* An operation of another kind is passed over without a command.
Sends(o) == o.op \in {"upsert", "delete"}

\* Has the transaction sent a command?  Until then the server knows nothing of it.
Sent(c) == \E i \in 1 .. opIdx[c] - 1 : Sends(ops[c][i])

View(c) == IF Sent(c) THEN view[c] ELSE docs

Stale(c) == IF Sent(c) THEN stale[c] ELSE {}

\* An upsert writes, and so does the delete of a document that is there.
Writes(c, o) == o.op = "upsert" \/ (o.op = "delete" /\ View(c)[o.key] # Nothing)

Open(c) == phase[c] \in {"operate", "commit"} /\ ~applied[c]

Conflict(c, k) ==
  \/ k \in Stale(c)
  \/ \E d \in Calls \ {c} : Open(d) /\ k \in wset[d]

Operate(c) ==
  /\ phase[c] = "operate"
  /\ LET o == ops[c][opIdx[c]]
     IN IF Writes(c, o)
        THEN /\ ~Conflict(c, o.key)
             /\ wset' = [wset EXCEPT ![c] = @ \cup {o.key}]
             /\ view' = [view EXCEPT ![c] =
                  [View(c) EXCEPT ![o.key] = IF o.op = "upsert" THEN c ELSE Nothing]]
        ELSE view' = [view EXCEPT ![c] = View(c)] /\ UNCHANGED wset
  /\ stale' = [stale EXCEPT ![c] = Stale(c)]
  /\ opIdx' = [opIdx EXCEPT ![c] = @ + 1]
  /\ phase' = [phase EXCEPT ![c] = IF opIdx[c] = Len(ops[c]) THEN "commit" ELSE @]
  /\ UNCHANGED <<docs, meth, ops, applied, expired, commits>>

\* An operation meets a conflict or loses its connection: the transaction is
\* aborted and the wrapped error, which WithTransaction does not take for a
\* transient one, is returned.
OperateFails(c) ==
  /\ phase[c] = "operate" /\ Sends(ops[c][opIdx[c]])
  /\ phase' = [phase EXCEPT ![c] = "err"]
  /\ UNCHANGED <<docs, meth, ops, opIdx, view, wset, stale, applied, expired, commits>>
-----------------------------------------------------------------------------
\* The end of WithTransaction.  The timer fires some time after it was started.

TimerFires(c) ==
  /\ phase[c] \in {"operate", "commit"} /\ ~expired[c]
  /\ expired' = [expired EXCEPT ![c] = TRUE]
  /\ UNCHANGED <<docs, phase, meth, ops, opIdx, view, wset, stale, applied, commits>>

\* The server commits the transaction of c, unless it already has.
Apply(c) ==
  /\ applied' = [applied EXCEPT ![c] = TRUE]
  /\ IF applied[c] THEN UNCHANGED <<docs, stale, commits>>
     ELSE /\ docs' = [k \in Keys |-> IF k \in wset[c] THEN view[c][k] ELSE docs[k]]
          /\ stale' = [d \in Calls |-> stale[d] \cup wset[c]]
          /\ commits' = [commits EXCEPT ![c] = @ + 1]

Return(c, result) ==
  /\ phase' = [phase EXCEPT ![c] = result]
  /\ UNCHANGED <<meth, ops, opIdx, view, wset, expired>>

\* Mutant: only the commit is repeated, in a transaction without operations.
RunAgainCommits(c) ==
  /\ opIdx' = [opIdx EXCEPT ![c] = 1]
  /\ wset' = [wset EXCEPT ![c] = {}]
  /\ UNCHANGED <<phase, meth, ops, view, expired>>

\* The transaction is started and its operations are run from the first one.
RunAgain(c) ==
  /\ phase' = [phase EXCEPT ![c] = "operate"]
  /\ opIdx' = [opIdx EXCEPT ![c] = 1]
  /\ wset' = [wset EXCEPT ![c] = {}]
  /\ UNCHANGED <<meth, ops, view, expired>>

\* A transaction that has sent nothing is not committed: CommitTransaction returns
\* nil and sends nothing either.
CommitNothing(c) ==
  /\ phase[c] = "commit" /\ ~Sent(c)
  /\ Return(c, "ok")
  /\ UNCHANGED <<docs, stale, applied, commits>>

Commit(c) ==
  /\ phase[c] = "commit" /\ Sent(c)
  /\ Apply(c)
  /\ Return(c, "ok")

\* Mutant: a commit whose result is unknown is taken for a transient error.
CommitUnknownRunsAgain(c) ==
  /\ phase[c] = "commit" /\ Sent(c)
  /\ docs' = [k \in Keys |-> IF k \in wset[c] THEN view[c][k] ELSE docs[k]]
  /\ stale' = [d \in Calls |-> stale[d] \cup wset[c]]
  /\ commits' = [commits EXCEPT ![c] = @ + 1]
  /\ IF expired[c] THEN Return(c, "ok") ELSE RunAgain(c)
  /\ UNCHANGED applied

\* The result of the commit is unknown: it is sent again, until the timer has
\* fired and WithTransaction returns the error that Multi drops.
CommitUnknown(c) ==
  /\ phase[c] = "commit" /\ Sent(c)
  /\ Apply(c) \/ UNCHANGED <<docs, stale, applied, commits>>
  /\ Return(c, IF expired[c] THEN "ok" ELSE "commit")

\* Mutant: the timer is not looked at.
CommitTransientUntimed(c) ==
  /\ phase[c] = "commit" /\ Sent(c) /\ ~applied[c]
  /\ RunAgain(c)
  /\ UNCHANGED <<docs, stale, applied, commits>>

\* The transaction was not committed and may be tried again as a whole.
CommitTransient(c) ==
  /\ phase[c] = "commit" /\ Sent(c) /\ ~applied[c]
  /\ IF expired[c] THEN Return(c, "ok") ELSE RunAgain(c)
  /\ UNCHANGED <<docs, stale, applied, commits>>

\* The transaction was not committed and is not tried again.
CommitRejected(c) ==
  /\ phase[c] = "commit" /\ Sent(c) /\ ~applied[c]
  /\ Return(c, "ok")
  /\ UNCHANGED <<docs, stale, applied, commits>>

-----------------------------------------------------------------------------
MongoStep(c) ==
  \/ Operate(c) \/ OperateFails(c)
  \/ CommitNothing(c)
  \/ Commit(c) \/ CommitUnknown(c) \/ CommitTransient(c) \/ CommitRejected(c)

\* A call is over when it has returned or panicked.
Over == Returned \cup {"panicked"}

MongoFinished == (\A c \in Calls : phase[c] \in Over) /\ UNCHANGED mongoVars

MongoNext ==
  \/ \E c \in Calls :
       \/ CallPlain(c) \/ CallMulti(c) \/ StartSessionFails(c)
       \/ MongoStep(c) \/ TimerFires(c)
  \/ MongoFinished

MongoSpec == MongoInit /\ [][MongoNext]_mongoVars

\* A command is answered or its connection fails, and a timer fires.
MongoFairSpec ==
  MongoSpec /\ \A c \in Calls : WF_mongoVars(MongoStep(c)) /\ WF_mongoVars(TimerFires(c))

-----------------------------------------------------------------------------
\* Properties.

\* Every variable has its type, and a transaction that is committed or about to
\* be has run all its operations.
MongoTypeOK ==
  /\ docs \in Documents
  /\ phase \in [Calls -> {"idle", "operate", "commit"} \cup Over]
  /\ meth \in [Calls -> Methods \cup {"none", "multi"}]
  /\ ops \in [Calls -> Seq(Operations)]
  /\ opIdx \in [Calls -> Nat \ {0}]
  /\ view \in [Calls -> Documents]
  /\ wset \in [Calls -> SUBSET Keys]
  /\ stale \in [Calls -> SUBSET Keys]
  /\ applied \in [Calls -> BOOLEAN]
  /\ expired \in [Calls -> BOOLEAN]
  /\ commits \in [Calls -> Nat]
  /\ \A c \in Calls : phase[c] = "commit" => opIdx[c] = Len(ops[c]) + 1

\* The operations of a Multi take effect at most once, although WithTransaction
\* sends commits again and runs the operations again; and they take none if it
\* returns an error, which is always one of an operation, after which the
\* transaction is aborted: a document only ever holds the data of a Multi that
\* was committed.
AppliedAtMostOnce ==
  /\ \A c \in Calls : commits[c] <= IF phase[c] = "err" THEN 0 ELSE 1
  /\ \A k \in Keys : docs[k] \in Calls => commits[docs[k]] = 1

\* Every call returns, or panics for want of a session: the timer ends the loops
\* of WithTransaction.
EveryMongoCallReturns == \A c \in Calls : phase[c] # "idle" ~> phase[c] \in Over

\* "Multi performs a transactional operation. succeeds only if all operations
\* succeed": a Multi that has sent an upsert or a delete and returns nil has been
\* committed.
MultiSucceedsOnlyIfDone ==
  \A c \in Calls :
    meth[c] = "multi" /\ Sent(c) /\ phase[c] = "ok" => commits[c] = 1
=============================================================================
