----------------------------- MODULE RedisState -----------------------------
(***************************************************************************)
(* The Redis state store (src/state/redis/redis.go), used by any number of *)
(* concurrent calls, next to the Redis output binding                      *)
(* (src/bindings/redis/redis.go), which writes to the same database.       *)
(*                                                                         *)
(* A call is one invocation of a method of the store; it is made at most   *)
(* once, so a behaviour has as many calls as the set Calls has elements.   *)
(* Set is a BulkSet of one request, Delete a BulkDelete of one request.    *)
(* The server runs one command at a time.  The connection can fail while a *)
(* command is outstanding: the caller then sees an error and the command   *)
(* is an orphan, which the server may still execute at any later time or   *)
(* never (redispipe does not send a command twice).                        *)
(*                                                                         *)
(* The data a call writes is the call itself, so that every value tells    *)
(* who wrote it; how a value is turned into bytes is left out.             *)
(***************************************************************************)
EXTENDS Integers, Sequences, Retry

CONSTANTS
  Calls,            \* calls of the store's methods
  Keys,             \* keys of the database
  Foreign,          \* data that was in the database before
  Replicas,         \* r.replicas, read once by Init
  InitialEntries,   \* what a key may hold when the store is created
  SetRequests,      \* the request lists of Set and BulkSet calls
  DeleteRequests,   \* the request lists of Delete and BulkDelete calls
  Transactions,     \* the operation lists of Multi calls
  GetKeys,          \* the keys of Get calls
  BindingKeys       \* the keys of writes of the output binding

Values == Calls \cup {Foreign}

\* "fields" is a hash of another program, which has no field for a version.
None == [type |-> "none"]
Str(v) == [type |-> "string", data |-> v]
Hash(v, n) == [type |-> "hash", data |-> v, version |-> n]

Entries ==
  {None} \cup [type : {"string", "fields"}, data : Values]
         \cup [type : {"hash"}, data : Values, version : Nat \ {0}]

Lookups == [key : Keys]

Requests == [key : Keys, etag : ETags, options : Options]

Operations == [op : {"upsert", "delete", "other"}, key : Keys]

ASSUME ConstantsAssumption ==
  /\ Replicas \in Nat
  /\ InitialEntries \subseteq Entries
  /\ SetRequests \subseteq Seq(Requests) \ {<<>>}
  /\ DeleteRequests \subseteq Seq(Requests) \ {<<>>}
  /\ Transactions \subseteq Seq(Operations)
  /\ GetKeys \subseteq Keys
  /\ BindingKeys \subseteq Keys

VARIABLES
  db,        \* the Redis database
  pc,        \* where each call is
  kind,      \* the method of each call
  reqs,      \* its request list
  idx,       \* the request it is working on
  att,       \* failed attempts at that request
  got,       \* what a Get has returned
  orphans,   \* commands whose connection failed before the reply
  \* What follows is history, read by the properties only.
  era,       \* per key: version counters lost
  wins,      \* accepted commands that named a version of a hash
  effects,   \* <<call, request>> pairs a command of which was accepted
  faulted,   \* calls that met a connection failure
  short,     \* calls to which WAIT reported fewer replicas than asked for
  window     \* per Get: what its key has held since the call began

callVars == <<pc, kind, reqs, idx, att, got>>
histVars == <<era, wins, effects>>
vars == <<db, pc, kind, reqs, idx, att, got, orphans,
          era, wins, effects, faulted, short, window>>

Req(c) == reqs[c][idx[c]]

-----------------------------------------------------------------------------
\* Commands.  The scripts name a version, 0 standing for none.

Commands ==
  [op : {"set", "del"}, call : Calls, req : Nat, att : Nat,
   key : Keys, ver : ETags]
  \cup [op : {"multi"}, call : Calls, ops : Seq(Operations)]

\* Mutant: the scripts do not compare versions.
AcceptsEveryVersion(k, ver) == TRUE

\* The condition under which both scripts go through: HGET of the version
\* yields nothing (no key or no such field), an error table (the key is not a
\* hash) or the version named, or the script is told to skip the test.
Accepts(k, ver) ==
  db[k].type = "hash" => (db[k].version = ver \/ ver = 0)

\* Mutant: the data is replaced and the version is not moved.
AfterSetSameVersion(k, c) ==
  Hash(c, IF db[k].type = "hash" THEN db[k].version ELSE 1)

\* HSET and HINCRBY; a key of another type has been deleted before.
AfterSet(k, c) ==
  Hash(c, IF db[k].type = "hash" THEN db[k].version + 1 ELSE 1)

\* What the key holds after the SETs and DELs of a transaction, which run in
\* order: the last operation on the key decides.
LastOn(ops, k) ==
  CHOOSE i \in DOMAIN ops :
    /\ ops[i].key = k /\ ops[i].op # "other"
    /\ \A j \in DOMAIN ops : (ops[j].key = k /\ ops[j].op # "other") => j <= i

Touched(ops) == {ops[i].key : i \in {j \in DOMAIN ops : ops[j].op # "other"}}

AfterMulti(ops, k, c) ==
  IF ops[LastOn(ops, k)].op = "upsert" THEN Str(c) ELSE None

EndEras(K) ==
  era' = [k \in Keys |-> IF k \in K /\ db[k].type = "hash" THEN era[k] + 1
                                                            ELSE era[k]]

Won(m) ==
  IF m.ver # 0 /\ db[m.key].type = "hash"
  THEN {[key |-> m.key, era |-> era[m.key], version |-> m.ver,
         command |-> <<m.call, m.req, m.att>>]}
  ELSE {}

\* EVAL setQuery / delQuery, accepted.
RunScript(m) ==
  /\ Accepts(m.key, m.ver)
  /\ db' = [db EXCEPT ![m.key] = IF m.op = "set" THEN AfterSet(m.key, m.call)
                                                 ELSE None]
  /\ EndEras(IF m.op = "set" THEN {} ELSE {m.key})
  /\ wins' = wins \cup Won(m)
  /\ effects' = effects \cup {<<m.call, m.req>>}

\* MULTI, the SETs and DELs, EXEC.  SET of the binding is the case of one op.
RunMulti(m) ==
  /\ db' = [k \in Keys |-> IF k \in Touched(m.ops) THEN AfterMulti(m.ops, k, m.call)
                                                   ELSE db[k]]
  /\ EndEras(Touched(m.ops))
  /\ effects' = effects \cup {<<m.call, 1>>}
  /\ UNCHANGED wins

\* Gets in progress see what their key holds now.
Watch ==
  window' = [c \in Calls |-> IF pc[c] \in {"hgetall", "get"}
                             THEN window[c] \cup {db'[reqs[c][1].key]}
                             ELSE window[c]]

-----------------------------------------------------------------------------
\* The control of a call.

Returned == {"ok", "err"}

Begin(c, method, list, at) ==
  /\ pc[c] = "idle"
  /\ pc' = [pc EXCEPT ![c] = at]
  /\ kind' = [kind EXCEPT ![c] = method]
  /\ reqs' = [reqs EXCEPT ![c] = list]
  /\ UNCHANGED <<db, idx, att, got, orphans, era, wins, effects, faulted, short>>

Goto(c, at) ==
  /\ pc' = [pc EXCEPT ![c] = at]
  /\ UNCHANGED <<kind, reqs, idx, att>>

\* The method returned nil: on to the next request of the list, or return nil.
RequestDone(c) ==
  IF idx[c] < Len(reqs[c])
  THEN /\ pc' = [pc EXCEPT ![c] = "start"]
       /\ idx' = [idx EXCEPT ![c] = @ + 1]
       /\ att' = [att EXCEPT ![c] = 0]
       /\ UNCHANGED <<kind, reqs>>
  ELSE Goto(c, "ok")

\* Mutant: the loop counter is not moved.
AttemptNotCounted(c) ==
  IF Retries(Req(c).options) THEN Goto(c, "sleep") ELSE Goto(c, "err")

\* Mutant: BulkSet and BulkDelete go on after an error.
AttemptFailedGoesOn(c) ==
  IF Retries(Req(c).options)
  THEN /\ pc' = [pc EXCEPT ![c] = "sleep"]
       /\ att' = [att EXCEPT ![c] = @ + 1]
       /\ UNCHANGED <<kind, reqs, idx>>
  ELSE RequestDone(c)

\* The method returned an error: pause, or give up with that error.
AttemptFailed(c) ==
  IF Retries(Req(c).options)
  THEN /\ pc' = [pc EXCEPT ![c] = "sleep"]
       /\ att' = [att EXCEPT ![c] = @ + 1]
       /\ UNCHANGED <<kind, reqs, idx>>
  ELSE Goto(c, "err")

\* The connection fails while command m of call c is outstanding.
Lose(c, m) ==
  /\ orphans' = orphans \cup m
  /\ faulted' = faulted \cup {c}
  /\ UNCHANGED <<db, era, wins, effects, short, window>>

Quiet == UNCHANGED <<db, orphans, era, wins, effects, faulted, window>>

-----------------------------------------------------------------------------
\* Set, BulkSet, Delete and BulkDelete.

CallSet(c) ==
  /\ \E list \in SetRequests : Begin(c, "set", list, "start")
  /\ UNCHANGED window

CallDelete(c) ==
  /\ \E list \in DeleteRequests : Begin(c, "del", list, "start")
  /\ UNCHANGED window

\* Set and Delete up to the retry loop: Delete checks the options once, before
\* it; Set leaves that to each attempt.
StartRequest(c) ==
  /\ pc[c] = "start"
  /\ Goto(c, IF /\ kind[c] = "del" => CheckRequestOptions(Req(c).options)
                /\ KnownPattern(Req(c).options)
             THEN "attempt" ELSE "err")
  /\ Quiet /\ UNCHANGED <<got, short>>

\* The version setValue and deleteValue pass to their script.
SetVersion(r) ==
  IF r.etag = NoETag \/ r.options.concurrency = LastWrite THEN 0 ELSE r.etag

DeleteVersion(r) == IF r.etag = NoETag THEN 0 ELSE r.etag

Script(c) ==
  [op |-> kind[c], call |-> c, req |-> idx[c], att |-> att[c],
   key |-> Req(c).key,
   ver |-> IF kind[c] = "set" THEN SetVersion(Req(c)) ELSE DeleteVersion(Req(c))]

\* setValue checks the options and parses the ETag before it does anything.
ArgumentsOK(c) ==
  kind[c] = "set" => CheckRequestOptions(Req(c).options) /\ Req(c).etag # BadETag

RejectArguments(c) ==
  /\ pc[c] = "attempt"
  /\ ~ArgumentsOK(c)
  /\ AttemptFailed(c)
  /\ Quiet /\ UNCHANGED <<got, short>>

\* setValue waits for the replicas after its script, deleteValue does not.
MustWait(c) ==
  kind[c] = "set" /\ Req(c).options.consistency = Strong /\ Replicas > 0

EvalAccepted(c) ==
  /\ pc[c] = "attempt"
  /\ ArgumentsOK(c)
  /\ RunScript(Script(c))
  /\ IF MustWait(c) THEN Goto(c, "wait") ELSE RequestDone(c)
  /\ Watch
  /\ UNCHANGED <<got, orphans, faulted, short>>

EvalRefused(c) ==
  /\ pc[c] = "attempt"
  /\ ArgumentsOK(c)
  /\ ~Accepts(Script(c).key, Script(c).ver)
  /\ AttemptFailed(c)
  /\ Quiet /\ UNCHANGED <<got, short>>

EvalLost(c) ==
  /\ pc[c] = "attempt"
  /\ ArgumentsOK(c)
  /\ AttemptFailed(c)
  /\ Lose(c, {Script(c)})
  /\ UNCHANGED got

\* WAIT replies with the number of replicas that acknowledged in time; any
\* number will do.
WaitReplied(c) ==
  /\ pc[c] = "wait"
  /\ RequestDone(c)
  /\ \E n \in 0 .. Replicas :
       short' = IF n < Replicas THEN short \cup {c} ELSE short
  /\ Quiet /\ UNCHANGED got

WaitLost(c) ==
  /\ pc[c] = "wait"
  /\ AttemptFailed(c)
  /\ Lose(c, {})
  /\ UNCHANGED got

\* The end of time.Sleep, and the loop test.
Wake(c) ==
  /\ pc[c] = "sleep"
  /\ Goto(c, IF MoreAttempts(Req(c).options, att[c]) THEN "attempt" ELSE "err")
  /\ Quiet /\ UNCHANGED <<got, short>>
-----------------------------------------------------------------------------
\* Multi, and Write of the output binding.

CallMulti(c) ==
  /\ \E ops \in Transactions : Begin(c, "multi", ops, "exec")
  /\ UNCHANGED window

CallBinding(c) ==
  /\ \E k \in BindingKeys :
       Begin(c, "binding", <<[op |-> "upsert", key |-> k]>>, "exec")
  /\ UNCHANGED window

\* A write request without a key in its metadata is refused.
CallBindingNoKey(c) ==
  /\ Begin(c, "binding", <<>>, "err")
  /\ UNCHANGED window

Transaction(c) == [op |-> "multi", call |-> c, ops |-> reqs[c]]

Exec(c) ==
  /\ pc[c] = "exec"
  /\ RunMulti(Transaction(c))
  /\ Goto(c, "ok")
  /\ Watch
  /\ UNCHANGED <<got, orphans, faulted, short>>

ExecLost(c) ==
  /\ pc[c] = "exec"
  /\ Goto(c, "err")
  /\ Lose(c, {Transaction(c)})
  /\ UNCHANGED got

-----------------------------------------------------------------------------
\* Get.

CallGet(c) ==
  \E k \in GetKeys :
    /\ Begin(c, "get", <<[key |-> k]>>, "hgetall")
    /\ window' = [window EXCEPT ![c] = {db[k]}]

Answer(c, r) ==
  /\ got' = [got EXCEPT ![c] = r]
  /\ Goto(c, "ok")
  /\ Quiet /\ UNCHANGED short

\* HGETALL of a hash of the store has both fields, of no key is empty, of
\* another hash lacks a field, which is an error of Get; a string makes it fail,
\* and Get falls back to GET.
HGetAll(c) ==
  LET e == db[reqs[c][1].key]
  IN  /\ pc[c] = "hgetall"
      /\ IF e.type \in {"hash", "none"} THEN Answer(c, e)
         ELSE /\ Goto(c, IF e.type = "fields" THEN "err" ELSE "get")
              /\ Quiet /\ UNCHANGED <<got, short>>

\* Every error makes Get fall back, a failed connection included.
HGetAllLost(c) ==
  /\ pc[c] = "hgetall"
  /\ Goto(c, "get")
  /\ Lose(c, {})
  /\ UNCHANGED got

\* Mutant: an error of GET is answered with an empty response.
DirectGetHidesError(c) ==
  /\ pc[c] = "get"
  /\ Answer(c, IF db[reqs[c][1].key].type = "string" THEN db[reqs[c][1].key] ELSE None)

\* GET of a string or of no key answers, of a hash is an error.
DirectGet(c) ==
  /\ pc[c] = "get"
  /\ IF db[reqs[c][1].key].type \in {"string", "none"}
     THEN Answer(c, db[reqs[c][1].key])
     ELSE Goto(c, "err") /\ Quiet /\ UNCHANGED <<got, short>>

DirectGetLost(c) ==
  /\ pc[c] = "get"
  /\ Goto(c, "err")
  /\ Lose(c, {})
  /\ UNCHANGED got

-----------------------------------------------------------------------------
\* The server executes a command whose caller has already seen an error.
OrphanExecuted(m) ==
  /\ m \in orphans
  /\ orphans' = orphans \ {m}
  /\ \/ m.op = "multi" /\ RunMulti(m)
     \/ m.op # "multi" /\ RunScript(m)
     \/ m.op # "multi" /\ ~Accepts(m.key, m.ver) /\ UNCHANGED <<db, histVars>>
  /\ Watch
  /\ UNCHANGED <<callVars, faulted, short>>

Init ==
  /\ db \in [Keys -> InitialEntries]
  /\ pc = [c \in Calls |-> "idle"]
  /\ kind = [c \in Calls |-> "none"]
  /\ reqs = [c \in Calls |-> <<>>]
  /\ idx = [c \in Calls |-> 1]
  /\ att = [c \in Calls |-> 0]
  /\ got = [c \in Calls |-> None]
  /\ orphans = {}
  /\ era = [k \in Keys |-> 0]
  /\ wins = {}
  /\ effects = {}
  /\ faulted = {}
  /\ short = {}
  /\ window = [c \in Calls |-> {}]

Call(c) ==
  CallSet(c) \/ CallDelete(c) \/ CallMulti(c) \/ CallGet(c)
  \/ CallBinding(c) \/ CallBindingNoKey(c)

\* One step of the goroutine of a call that has begun.
Step(c) ==
  \/ StartRequest(c) \/ RejectArguments(c)
  \/ EvalAccepted(c) \/ EvalRefused(c) \/ EvalLost(c)
  \/ WaitReplied(c) \/ WaitLost(c) \/ Wake(c)
  \/ Exec(c) \/ ExecLost(c)
  \/ HGetAll(c) \/ HGetAllLost(c) \/ DirectGet(c) \/ DirectGetLost(c)

\* Every call has been made and has returned.
Finished == (\A c \in Calls : pc[c] \in Returned) /\ UNCHANGED vars

Next ==
  \/ \E c \in Calls : Call(c) \/ Step(c)
  \/ \E m \in orphans : OrphanExecuted(m)
  \/ Finished

Spec == Init /\ [][Next]_vars

\* The Go scheduler runs every goroutine; a command is answered or its
\* connection fails; a sleep ends.
FairSpec == Spec /\ \A c \in Calls : WF_vars(Step(c))
-----------------------------------------------------------------------------
\* Properties.

\* Every variable has its type; in particular a hash has a version of at least
\* one, so that the 0 the scripts take for "no test" is never a version.
TypeOK ==
  /\ db \in [Keys -> Entries]
  /\ pc \in [Calls -> {"idle", "start", "attempt", "wait", "sleep", "exec",
                       "hgetall", "get"} \cup Returned]
  /\ kind \in [Calls -> {"none", "set", "del", "multi", "binding", "get"}]
  /\ reqs \in [Calls -> Seq(Requests) \cup Seq(Operations) \cup Seq(Lookups)]
  /\ idx \in [Calls -> Nat \ {0}]
  /\ att \in [Calls -> Nat]
  /\ got \in [Calls -> Entries]
  /\ orphans \subseteq Commands
  /\ era \in [Keys -> Nat]
  /\ wins \subseteq [key : Keys, era : Nat, version : Nat,
                     command : Calls \X Nat \X Nat]
  /\ effects \subseteq Calls \X Nat
  /\ faulted \subseteq Calls
  /\ short \subseteq Calls
  /\ window \in [Calls -> SUBSET Entries]

\* The store as its callers see it: a string, or a hash without a version, has
\* no ETag.
View(e) ==
  CASE e.type = "none"   -> [kind |-> "absent"]
    [] e.type \in {"string", "fields"} -> [kind |-> "plain", data |-> e.data]
    [] e.type = "hash"   -> [kind |-> "versioned", data |-> e.data,
                             version |-> e.version]

VS == INSTANCE VersionedStore
        WITH FirstVersion <- 1, Batch <- {1}, store <- [k \in Keys |-> View(db[k])]

\* The Redis store implements the versioned store: whatever the calls, their
\* retries and their orphans do, every change of the database is a write, a
\* removal or a replacement that the versioned store allows.
ImplementsVersionedStore == VS!Spec

\* First write wins (setQuery and delQuery): of all commands of all calls that
\* name the same version of a key, retries and orphans included, at most one
\* takes effect in a life of its version counter.
FirstWriteWins == VS!FirstWriteWins

\* A call that returns nil has taken effect: each of its requests has been
\* accepted by the server.  For Multi that is the transaction as a whole.
SuccessIsReal ==
  \A c \in Calls :
    pc[c] = "ok" =>
      CASE kind[c] \in {"set", "del"} ->
             \A i \in DOMAIN reqs[c] : <<c, i>> \in effects
        [] kind[c] \in {"multi", "binding"} -> <<c, 1>> \in effects
        [] OTHER -> TRUE

\* BulkSet and BulkDelete stop at the first request that fails: the requests
\* before the one they work on have all taken effect, and none after it has,
\* not even through an orphan.
BulkIsAPrefix ==
  \A c \in Calls :
    kind[c] \in {"set", "del"} =>
      \A i \in DOMAIN reqs[c] :
        /\ i < idx[c] => <<c, i>> \in effects
        /\ i > idx[c] => <<c, i>> \notin effects

\* Only a connection failure can make a call fail after its request has taken
\* effect: a caller that met none may trust the error.
CleanErrorHasNoEffect ==
  \A c \in Calls :
    pc[c] = "err" /\ c \notin faulted => <<c, idx[c]>> \notin effects

\* What a caller may conclude from the answer of a call, over retries, lost
\* replies and orphans: nil means all was done, an error without a connection
\* failure that the request it stopped at was not, and a bulk call that stops
\* has done all the requests before that one and none behind it.
AnswersAreTrue == SuccessIsReal /\ CleanErrorHasNoEffect /\ BulkIsAPrefix

\* Get takes two commands when the key is not a hash, and other calls run in
\* between.  Its answer, data with ETag, is still what the key held at some
\* moment of the call.
GetAnswersWhatWasHeld ==
  \A c \in Calls : kind[c] = "get" /\ pc[c] = "ok" => got[c] \in window[c]

\* A Set with strong consistency returns nil only if the replicas acknowledged:
\* the error setValue has for it says it "timed out while waiting for replicas
\* to acknowledge".
StrongIsReplicated ==
  \A c \in Calls : pc[c] = "ok" => c \notin short

\* Every call returns, whatever fails: no retry loop runs for ever.
EveryCallReturns ==
  \A c \in Calls : pc[c] # "idle" ~> pc[c] \in Returned
=============================================================================
