-------------------------- MODULE RedisStateProofs --------------------------
(***************************************************************************)
(* The Redis store has its types, implements the versioned store and so    *)
(* lets the first write win, and its callers may rely on its answers, for  *)
(* every set of calls, keys and requests.                                  *)
(***************************************************************************)
EXTENDS RedisState, TLAPS

\* What a call is doing fits the method it runs.  Type correctness needs it:
\* the request a step works on exists and is of the method's type.
CallShape ==
  \A c \in Calls :
    /\ pc[c] \in {"start", "attempt", "wait", "sleep"} => kind[c] \in {"set", "del"}
    /\ pc[c] = "exec" => kind[c] \in {"multi", "binding"}
    /\ pc[c] \in {"hgetall", "get"} => kind[c] = "get"
    /\ pc[c] = "idle" => kind[c] = "none" /\ idx[c] = 1 /\ att[c] = 0
    /\ kind[c] \in {"set", "del"} =>
         reqs[c] \in Seq(Requests) /\ idx[c] \in 1 .. Len(reqs[c])
    /\ kind[c] \in {"multi", "binding"} => reqs[c] \in Seq(Operations)
    /\ kind[c] = "get" => reqs[c] \in Seq(Lookups) /\ Len(reqs[c]) = 1

Inv == TypeOK /\ CallShape

-----------------------------------------------------------------------------
\* The request a set or delete call works on, and the script it sends.
LEMMA RequestType ==
  ASSUME Inv, NEW c \in Calls, kind[c] \in {"set", "del"}
  PROVE  /\ Req(c) \in Requests
         /\ Req(c).key \in Keys /\ Req(c).etag \in ETags /\ Req(c).options \in Options
         /\ Script(c) \in Commands
         /\ Script(c).op = kind[c] /\ Script(c).call = c /\ Script(c).req = idx[c]
         /\ Script(c).op # "multi"
<1>1. reqs[c] \in Seq(Requests) /\ idx[c] \in 1 .. Len(reqs[c])
  BY DEF Inv, CallShape
<1>2. Req(c) \in Requests
  BY <1>1 DEF Req
<1>3. Req(c).key \in Keys /\ Req(c).etag \in ETags /\ Req(c).options \in Options
  BY <1>2 DEF Requests
<1>4. SetVersion(Req(c)) \in ETags /\ DeleteVersion(Req(c)) \in ETags
  BY <1>3 DEF SetVersion, DeleteVersion, ETags
<1>5. idx[c] \in Nat /\ att[c] \in Nat
  BY DEF Inv, TypeOK
<1>6. Script(c) \in Commands
  BY <1>3, <1>4, <1>5, Zenon DEF Script, Commands
<1> QED BY <1>2, <1>3, <1>6, Zenon DEF Script

\* The transaction Multi sends is a command.
LEMMA TransactionType ==
  ASSUME Inv, NEW c \in Calls, pc[c] = "exec"
  PROVE  Transaction(c) \in Commands /\ Transaction(c).op = "multi"
BY Zenon DEF Inv, CallShape, Transaction, Commands

\* The fields of a command.
LEMMA CommandFields ==
  ASSUME NEW m \in Commands
  PROVE  /\ m.call \in Calls
         /\ m.op # "multi" => /\ m.op \in {"set", "del"}
                              /\ m.req \in Nat /\ m.att \in Nat
                              /\ m.key \in Keys /\ m.ver \in ETags
         /\ m.op = "multi" => m.ops \in Seq(Operations)
BY DEF Commands
-----------------------------------------------------------------------------
\* What the server's side of a step keeps.
StoreTypeOK ==
  /\ db \in [Keys -> Entries]
  /\ era \in [Keys -> Nat]
  /\ wins \subseteq [key : Keys, era : Nat, version : Nat,
                     command : Calls \X Nat \X Nat]
  /\ effects \subseteq Calls \X Nat

\* The fields of what Redis holds under a key.
LEMMA EntryFields ==
  ASSUME NEW e \in Entries
  PROVE  /\ e.type \in {"none", "string", "fields", "hash"}
         /\ e.type = "none" => e = None
         /\ e.type # "none" => e.data \in Values
         /\ e.type = "string" => e = Str(e.data)
         /\ e.type = "hash" => e.version \in Nat \ {0} /\ e = Hash(e.data, e.version)
BY DEF Entries, None, Str, Hash

\* Nothing, a string and a hash with a positive version are entries.
LEMMA EntryForms ==
  /\ None \in Entries
  /\ \A v \in Values : Str(v) \in Entries
  /\ \A v \in Values, n \in Nat \ {0} : Hash(v, n) \in Entries
BY DEF Entries, None, Str, Hash

\* Ending the life of versions leaves a natural number per key.
LEMMA EndErasType ==
  ASSUME StoreTypeOK, NEW K, EndEras(K)
  PROVE  era' \in [Keys -> Nat]
BY DEF EndEras, StoreTypeOK

\* The set and delete scripts keep the types of what the server holds.
LEMMA ScriptType ==
  ASSUME StoreTypeOK, NEW m \in Commands, m.op # "multi", RunScript(m)
  PROVE  StoreTypeOK'
<1>1. /\ m.call \in Calls /\ m.op \in {"set", "del"} /\ m.req \in Nat /\ m.att \in Nat
      /\ m.key \in Keys /\ m.ver \in ETags
  BY CommandFields
<1>2. db[m.key] \in Entries
  BY <1>1 DEF StoreTypeOK
<1>3. AfterSet(m.key, m.call) \in Entries
  <2>1. m.call \in Values
    BY <1>1 DEF Values
  <2>2. (IF db[m.key].type = "hash" THEN db[m.key].version + 1 ELSE 1) \in Nat \ {0}
    BY <1>2, EntryFields
  <2> QED BY <2>1, <2>2, EntryForms DEF AfterSet
<1>4. db' \in [Keys -> Entries]
  BY <1>1, <1>3, EntryForms, Zenon DEF RunScript, StoreTypeOK
<1>5. era' \in [Keys -> Nat]
  BY EndErasType DEF RunScript
<1>6. Won(m) \subseteq [key : Keys, era : Nat, version : Nat, command : Calls \X Nat \X Nat]
  <2>1. CASE m.ver # 0 /\ db[m.key].type = "hash"
    <3>1. m.ver \in Nat
      BY <1>2, <2>1, EntryFields, Zenon DEF RunScript, Accepts
    <3>2. era[m.key] \in Nat
      BY <1>1 DEF StoreTypeOK
    <3> QED BY <1>1, <3>1, <3>2 DEF Won
  <2>2. CASE ~(m.ver # 0 /\ db[m.key].type = "hash")
    BY <2>2, Zenon DEF Won
  <2> QED BY <2>1, <2>2
<1>7. wins' \subseteq [key : Keys, era : Nat, version : Nat, command : Calls \X Nat \X Nat]
  BY <1>6 DEF RunScript, StoreTypeOK
<1>8. effects' \subseteq Calls \X Nat
  BY <1>1 DEF RunScript, StoreTypeOK
<1> QED BY <1>4, <1>5, <1>7, <1>8 DEF StoreTypeOK

\* A MULTI/EXEC transaction keeps the types of what the server holds.
LEMMA MultiType ==
  ASSUME StoreTypeOK, NEW m \in Commands, m.op = "multi", RunMulti(m)
  PROVE  StoreTypeOK'
<1>1. m.call \in Calls /\ m.call \in Values
  BY CommandFields DEF Values
<1>2. \A k \in Keys : AfterMulti(m.ops, k, m.call) \in Entries
  BY <1>1, EntryForms DEF AfterMulti
<1>3. db' \in [Keys -> Entries]
  BY <1>2 DEF RunMulti, StoreTypeOK
<1>4. era' \in [Keys -> Nat]
  BY EndErasType DEF RunMulti
<1> QED BY <1>1, <1>3, <1>4 DEF RunMulti, StoreTypeOK

\* Every step leaves the store alone or has the server run one command.
ServerStep ==
  \/ UNCHANGED <<db, era, wins, effects>>
  \/ \E m \in Commands : m.op # "multi" /\ RunScript(m)
  \/ \E m \in Commands : m.op = "multi" /\ RunMulti(m)

\* Every step runs at most one script or transaction on the server.
LEMMA StepRunsOneCommand == Inv /\ [Next]_vars => ServerStep
<1> SUFFICES ASSUME Inv, [Next]_vars PROVE ServerStep
  OBVIOUS
<1>1. ASSUME NEW c \in Calls, Call(c) PROVE ServerStep
  BY <1>1, Zenon DEF Call, CallSet, CallDelete, CallMulti, CallGet, CallBinding,
              CallBindingNoKey, Begin, ServerStep
<1>2. ASSUME NEW c \in Calls, Step(c) PROVE ServerStep
  <2>1. CASE EvalAccepted(c)
    <3>1. kind[c] \in {"set", "del"}
      BY <2>1, Zenon DEF EvalAccepted, Inv, CallShape
    <3> QED BY <2>1, <3>1, RequestType, Zenon DEF EvalAccepted, ServerStep
  <2>2. CASE Exec(c)
    BY <2>2, TransactionType DEF Exec, ServerStep
  <2>3. CASE HGetAll(c) \/ DirectGet(c)
    BY <2>3, Zenon DEF HGetAll, DirectGet, Answer, Quiet, ServerStep
  <2>4. CASE EvalLost(c) \/ WaitLost(c) \/ ExecLost(c) \/ HGetAllLost(c) \/ DirectGetLost(c)
    BY <2>4, Zenon DEF EvalLost, WaitLost, ExecLost, HGetAllLost, DirectGetLost, Lose, ServerStep
  <2>5. CASE StartRequest(c) \/ RejectArguments(c) \/ EvalRefused(c) \/ WaitReplied(c) \/ Wake(c)
    BY <2>5, Zenon DEF StartRequest, RejectArguments, EvalRefused, WaitReplied, Wake, Quiet, ServerStep
  <2> QED BY <1>2, <2>1, <2>2, <2>3, <2>4, <2>5 DEF Step
<1>3. ASSUME NEW m \in orphans, OrphanExecuted(m) PROVE ServerStep
  <2>1. m \in Commands
    BY DEF Inv, TypeOK
  <2> QED BY <1>3, <2>1 DEF OrphanExecuted, histVars, ServerStep
<1>4. CASE UNCHANGED vars
  BY <1>4 DEF vars, ServerStep
<1> QED BY <1>1, <1>2, <1>3, <1>4 DEF Next, Finished
-----------------------------------------------------------------------------
\* What the control of a call keeps.
ControlOK ==
  /\ pc \in [Calls -> {"idle", "start", "attempt", "wait", "sleep", "exec",
                       "hgetall", "get"} \cup Returned]
  /\ kind \in [Calls -> {"none", "set", "del", "multi", "binding", "get"}]
  /\ reqs \in [Calls -> Seq(Requests) \cup Seq(Operations) \cup Seq(Lookups)]
  /\ idx \in [Calls -> Nat \ {0}]
  /\ att \in [Calls -> Nat]
  /\ CallShape

\* A jump to a place that fits the method.
LEMMA GotoKeeps ==
  ASSUME ControlOK, NEW c \in Calls, NEW at, Goto(c, at),
         \/ at \in Returned
         \/ at \in {"attempt", "wait", "sleep"} /\ kind[c] \in {"set", "del"}
         \/ at = "get" /\ kind[c] = "get"
  PROVE  ControlOK'
<1>1. pc' \in [Calls -> {"idle", "start", "attempt", "wait", "sleep", "exec",
                         "hgetall", "get"} \cup Returned]
  BY DEF ControlOK, Goto
<1>2. ASSUME NEW d \in Calls, d # c PROVE pc'[d] = pc[d]
  BY <1>2 DEF ControlOK, Goto
<1>3. pc'[c] = at
  BY DEF ControlOK, Goto
<1>4. UNCHANGED <<kind, reqs, idx, att>>
  BY DEF Goto
<1>5. CallShape'
  BY <1>2, <1>3, <1>4, SMTT(20) DEF ControlOK, CallShape, Returned
<1> QED BY <1>1, <1>4, <1>5 DEF ControlOK

\* Going on to the next request, or returning after the last, keeps the call's shape.
LEMMA RequestDoneKeeps ==
  ASSUME ControlOK, NEW c \in Calls, kind[c] \in {"set", "del"}, RequestDone(c)
  PROVE  ControlOK'
<1>1. CASE idx[c] < Len(reqs[c])
  <2>1. /\ pc' = [pc EXCEPT ![c] = "start"]
        /\ idx' = [idx EXCEPT ![c] = @ + 1]
        /\ att' = [att EXCEPT ![c] = 0]
        /\ UNCHANGED <<kind, reqs>>
    BY <1>1 DEF RequestDone
  <2>2. idx[c] + 1 \in 1 .. Len(reqs[c])
    BY <1>1 DEF ControlOK, CallShape
  <2>3. CallShape'
    BY <2>1, <2>2 DEF ControlOK, CallShape, Returned
  <2>4. pc' \in [Calls -> {"idle", "start", "attempt", "wait", "sleep", "exec",
                           "hgetall", "get"} \cup Returned]
    BY <2>1 DEF ControlOK
  <2>5. idx' \in [Calls -> Nat \ {0}]
    BY <2>1 DEF ControlOK
  <2>6. att' \in [Calls -> Nat]
    BY <2>1 DEF ControlOK
  <2> QED BY <2>1, <2>3, <2>4, <2>5, <2>6, Zenon DEF ControlOK
<1>2. CASE ~(idx[c] < Len(reqs[c]))
  BY <1>2, GotoKeeps DEF RequestDone, Returned
<1> QED BY <1>1, <1>2

\* Retrying after a failed attempt, or giving up, keeps the call's shape.
LEMMA AttemptFailedKeeps ==
  ASSUME ControlOK, NEW c \in Calls, kind[c] \in {"set", "del"}, AttemptFailed(c)
  PROVE  ControlOK'
<1>1. CASE Retries(Req(c).options)
  <2>1. /\ pc' = [pc EXCEPT ![c] = "sleep"]
        /\ att' = [att EXCEPT ![c] = @ + 1]
        /\ UNCHANGED <<kind, reqs, idx>>
    BY <1>1 DEF AttemptFailed
  <2>2. CallShape'
    BY <2>1 DEF ControlOK, CallShape, Returned
  <2>3. pc' \in [Calls -> {"idle", "start", "attempt", "wait", "sleep", "exec",
                           "hgetall", "get"} \cup Returned]
    BY <2>1 DEF ControlOK
  <2>4. att' \in [Calls -> Nat]
    BY <2>1 DEF ControlOK
  <2> QED BY <2>1, <2>2, <2>3, <2>4 DEF ControlOK
<1>2. CASE ~Retries(Req(c).options)
  BY <1>2, GotoKeeps DEF AttemptFailed, Returned
<1> QED BY <1>1, <1>2

\* A call that begins has the shape of its method.
LEMMA BeginKeeps ==
  ASSUME ControlOK, NEW c \in Calls, NEW method, NEW list, NEW at,
         Begin(c, method, list, at),
         \/ method \in {"set", "del"} /\ at = "start" /\ list \in Seq(Requests) /\ list # <<>>
         \/ method \in {"multi", "binding"} /\ at \in {"exec", "err"} /\ list \in Seq(Operations)
         \/ method = "get" /\ at = "hgetall" /\ list \in Seq(Lookups) /\ Len(list) = 1
  PROVE  ControlOK'
<1>1. /\ pc' = [pc EXCEPT ![c] = at]
      /\ kind' = [kind EXCEPT ![c] = method]
      /\ reqs' = [reqs EXCEPT ![c] = list]
      /\ UNCHANGED <<idx, att>>
      /\ pc[c] = "idle"
  BY DEF Begin
<1>2. list \in Seq(Requests) /\ list # <<>> => 1 \in 1 .. Len(list)
  OBVIOUS
<1>3. idx[c] = 1
  BY <1>1, Zenon DEF ControlOK, CallShape
<1>4. CallShape'
  <2> SUFFICES ASSUME NEW d \in Calls PROVE CallShape!(d)'
    BY Zenon DEF CallShape
  <2>1. CASE d = c
    BY <1>1, <1>2, <1>3, <2>1, Zenon DEF ControlOK, Returned
  <2>2. CASE d # c
    BY <1>1, <2>2 DEF ControlOK, CallShape
  <2> QED BY <2>1, <2>2, Zenon
<1> QED BY <1>1, <1>4, Zenon DEF ControlOK, Returned
-----------------------------------------------------------------------------
\* The key of a Get in progress.
LEMMA GetKeyType ==
  ASSUME ControlOK, NEW c \in Calls, pc[c] \in {"hgetall", "get"}
  PROVE  reqs[c][1].key \in Keys
<1>1. reqs[c] \in Seq(Lookups) /\ Len(reqs[c]) = 1
  BY DEF ControlOK, CallShape
<1>2. reqs[c][1] \in Lookups
  BY <1>1
<1> QED BY <1>2 DEF Lookups

\* Recording what a Get could have been answered keeps its type.
LEMMA WatchType ==
  ASSUME ControlOK, window \in [Calls -> SUBSET Entries],
         db' \in [Keys -> Entries], Watch
  PROVE  window' \in [Calls -> SUBSET Entries]
<1>1. ASSUME NEW c \in Calls, pc[c] \in {"hgetall", "get"}
      PROVE  db'[reqs[c][1].key] \in Entries
  BY <1>1, GetKeyType
<1> QED BY <1>1 DEF Watch

\* What is left of TypeOK.
RestOK ==
  /\ got \in [Calls -> Entries]
  /\ orphans \subseteq Commands
  /\ faulted \subseteq Calls
  /\ short \subseteq Calls
  /\ window \in [Calls -> SUBSET Entries]

\* The invariant, as the server's part, the calls' part and the rest.
LEMMA InvParts == Inv <=> StoreTypeOK /\ ControlOK /\ RestOK
BY Zenon DEF Inv, TypeOK, StoreTypeOK, ControlOK, RestOK

\* The invariant holds initially.
LEMMA InitInv == Init => Inv
<1> SUFFICES ASSUME Init PROVE Inv
  OBVIOUS
<1>1. StoreTypeOK
  BY ConstantsAssumption DEF Init, StoreTypeOK
<1>2. ControlOK
  BY DEF Init, ControlOK, CallShape, Returned
<1>3. RestOK
  BY EntryForms DEF Init, RestOK
<1> QED BY <1>1, <1>2, <1>3, InvParts

\* Every step keeps the types of what the server holds.
LEMMA StepStoreType == Inv /\ [Next]_vars => StoreTypeOK'
<1> SUFFICES ASSUME Inv, [Next]_vars PROVE StoreTypeOK'
  OBVIOUS
<1>1. StoreTypeOK /\ ServerStep
  BY InvParts, StepRunsOneCommand
<1>2. CASE UNCHANGED <<db, era, wins, effects>>
  BY <1>1, <1>2 DEF StoreTypeOK
<1> QED BY <1>1, <1>2, ScriptType, MultiType DEF ServerStep

\* A method call that begins keeps the calls' part of the invariant.
LEMMA CallKeeps ==
  ASSUME Inv, NEW c \in Calls, Call(c)
  PROVE  ControlOK' /\ RestOK'
<1> USE ConstantsAssumption
<1>0. ControlOK /\ RestOK /\ StoreTypeOK
  BY InvParts
<1>1. CASE CallSet(c)
  <2>1. PICK list \in SetRequests : Begin(c, "set", list, "start")
    BY <1>1 DEF CallSet
  <2>2. ControlOK'
    BY <1>0, <2>1, BeginKeeps
  <2> QED BY <1>0, <1>1, <2>1, <2>2, Zenon DEF CallSet, Begin, RestOK
<1>2. CASE CallDelete(c)
  <2>1. PICK list \in DeleteRequests : Begin(c, "del", list, "start")
    BY <1>2 DEF CallDelete
  <2>2. ControlOK'
    BY <1>0, <2>1, BeginKeeps
  <2> QED BY <1>0, <1>2, <2>1, <2>2, Zenon DEF CallDelete, Begin, RestOK
<1>3. CASE CallMulti(c)
  <2>1. PICK list \in Transactions : Begin(c, "multi", list, "exec")
    BY <1>3 DEF CallMulti
  <2>2. ControlOK'
    BY <1>0, <2>1, BeginKeeps
  <2> QED BY <1>0, <1>3, <2>1, <2>2, Zenon DEF CallMulti, Begin, RestOK
<1>4. CASE CallGet(c)
  <2>1. PICK k \in GetKeys : /\ Begin(c, "get", <<[key |-> k]>>, "hgetall")
                             /\ window' = [window EXCEPT ![c] = {db[k]}]
    BY <1>4, Zenon DEF CallGet
  <2>2. ControlOK'
    <3>1. /\ <<[key |-> k]>> \in Seq(Lookups)
          /\ Len(<<[key |-> k]>>) = 1
      BY DEF Lookups
    <3> QED BY <1>0, <2>1, <3>1, BeginKeeps, Zenon
  <2>3. window' \in [Calls -> SUBSET Entries]
    BY <1>0, <2>1 DEF RestOK, StoreTypeOK
  <2> QED BY <1>0, <2>1, <2>2, <2>3, Zenon DEF Begin, RestOK
<1>5. CASE CallBinding(c)
  <2>1. PICK k \in BindingKeys :
          Begin(c, "binding", <<[op |-> "upsert", key |-> k]>>, "exec")
    BY <1>5 DEF CallBinding
  <2>2. <<[op |-> "upsert", key |-> k]>> \in Seq(Operations)
    BY DEF Operations
  <2>3. ControlOK'
    BY <1>0, <2>1, <2>2, BeginKeeps, Zenon
  <2> QED BY <1>0, <1>5, <2>1, <2>3, Zenon DEF CallBinding, Begin, RestOK
<1>6. CASE CallBindingNoKey(c)
  <2>1. ControlOK'
    <3>1. <<>> \in Seq(Operations)
      OBVIOUS
    <3> QED BY <1>0, <1>6, <3>1, BeginKeeps, Zenon DEF CallBindingNoKey
  <2> QED BY <1>0, <1>6, <2>1 DEF CallBindingNoKey, Begin, RestOK
<1> QED BY <1>1, <1>2, <1>3, <1>4, <1>5, <1>6 DEF Call

\* A step of a running call keeps the calls' part of the invariant.
LEMMA StepKeeps ==
  ASSUME Inv, NEW c \in Calls, Step(c), db' \in [Keys -> Entries]
  PROVE  ControlOK' /\ RestOK'
<1>0. ControlOK /\ RestOK /\ StoreTypeOK
  BY InvParts
<1>1. CASE StartRequest(c)
  <2>1. kind[c] \in {"set", "del"}
    BY <1>0, <1>1, Zenon DEF StartRequest, ControlOK, CallShape
  <2>2. ControlOK'
    BY <1>0, <1>1, <2>1, GotoKeeps DEF StartRequest, Returned
  <2> QED BY <1>0, <1>1, <2>2 DEF StartRequest, Quiet, RestOK
<1>2. CASE RejectArguments(c) \/ EvalRefused(c)
  <2>1. kind[c] \in {"set", "del"}
    BY <1>0, <1>2, Zenon DEF RejectArguments, EvalRefused, ControlOK, CallShape
  <2>2. ControlOK'
    BY <1>0, <1>2, <2>1, AttemptFailedKeeps DEF RejectArguments, EvalRefused
  <2> QED BY <1>0, <1>2, <2>2, Zenon DEF RejectArguments, EvalRefused, Quiet, RestOK
<1>3. CASE EvalAccepted(c)
  <2>1. kind[c] \in {"set", "del"}
    BY <1>0, <1>3, Zenon DEF EvalAccepted, ControlOK, CallShape
  <2>2. ControlOK'
    BY <1>0, <1>3, <2>1, GotoKeeps, RequestDoneKeeps DEF EvalAccepted
  <2>3. window' \in [Calls -> SUBSET Entries]
    BY <1>0, <1>3, WatchType DEF EvalAccepted, RestOK
  <2> QED BY <1>0, <1>3, <2>2, <2>3 DEF EvalAccepted, RestOK
<1>4. CASE EvalLost(c)
  <2>1. kind[c] \in {"set", "del"}
    BY <1>0, <1>4, Zenon DEF EvalLost, ControlOK, CallShape
  <2>2. ControlOK'
    BY <1>0, <1>4, <2>1, AttemptFailedKeeps DEF EvalLost
  <2>3. Script(c) \in Commands
    BY <2>1, RequestType
  <2> QED BY <1>0, <1>4, <2>2, <2>3 DEF EvalLost, Lose, RestOK
<1>5. CASE WaitReplied(c)
  <2>1. kind[c] \in {"set", "del"}
    BY <1>0, <1>5, Zenon DEF WaitReplied, ControlOK, CallShape
  <2>2. ControlOK'
    BY <1>0, <1>5, <2>1, RequestDoneKeeps DEF WaitReplied
  <2>3. short' \subseteq Calls
    BY <1>0, <1>5 DEF WaitReplied, RestOK
  <2> QED BY <1>0, <1>5, <2>2, <2>3 DEF WaitReplied, Quiet, RestOK
<1>6. CASE WaitLost(c)
  <2>1. kind[c] \in {"set", "del"}
    BY <1>0, <1>6, Zenon DEF WaitLost, ControlOK, CallShape
  <2>2. ControlOK'
    BY <1>0, <1>6, <2>1, AttemptFailedKeeps DEF WaitLost
  <2> QED BY <1>0, <1>6, <2>2 DEF WaitLost, Lose, RestOK
<1>7. CASE Wake(c)
  <2>1. kind[c] \in {"set", "del"}
    BY <1>0, <1>7, Zenon DEF Wake, ControlOK, CallShape
  <2>2. ControlOK'
    BY <1>0, <1>7, <2>1, GotoKeeps DEF Wake, Returned
  <2> QED BY <1>0, <1>7, <2>2 DEF Wake, Quiet, RestOK
<1>8. CASE Exec(c)
  <2>1. ControlOK'
    BY <1>0, <1>8, GotoKeeps DEF Exec, Returned
  <2>2. window' \in [Calls -> SUBSET Entries]
    BY <1>0, <1>8, WatchType DEF Exec, RestOK
  <2> QED BY <1>0, <1>8, <2>1, <2>2 DEF Exec, RestOK
<1>9. CASE ExecLost(c)
  <2>1. ControlOK'
    BY <1>0, <1>9, GotoKeeps DEF ExecLost, Returned
  <2>2. Transaction(c) \in Commands
    BY <1>9, TransactionType DEF ExecLost
  <2> QED BY <1>0, <1>9, <2>1, <2>2 DEF ExecLost, Lose, RestOK
<1>10. CASE HGetAll(c) \/ DirectGet(c)
  <2>1. kind[c] = "get" /\ pc[c] \in {"hgetall", "get"}
    BY <1>0, <1>10, Zenon DEF HGetAll, DirectGet, ControlOK, CallShape
  <2>2. PICK at \in Returned \cup {"get"} : Goto(c, at)
    BY <1>10, Zenon DEF HGetAll, DirectGet, Answer, Returned
  <2>3. ControlOK'
    BY <1>0, <2>1, <2>2, GotoKeeps
  <2>4. db[reqs[c][1].key] \in Entries
    BY <1>0, <2>1, GetKeyType, Zenon DEF StoreTypeOK
  <2>5. got' \in [Calls -> Entries]
    BY <1>0, <1>10, <2>4, Zenon DEF HGetAll, DirectGet, Answer, RestOK
  <2> QED BY <1>0, <1>10, <2>3, <2>5, Zenon DEF HGetAll, DirectGet, Answer, Quiet, RestOK
<1>11. CASE HGetAllLost(c) \/ DirectGetLost(c)
  <2>1. kind[c] = "get"
    BY <1>0, <1>11, Zenon DEF HGetAllLost, DirectGetLost, ControlOK, CallShape
  <2>2. ControlOK'
    BY <1>0, <1>11, <2>1, GotoKeeps DEF HGetAllLost, DirectGetLost, Returned
  <2> QED BY <1>0, <1>11, <2>2 DEF HGetAllLost, DirectGetLost, Lose, RestOK
<1> QED BY <1>1, <1>2, <1>3, <1>4, <1>5, <1>6, <1>7, <1>8, <1>9, <1>10, <1>11, Zenon DEF Step

\* Every step keeps the invariant.
LEMMA NextInv == Inv /\ [Next]_vars => Inv'
<1> SUFFICES ASSUME Inv, [Next]_vars PROVE Inv'
  OBVIOUS
<1>0. ControlOK /\ RestOK /\ StoreTypeOK /\ StoreTypeOK' /\ db' \in [Keys -> Entries]
  BY InvParts, StepStoreType DEF StoreTypeOK
<1>1. ControlOK' /\ RestOK'
  <2>1. ASSUME NEW c \in Calls, Call(c) \/ Step(c) PROVE ControlOK' /\ RestOK'
    BY <1>0, <2>1, CallKeeps, StepKeeps
  <2>2. ASSUME NEW m \in orphans, OrphanExecuted(m) PROVE ControlOK' /\ RestOK'
    <3>1. ControlOK'
      BY <1>0, <2>2, Zenon DEF OrphanExecuted, callVars, ControlOK, CallShape
    <3>2. window' \in [Calls -> SUBSET Entries]
      BY <1>0, <2>2, WatchType DEF OrphanExecuted, RestOK
    <3> QED BY <1>0, <2>2, <3>1, <3>2 DEF OrphanExecuted, callVars, RestOK
  <2>3. CASE UNCHANGED vars
    BY <1>0, <2>3, Zenon DEF vars, ControlOK, CallShape, RestOK
  <2> QED BY <2>1, <2>2, <2>3 DEF Next, Finished
<1>2. Inv' <=> StoreTypeOK' /\ ControlOK' /\ RestOK'
  BY InvParts, Zenon DEF Inv, TypeOK, StoreTypeOK, ControlOK, RestOK
<1> QED BY <1>0, <1>1, <1>2

\* Every variable of the Redis store always has its type, so that in particular
\* no hash ever has version 0, which the scripts read as "do not compare".
THEOREM TypeCorrect == Spec => []TypeOK
<1>1. Inv => TypeOK
  BY DEF Inv
<1> QED BY InitInv, NextInv, <1>1, PTL DEF Spec

-----------------------------------------------------------------------------
(***************************************************************************)
(* What the callers of the Redis store may conclude from its answers, for  *)
(* every set of calls, keys and requests.  The properties speak of calls   *)
(* that have returned; the invariant says, of every call at every point,   *)
(* which of its requests have taken effect and which still may.            *)
(***************************************************************************)
Writing(c) == kind[c] \in {"set", "del"}
Replacing(c) == kind[c] \in {"multi", "binding"}
Took(c, i) == <<c, i>> \in effects

\* The requests of one call.
CallEffects(c) ==
  /\ ~Writing(c) => idx[c] = 1
  /\ ~Writing(c) /\ ~Replacing(c) => \A i \in Nat : ~Took(c, i)
  /\ Writing(c) => \A i \in Nat \ {0} : /\ i < idx[c] => Took(c, i)
                                        /\ i > idx[c] => ~Took(c, i)
  /\ pc[c] = "wait" => Took(c, idx[c])
  /\ pc[c] = "ok" /\ kind[c] # "get" => Took(c, idx[c])
  /\ pc[c] = "ok" /\ Writing(c) => idx[c] = Len(reqs[c])
  /\ pc[c] \in {"start", "attempt", "sleep", "exec", "err"} /\ c \notin faulted
       => ~Took(c, idx[c])

\* An orphan belongs to a call that met a failure, and to a request that the
\* call has reached.
OrphanOK(m) ==
  /\ m.call \in faulted
  /\ m.op # "multi" => Writing(m.call) /\ m.req <= idx[m.call]
  /\ m.op = "multi" => Replacing(m.call)

EffectsInv ==
  /\ \A c \in Calls : CallEffects(c)
  /\ \A m \in orphans : OrphanOK(m)

-----------------------------------------------------------------------------
\* A step of call c, or of an orphan of c, as another call sees it.
Frame(c) ==
  \A d \in Calls \ {c} :
    /\ pc'[d] = pc[d] /\ kind'[d] = kind[d] /\ idx'[d] = idx[d] /\ reqs'[d] = reqs[d]
    /\ d \in faulted' <=> d \in faulted
    /\ \A i \in Nat : Took(d, i)' <=> Took(d, i)

\* A step of one call keeps what is known of another.
LEMMA OtherCall ==
  ASSUME Inv, NEW c \in Calls, NEW d \in Calls, d # c, Frame(c), CallEffects(d)
  PROVE  CallEffects(d)'
<1>1. /\ pc'[d] = pc[d] /\ kind'[d] = kind[d] /\ idx'[d] = idx[d] /\ reqs'[d] = reqs[d]
      /\ d \in faulted' <=> d \in faulted
      /\ \A i \in Nat : Took(d, i)' <=> Took(d, i)
  BY DEF Frame
<1>2. idx[d] \in Nat
  BY DEF Inv, TypeOK
<1>3. Took(d, idx[d])' <=> Took(d, idx[d])
  BY <1>1, <1>2 DEF Took
<1>4. Writing(d)' <=> Writing(d)
  BY <1>1 DEF Writing
<1>5. Replacing(d)' <=> Replacing(d)
  BY <1>1 DEF Replacing
<1>6. \A i \in Nat : <<d, i>> \in effects' <=> <<d, i>> \in effects
  BY <1>1 DEF Took
<1> QED BY <1>1, <1>2, <1>4, <1>5, <1>6, Zenon DEF CallEffects, Took

\* Moving a call on changes nothing else of it, and no other call.
LEMMA GotoFrame ==
  ASSUME Inv, NEW c \in Calls, NEW at, Goto(c, at)
  PROVE  /\ pc'[c] = at /\ UNCHANGED <<kind, reqs, idx>>
         /\ \A d \in Calls \ {c} : pc'[d] = pc[d]
BY DEF Inv, TypeOK, Goto

\* A failed attempt leads to a retry or to an error.
LEMMA AttemptFailedFrame ==
  ASSUME Inv, NEW c \in Calls, AttemptFailed(c)
  PROVE  /\ pc'[c] \in {"sleep", "err"} /\ UNCHANGED <<kind, reqs, idx>>
         /\ \A d \in Calls \ {c} : pc'[d] = pc[d]
BY GotoFrame, Zenon DEF Inv, TypeOK, AttemptFailed

\* The request is done: the call has returned nil, or works on the next one.
LEMMA RequestDoneFrame ==
  ASSUME Inv, NEW c \in Calls, Writing(c), RequestDone(c)
  PROVE  /\ UNCHANGED <<kind, reqs>>
         /\ \/ pc'[c] = "ok" /\ idx'[c] = idx[c] /\ idx[c] = Len(reqs[c])
            \/ pc'[c] = "start" /\ idx'[c] = idx[c] + 1
         /\ \A d \in Calls \ {c} : pc'[d] = pc[d] /\ idx'[d] = idx[d]
<1>1. idx[c] \in 1 .. Len(reqs[c]) /\ Len(reqs[c]) \in Nat
  BY DEF Inv, CallShape, Writing
<1>2. CASE idx[c] < Len(reqs[c])
  BY <1>2 DEF RequestDone, Inv, TypeOK
<1>3. CASE ~(idx[c] < Len(reqs[c]))
  <2>1. Goto(c, "ok") /\ idx[c] = Len(reqs[c])
    BY <1>1, <1>3 DEF RequestDone
  <2> QED BY <2>1, GotoFrame
<1> QED BY <1>2, <1>3, Zenon
-----------------------------------------------------------------------------
\* A method call that begins keeps the record of effects true.
LEMMA CallBegins ==
  ASSUME Inv, EffectsInv, NEW c \in Calls, Call(c)
  PROVE  EffectsInv'
<1>1. /\ pc[c] = "idle" /\ UNCHANGED <<idx, orphans, effects, faulted>>
      /\ \E method, list, at :
           /\ pc' = [pc EXCEPT ![c] = at]
           /\ kind' = [kind EXCEPT ![c] = method]
           /\ reqs' = [reqs EXCEPT ![c] = list]
           /\ \/ method \in {"set", "del"} /\ at = "start"
              \/ method \in {"multi", "binding"} /\ at \in {"exec", "err"}
              \/ method = "get" /\ at = "hgetall"
  BY Zenon DEF Call, CallSet, CallDelete, CallMulti, CallGet, CallBinding, CallBindingNoKey, Begin
<1>2. PICK method, list, at :
        /\ pc' = [pc EXCEPT ![c] = at]
        /\ kind' = [kind EXCEPT ![c] = method]
        /\ reqs' = [reqs EXCEPT ![c] = list]
        /\ \/ method \in {"set", "del"} /\ at = "start"
           \/ method \in {"multi", "binding"} /\ at \in {"exec", "err"}
           \/ method = "get" /\ at = "hgetall"
  BY <1>1, Zenon
<1>3. kind[c] = "none" /\ idx[c] = 1
  BY <1>1, Zenon DEF Inv, CallShape
<1>4. \A i \in Nat : ~Took(c, i)
  BY <1>3 DEF EffectsInv, CallEffects, Writing, Replacing
<1>5. Frame(c)
  BY <1>1, <1>2 DEF Frame, Took, Inv, TypeOK
<1>6. pc'[c] = at /\ kind'[c] = method /\ idx'[c] = 1
  BY <1>1, <1>2, <1>3, Zenon DEF Inv, TypeOK
<1>7. \A i \in Nat : <<c, i>> \notin effects'
  BY <1>1, <1>4 DEF Took
<1>8. CallEffects(c)'
  BY <1>2, <1>6, <1>7 DEF CallEffects, Writing, Replacing, Took
<1>9. ASSUME NEW d \in Calls PROVE CallEffects(d)'
  BY <1>5, <1>8, <1>9, OtherCall DEF EffectsInv
<1>10. ASSUME NEW m \in orphans PROVE OrphanOK(m)'
  <2>1. OrphanOK(m) /\ m.call \in Calls
    BY CommandFields, Zenon DEF EffectsInv, Inv, TypeOK
  <2>2. m.call # c
    BY <1>3, <2>1 DEF OrphanOK, Writing, Replacing
  <2>3. kind'[m.call] = kind[m.call] /\ idx'[m.call] = idx[m.call]
    BY <1>5, <2>1, <2>2 DEF Frame
  <2> QED BY <1>1, <2>1, <2>3, Zenon DEF OrphanOK, Writing, Replacing
<1> QED BY <1>1, <1>9, <1>10 DEF EffectsInv

\* The orphans there are stay in order while their call goes on.
LEMMA OrphansKeep ==
  ASSUME Inv, EffectsInv, NEW c \in Calls, Frame(c), kind' = kind,
         idx'[c] \in Nat, idx[c] <= idx'[c], faulted \subseteq faulted'
  PROVE  \A m \in orphans : OrphanOK(m)'
<1> SUFFICES ASSUME NEW m \in orphans PROVE OrphanOK(m)'
  OBVIOUS
<1>1. OrphanOK(m) /\ m \in Commands /\ m.call \in Calls
  BY CommandFields, Zenon DEF EffectsInv, Inv, TypeOK
<1>2. idx[m.call] \in Nat /\ idx[m.call] <= idx'[m.call] /\ idx'[m.call] \in Nat
  <2>1. idx[m.call] \in Nat
    BY <1>1, Zenon DEF Inv, TypeOK
  <2>2. CASE m.call = c
    BY <2>1, <2>2
  <2>3. CASE m.call # c
    <3>1. idx'[m.call] = idx[m.call]
      BY <1>1, <2>3 DEF Frame
    <3> QED BY <2>1, <3>1
  <2> QED BY <2>2, <2>3
<1>3. m.op # "multi" => m.req \in Nat
  BY <1>1, CommandFields
<1>4. m.op # "multi" => m.req <= idx'[m.call]
  BY <1>1, <1>2, <1>3 DEF OrphanOK
<1> QED BY <1>1, <1>4 DEF OrphanOK, Writing, Replacing

\* A step that changes only where the call is, and perhaps loses a command.
LEMMA PlaceKeeps ==
  ASSUME Inv, EffectsInv, NEW c \in Calls, UNCHANGED <<kind, reqs, idx, effects>>,
         \A d \in Calls \ {c} : pc'[d] = pc[d],
         \/ pc'[c] \in {"attempt", "sleep", "err"} /\ pc[c] \in {"start", "attempt", "sleep", "exec"}
         \/ pc'[c] \in {"sleep", "err"} /\ c \in faulted'
         \/ pc'[c] \in {"get", "ok", "err"} /\ kind[c] = "get",
         \/ faulted' = faulted /\ orphans' = orphans
         \/ faulted' = faulted \cup {c} /\ orphans' = orphans
         \/ \E m \in Commands : /\ faulted' = faulted \cup {c} /\ orphans' = orphans \cup {m}
                                /\ m.call = c /\ OrphanOK(m)'
  PROVE  EffectsInv'
<1>1. Frame(c)
  BY DEF Frame, Took
<1>2. faulted \subseteq faulted' /\ (c \notin faulted' => c \notin faulted)
  OBVIOUS
<1>3. CallEffects(c)
  BY DEF EffectsInv
<1>4. \A i : Took(c, i)' <=> <<c, i>> \in effects
  BY DEF Took
<1>5. idx[c] \in Nat
  BY Zenon DEF Inv, TypeOK
<1>6. CallEffects(c)'
  BY <1>2, <1>3, <1>5, Zenon DEF CallEffects, Writing, Replacing, Took
<1>7. \A m \in orphans : OrphanOK(m)'
  BY <1>1, <1>2, <1>5, OrphansKeep
<1>8. \A m \in orphans' : OrphanOK(m)'
  BY <1>7
<1>9. \A d \in Calls : CallEffects(d)'
  BY <1>1, <1>6, OtherCall DEF EffectsInv
<1> QED BY <1>8, <1>9 DEF EffectsInv
\* The server runs a script of the call's own request, or its transaction, and
\* the call goes on.
LEMMA EvalAcceptedKeeps ==
  ASSUME Inv, EffectsInv, NEW c \in Calls, EvalAccepted(c)
  PROVE  EffectsInv'
<1>1. Writing(c) /\ pc[c] = "attempt"
  BY Zenon DEF EvalAccepted, Inv, CallShape, Writing
<1>2. effects' = effects \cup {<<c, idx[c]>>} /\ UNCHANGED <<orphans, faulted>>
  BY Zenon DEF EvalAccepted, RunScript, Script
<1>3. idx[c] \in Nat \ {0}
  BY DEF Inv, TypeOK
<1>4. /\ UNCHANGED <<kind, reqs>>
      /\ \/ pc'[c] = "wait" /\ idx'[c] = idx[c]
         \/ pc'[c] = "ok" /\ idx'[c] = idx[c] /\ idx[c] = Len(reqs[c])
         \/ pc'[c] = "start" /\ idx'[c] = idx[c] + 1
      /\ \A d \in Calls \ {c} : pc'[d] = pc[d] /\ idx'[d] = idx[d]
  BY <1>1, GotoFrame, RequestDoneFrame DEF EvalAccepted
<1>5. Frame(c)
  BY <1>2, <1>4 DEF Frame, Took
<1>6. \A i \in Nat \ {0} : /\ i < idx[c] => <<c, i>> \in effects
                           /\ i > idx[c] => <<c, i>> \notin effects
  BY <1>1, Zenon DEF EffectsInv, CallEffects, Took
<1>7. \A i \in Nat \ {0} : /\ i <= idx[c] => <<c, i>> \in effects'
                           /\ i > idx[c] => <<c, i>> \notin effects'
  BY <1>2, <1>3, <1>6
<1>8. kind'[c] \in {"set", "del"} /\ reqs'[c] = reqs[c]
  BY <1>1, <1>4 DEF Writing
<1>9. CallEffects(c)'
  BY <1>3, <1>4, <1>7, <1>8 DEF CallEffects, Writing, Replacing, Took
<1>10. \A m \in orphans' : OrphanOK(m)'
  BY <1>2, <1>3, <1>4, <1>5, OrphansKeep
<1>11. \A d \in Calls : CallEffects(d)'
  BY <1>5, <1>9, OtherCall DEF EffectsInv
<1> QED BY <1>10, <1>11 DEF EffectsInv

\* The answer to WAIT keeps the record of effects true.
LEMMA WaitRepliedKeeps ==
  ASSUME Inv, EffectsInv, NEW c \in Calls, WaitReplied(c)
  PROVE  EffectsInv'
<1>1. Writing(c) /\ pc[c] = "wait"
  BY DEF WaitReplied, Inv, CallShape, Writing
<1>2. UNCHANGED <<effects, orphans, faulted>>
  BY DEF WaitReplied, Quiet
<1>3. idx[c] \in Nat \ {0}
  BY DEF Inv, TypeOK
<1>4. /\ UNCHANGED <<kind, reqs>>
      /\ \/ pc'[c] = "ok" /\ idx'[c] = idx[c] /\ idx[c] = Len(reqs[c])
         \/ pc'[c] = "start" /\ idx'[c] = idx[c] + 1
      /\ \A d \in Calls \ {c} : pc'[d] = pc[d] /\ idx'[d] = idx[d]
  BY <1>1, RequestDoneFrame, Zenon DEF WaitReplied
<1>5. Frame(c)
  BY <1>2, <1>4 DEF Frame, Took
<1>6. \A i \in Nat \ {0} : /\ i <= idx[c] => <<c, i>> \in effects'
                           /\ i > idx[c] => <<c, i>> \notin effects'
  <2>1. <<c, idx[c]>> \in effects
    BY <1>1 DEF EffectsInv, CallEffects, Took
  <2>2. \A i \in Nat \ {0} : /\ i < idx[c] => <<c, i>> \in effects
                             /\ i > idx[c] => <<c, i>> \notin effects
    BY <1>1, Zenon DEF EffectsInv, CallEffects, Took
  <2>3. \A i \in Nat : i <= idx[c] => i < idx[c] \/ i = idx[c]
    BY <1>3
  <2> QED BY <1>2, <2>1, <2>2, <2>3
<1>7. kind'[c] \in {"set", "del"} /\ reqs'[c] = reqs[c]
  BY <1>1, <1>4 DEF Writing
<1>8. CallEffects(c)'
  BY <1>3, <1>4, <1>6, <1>7 DEF CallEffects, Writing, Replacing, Took
<1>9. \A m \in orphans' : OrphanOK(m)'
  BY <1>2, <1>3, <1>4, <1>5, OrphansKeep
<1>10. \A d \in Calls : CallEffects(d)'
  BY <1>5, <1>8, OtherCall DEF EffectsInv
<1> QED BY <1>9, <1>10 DEF EffectsInv

\* The answer to EXEC keeps the record of effects true.
LEMMA ExecKeeps ==
  ASSUME Inv, EffectsInv, NEW c \in Calls, Exec(c)
  PROVE  EffectsInv'
<1>1. Replacing(c) /\ ~Writing(c) /\ idx[c] = 1
  BY Zenon DEF Exec, Inv, CallShape, Writing, Replacing, EffectsInv, CallEffects
<1>2. effects' = effects \cup {<<c, 1>>} /\ UNCHANGED <<orphans, faulted>>
  BY DEF Exec, RunMulti, Transaction
<1>3. /\ UNCHANGED <<kind, reqs, idx>> /\ pc'[c] = "ok"
      /\ \A d \in Calls \ {c} : pc'[d] = pc[d]
  BY GotoFrame DEF Exec
<1>4. Frame(c)
  BY <1>2, <1>3 DEF Frame, Took
<1>5. CallEffects(c)'
  BY <1>1, <1>2, <1>3, Zenon DEF CallEffects, Writing, Replacing, Took
<1>6. \A m \in orphans' : OrphanOK(m)'
  BY <1>1, <1>2, <1>3, <1>4, OrphansKeep
<1>7. \A d \in Calls : CallEffects(d)'
  BY <1>4, <1>5, OtherCall DEF EffectsInv
<1> QED BY <1>6, <1>7 DEF EffectsInv

\* The server runs an orphan.
LEMMA OrphanKeeps ==
  ASSUME Inv, EffectsInv, NEW m \in orphans, OrphanExecuted(m)
  PROVE  EffectsInv'
<1> DEFINE c == m.call
<1>1. m \in Commands /\ c \in Calls /\ OrphanOK(m)
  BY CommandFields, Zenon DEF Inv, TypeOK, EffectsInv
<1>2. orphans' \subseteq orphans /\ UNCHANGED <<pc, kind, reqs, idx, faulted>>
  BY DEF OrphanExecuted, callVars
<1>3. \/ effects' = effects
      \/ m.op = "multi" /\ effects' = effects \cup {<<c, 1>>}
      \/ m.op # "multi" /\ effects' = effects \cup {<<c, m.req>>}
  BY Zenon DEF OrphanExecuted, RunMulti, RunScript, histVars
<1>4. idx[c] \in Nat \ {0}
  BY <1>1 DEF Inv, TypeOK
<1>5. Frame(c)
  BY <1>1, <1>2, <1>3 DEF Frame, Took
<1>6. CallEffects(c) /\ c \in faulted
  BY <1>1 DEF EffectsInv, OrphanOK
<1>7. CASE effects' = effects
  BY <1>2, <1>6, <1>7, Zenon DEF CallEffects, Writing, Replacing, Took, EffectsInv, OrphanOK
<1>8. CASE effects' # effects
  <2>1. PICK r \in Nat : effects' = effects \cup {<<c, r>>} /\ (Writing(c) => r <= idx[c])
    BY <1>1, <1>3, <1>8, CommandFields, Zenon DEF OrphanOK, Writing, Replacing
  <2>2. Writing(c) \/ Replacing(c)
    BY <1>1 DEF OrphanOK
  <2>3. \A i \in Nat : <<c, i>> \in effects' <=> <<c, i>> \in effects \/ i = r
    BY <2>1
  <2>4. Writing(c) => \A i \in Nat \ {0} : /\ i < idx[c] => <<c, i>> \in effects'
                                           /\ i > idx[c] => <<c, i>> \notin effects'
    BY <1>4, <1>6, <2>1, <2>3, SMTT(20) DEF CallEffects, Took
  <2>5. effects \subseteq effects'
    BY <2>1
  <2>6. CallEffects(c)'
    BY <1>2, <1>4, <1>6, <2>2, <2>4, <2>5, Zenon DEF CallEffects, Writing, Replacing, Took
  <2>7. \A n \in orphans' : OrphanOK(n)'
    BY <1>1, <1>2, <1>4, <1>5, OrphansKeep
  <2>8. \A d \in Calls : CallEffects(d)'
    BY <1>1, <1>5, <2>6, OtherCall DEF EffectsInv
  <2> QED BY <2>7, <2>8 DEF EffectsInv
<1> QED BY <1>7, <1>8
\* A step of a running call keeps the record of effects true.
LEMMA StepKeepsEffects ==
  ASSUME Inv, EffectsInv, NEW c \in Calls, Step(c)
  PROVE  EffectsInv'
<1>1. CASE StartRequest(c)
  <2>1. pc[c] = "start" /\ UNCHANGED <<effects, faulted, orphans>>
    BY <1>1 DEF StartRequest, Quiet
  <2>2. PICK at \in {"attempt", "err"} : Goto(c, at)
    BY <1>1 DEF StartRequest
  <2> QED BY <2>1, <2>2, GotoFrame, PlaceKeeps
<1>2. CASE RejectArguments(c) \/ EvalRefused(c)
  <2>1. pc[c] = "attempt" /\ AttemptFailed(c) /\ UNCHANGED <<effects, faulted, orphans>>
    BY <1>2 DEF RejectArguments, EvalRefused, Quiet
  <2> QED BY <2>1, AttemptFailedFrame, PlaceKeeps
<1>3. CASE EvalAccepted(c)
  BY <1>3, EvalAcceptedKeeps
<1>4. CASE EvalLost(c)
  <2>1. /\ pc[c] = "attempt" /\ AttemptFailed(c) /\ effects' = effects
        /\ faulted' = faulted \cup {c} /\ orphans' = orphans \cup {Script(c)}
    BY <1>4 DEF EvalLost, Lose
  <2>2. Writing(c)
    BY <2>1 DEF Inv, CallShape, Writing
  <2>3. Script(c) \in Commands /\ Script(c).call = c /\ Script(c).op # "multi" /\ Script(c).req = idx[c]
    BY <2>2, RequestType DEF Writing
  <2>4. UNCHANGED <<kind, reqs, idx>> /\ idx[c] \in Nat
    BY <2>1, AttemptFailedFrame, Zenon DEF Inv, TypeOK
  <2> DEFINE s == Script(c)
  <2>5. PICK m \in Commands : /\ m = s /\ m.call = c /\ m.op # "multi" /\ m.req = idx[c]
    BY <2>3
  <2>6. OrphanOK(m)'
    BY <2>1, <2>2, <2>4, <2>5 DEF OrphanOK, Writing
  <2>7. orphans' = orphans \cup {m}
    BY <2>1, <2>5
  <2> QED BY <2>1, <2>5, <2>6, <2>7, AttemptFailedFrame, PlaceKeeps, Zenon
<1>5. CASE WaitReplied(c)
  BY <1>5, WaitRepliedKeeps
<1>6. CASE WaitLost(c)
  <2>1. /\ AttemptFailed(c) /\ effects' = effects
        /\ faulted' = faulted \cup {c} /\ orphans' = orphans
    BY <1>6 DEF WaitLost, Lose
  <2> QED BY <2>1, AttemptFailedFrame, PlaceKeeps
<1>7. CASE Wake(c)
  <2>1. pc[c] = "sleep" /\ UNCHANGED <<effects, faulted, orphans>>
    BY <1>7 DEF Wake, Quiet
  <2>2. PICK at \in {"attempt", "err"} : Goto(c, at)
    BY <1>7 DEF Wake
  <2> QED BY <2>1, <2>2, GotoFrame, PlaceKeeps, Zenon
<1>8. CASE Exec(c)
  BY <1>8, ExecKeeps
<1>9. CASE ExecLost(c)
  <2>1. /\ pc[c] = "exec" /\ Goto(c, "err") /\ effects' = effects
        /\ faulted' = faulted \cup {c} /\ orphans' = orphans \cup {Transaction(c)}
    BY <1>9 DEF ExecLost, Lose
  <2>2. PICK m \in Commands : m = Transaction(c) /\ m.op = "multi" /\ m.call = c
    BY <2>1, TransactionType, Zenon DEF Transaction
  <2>3. Replacing(c) /\ kind' = kind
    BY <2>1, GotoFrame, Zenon DEF Inv, CallShape, Replacing
  <2>4. OrphanOK(m)'
    BY <2>1, <2>2, <2>3 DEF OrphanOK, Replacing
  <2>5. orphans' = orphans \cup {m}
    BY <2>1, <2>2
  <2> QED BY <2>1, <2>2, <2>4, <2>5, GotoFrame, PlaceKeeps
<1>10. CASE HGetAll(c) \/ DirectGet(c)
  <2>1. kind[c] = "get" /\ UNCHANGED <<effects, faulted, orphans>>
    BY <1>10, Zenon DEF HGetAll, DirectGet, Answer, Quiet, Inv, CallShape
  <2>2. PICK at \in {"get", "ok", "err"} : Goto(c, at)
    BY <1>10, Zenon DEF HGetAll, DirectGet, Answer
  <2> QED BY <2>1, <2>2, GotoFrame, PlaceKeeps
<1>11. CASE HGetAllLost(c) \/ DirectGetLost(c)
  <2>1. /\ kind[c] = "get" /\ effects' = effects
        /\ faulted' = faulted \cup {c} /\ orphans' = orphans
    BY <1>11, Zenon DEF HGetAllLost, DirectGetLost, Lose, Inv, CallShape
  <2>2. PICK at \in {"get", "err"} : Goto(c, at)
    BY <1>11 DEF HGetAllLost, DirectGetLost
  <2> QED BY <2>1, <2>2, GotoFrame, PlaceKeeps
<1> QED BY <1>1, <1>2, <1>3, <1>4, <1>5, <1>6, <1>7, <1>8, <1>9, <1>10, <1>11, Zenon DEF Step

\* Every step keeps the record of effects true.
LEMMA NextEffects == Inv /\ EffectsInv /\ [Next]_vars => EffectsInv'
<1> SUFFICES ASSUME Inv, EffectsInv, [Next]_vars PROVE EffectsInv'
  OBVIOUS
<1>1. CASE UNCHANGED vars
  BY <1>1, Zenon DEF vars, EffectsInv, CallEffects, OrphanOK, Writing, Replacing, Took
<1> QED BY <1>1, CallBegins, StepKeepsEffects, OrphanKeeps DEF Next, Finished

\* The record of effects is true initially.
LEMMA InitEffects == Init => EffectsInv
BY DEF Init, EffectsInv, CallEffects, Writing, Replacing, Took

-----------------------------------------------------------------------------
\* A call that returns nil has taken effect, with all its requests: no retry,
\* refusal or lost reply makes SetWithRetries, BulkSet, BulkDelete or Multi
\* return nil too early.
THEOREM RedisSuccessIsReal == Spec => []SuccessIsReal
<1>1. Inv /\ EffectsInv => SuccessIsReal
  <2> SUFFICES ASSUME Inv, EffectsInv, NEW c \in Calls, pc[c] = "ok"
               PROVE  SuccessIsReal!(c)
    BY DEF SuccessIsReal
  <2>1. CASE Writing(c)
    <3>1. reqs[c] \in Seq(Requests) /\ idx[c] = Len(reqs[c]) /\ kind[c] # "get"
      BY <2>1, Zenon DEF Inv, CallShape, EffectsInv, CallEffects, Writing
    <3>2. DOMAIN reqs[c] = 1 .. idx[c]
      BY <3>1
    <3>3. <<c, idx[c]>> \in effects /\ \A i \in Nat \ {0} : i < idx[c] => <<c, i>> \in effects
      BY <2>1, <3>1, Zenon DEF EffectsInv, CallEffects, Took
    <3>4. idx[c] \in Nat
      BY DEF Inv, TypeOK
    <3>5. \A i \in DOMAIN reqs[c] : <<c, i>> \in effects
      BY <3>2, <3>3, <3>4
    <3> QED BY <2>1, <3>5 DEF Writing
  <2>2. CASE Replacing(c)
    <3>1. <<c, 1>> \in effects
      BY <2>2, Zenon DEF EffectsInv, CallEffects, Writing, Replacing, Took
    <3> QED BY <2>2, <3>1 DEF Replacing
  <2>3. CASE ~Writing(c) /\ ~Replacing(c)
    BY <2>3 DEF Writing, Replacing
  <2> QED BY <2>1, <2>2, <2>3
<1> QED BY InitInv, NextInv, InitEffects, NextEffects, <1>1, PTL DEF Spec

\* BulkSet and BulkDelete take effect on a prefix of their list, orphans of
\* failed attempts included.
THEOREM RedisBulkIsAPrefix == Spec => []BulkIsAPrefix
<1>1. Inv /\ EffectsInv => BulkIsAPrefix
  <2> SUFFICES ASSUME Inv, EffectsInv, NEW c \in Calls, kind[c] \in {"set", "del"},
                      NEW i \in DOMAIN reqs[c]
               PROVE  /\ i < idx[c] => <<c, i>> \in effects
                      /\ i > idx[c] => <<c, i>> \notin effects
    BY DEF BulkIsAPrefix
  <2>1. i \in Nat \ {0}
    BY DEF Inv, CallShape
  <2> QED BY <2>1, Zenon DEF EffectsInv, CallEffects, Writing, Took
<1> QED BY InitInv, NextInv, InitEffects, NextEffects, <1>1, PTL DEF Spec

\* A call that fails without having met a connection failure has not applied
\* the request it failed on, so its caller may trust the error.
THEOREM RedisCleanErrorHasNoEffect == Spec => []CleanErrorHasNoEffect
<1>1. EffectsInv => CleanErrorHasNoEffect
  BY DEF EffectsInv, CallEffects, CleanErrorHasNoEffect, Took
<1> QED BY InitInv, NextInv, InitEffects, NextEffects, <1>1, PTL DEF Spec
-----------------------------------------------------------------------------
\* A Get in progress has seen what its key holds.
Seen(c) ==
  /\ pc[c] \in {"hgetall", "get"} => db[reqs[c][1].key] \in window[c]
  /\ kind[c] = "get" /\ pc[c] = "ok" => got[c] \in window[c]

\* What a Redis call answers is true: of what it has done, of what it has not,
\* and of the prefix of its list it stopped behind.
THEOREM RedisAnswersAreTrue == Spec => []AnswersAreTrue
BY RedisSuccessIsReal, RedisCleanErrorHasNoEffect, RedisBulkIsAPrefix, PTL DEF AnswersAreTrue

WindowInv == \A c \in Calls : Seen(c)

\* The server runs a command, and the calls but c stay where they are.
LEMMA WatchKeeps ==
  ASSUME Inv, WindowInv, NEW c \in Calls, Watch, UNCHANGED <<kind, reqs, got>>,
         \A d \in Calls \ {c} : pc'[d] = pc[d],
         pc'[c] = pc[c] \/ (kind[c] # "get" /\ pc'[c] \notin {"hgetall", "get"})
  PROVE  WindowInv'
<1> SUFFICES ASSUME NEW d \in Calls PROVE Seen(d)'
  BY DEF WindowInv
<1>1. /\ window \in [Calls -> SUBSET Entries]
      /\ window'[d] = IF pc[d] \in {"hgetall", "get"}
                      THEN window[d] \cup {db'[reqs[d][1].key]} ELSE window[d]
  BY Zenon DEF Inv, TypeOK, Watch
<1>2. Seen(d)
  BY DEF WindowInv
<1> QED BY <1>1, <1>2, Zenon DEF Seen

\* The store is left alone.
LEMMA QuietKeeps ==
  ASSUME Inv, WindowInv, NEW c \in Calls, UNCHANGED <<db, window, reqs, kind>>,
         \A d \in Calls \ {c} : pc'[d] = pc[d] /\ got'[d] = got[d],
         \/ kind[c] # "get" /\ pc'[c] \notin {"hgetall", "get"}
         \/ pc[c] \in {"hgetall", "get"} /\ pc'[c] \in {"get", "err"}
         \/ pc[c] \in {"hgetall", "get"} /\ pc'[c] = "ok" /\ got'[c] = db[reqs[c][1].key]
  PROVE  WindowInv'
<1> SUFFICES ASSUME NEW d \in Calls PROVE Seen(d)'
  BY Zenon DEF WindowInv
<1>1. Seen(d)
  BY DEF WindowInv
<1> QED BY <1>1, Zenon DEF Seen

\* A method call that begins keeps the record of what a Get may answer.
LEMMA CallKeepsWindow ==
  ASSUME Inv, WindowInv, NEW c \in Calls, Call(c)
  PROVE  WindowInv'
<1>1. CASE CallGet(c)
  <2>1. PICK k \in GetKeys : /\ Begin(c, "get", <<[key |-> k]>>, "hgetall")
                             /\ window' = [window EXCEPT ![c] = {db[k]}]
    BY <1>1, Zenon DEF CallGet
  <2> SUFFICES ASSUME NEW d \in Calls PROVE Seen(d)'
    BY DEF WindowInv
  <2>2. Seen(d) /\ UNCHANGED <<db, got>>
    BY <2>1 DEF WindowInv, Begin
  <2>3. CASE d = c
    <3>1. pc'[c] = "hgetall" /\ reqs'[c] = <<[key |-> k]>> /\ window'[c] = {db[k]}
      BY <2>1, Zenon DEF Begin, Inv, TypeOK
    <3>2. reqs'[c][1].key = k
      BY <3>1
    <3> QED BY <2>2, <2>3, <3>1, <3>2, Zenon DEF Seen
  <2>4. CASE d # c
    <3>1. pc'[d] = pc[d] /\ kind'[d] = kind[d] /\ reqs'[d] = reqs[d] /\ window'[d] = window[d]
      BY <2>1, <2>4, Zenon DEF Begin, Inv, TypeOK
    <3> QED BY <2>2, <3>1, Zenon DEF Seen
  <2> QED BY <2>3, <2>4
<1>2. CASE CallSet(c) \/ CallDelete(c) \/ CallMulti(c) \/ CallBinding(c) \/ CallBindingNoKey(c)
  <2>1. UNCHANGED window /\ \E method, list, at : /\ Begin(c, method, list, at)
                                                 /\ at \in {"start", "exec", "err"}
    BY <1>2, Zenon DEF CallSet, CallDelete, CallMulti, CallBinding, CallBindingNoKey
  <2>2. PICK method, list, at : Begin(c, method, list, at) /\ at \in {"start", "exec", "err"}
    BY <2>1
  <2> SUFFICES ASSUME NEW d \in Calls PROVE Seen(d)'
    BY DEF WindowInv
  <2>3. Seen(d) /\ UNCHANGED <<db, got, window>>
    BY <2>1, <2>2, Zenon DEF WindowInv, Begin
  <2>4. CASE d = c
    <3>1. pc'[c] \in {"start", "exec", "err"}
      BY <2>2, Zenon DEF Begin, Inv, TypeOK
    <3> QED BY <2>4, <3>1 DEF Seen
  <2>5. CASE d # c
    <3>1. pc'[d] = pc[d] /\ kind'[d] = kind[d] /\ reqs'[d] = reqs[d]
      BY <2>2, <2>5, Zenon DEF Begin, Inv, TypeOK
    <3> QED BY <2>3, <3>1, Zenon DEF Seen
  <2> QED BY <2>4, <2>5
<1> QED BY <1>1, <1>2 DEF Call

\* A step of a running call keeps the record of what a Get may answer.
LEMMA StepKeepsWindow ==
  ASSUME Inv, WindowInv, NEW c \in Calls, Step(c)
  PROVE  WindowInv'
<1>1. CASE StartRequest(c) \/ Wake(c)
  <2>1. kind[c] # "get" /\ UNCHANGED <<db, window, got>>
    BY <1>1, Zenon DEF StartRequest, Wake, Quiet, Inv, CallShape
  <2>2. PICK at \in {"attempt", "err"} : Goto(c, at)
    BY <1>1 DEF StartRequest, Wake
  <2> QED BY <2>1, <2>2, GotoFrame, QuietKeeps
<1>2. CASE RejectArguments(c) \/ EvalRefused(c) \/ EvalLost(c) \/ WaitLost(c)
  <2>1. kind[c] # "get" /\ AttemptFailed(c) /\ UNCHANGED <<db, window, got>>
    BY <1>2, Zenon DEF RejectArguments, EvalRefused, EvalLost, WaitLost, Quiet, Lose, Inv, CallShape
  <2> QED BY <2>1, AttemptFailedFrame, QuietKeeps, Zenon
<1>3. CASE EvalAccepted(c)
  <2>1. Writing(c) /\ kind[c] # "get"
    BY <1>3, Zenon DEF EvalAccepted, Inv, CallShape, Writing
  <2> QED BY <1>3, <2>1, GotoFrame, RequestDoneFrame, WatchKeeps, SMTT(20) DEF EvalAccepted
<1>4. CASE WaitReplied(c)
  <2>1. Writing(c) /\ kind[c] # "get" /\ RequestDone(c) /\ UNCHANGED <<db, window, got>>
    BY <1>4, Zenon DEF WaitReplied, Quiet, Inv, CallShape, Writing
  <2> QED BY <2>1, RequestDoneFrame, QuietKeeps, Zenon
<1>5. CASE Exec(c)
  <2>1. kind[c] # "get"
    BY <1>5 DEF Exec, Inv, CallShape
  <2> QED BY <1>5, <2>1, GotoFrame, WatchKeeps DEF Exec
<1>6. CASE ExecLost(c)
  <2>1. kind[c] # "get" /\ Goto(c, "err") /\ UNCHANGED <<db, window, got>>
    BY <1>6, Zenon DEF ExecLost, Lose, Inv, CallShape
  <2> QED BY <2>1, GotoFrame, QuietKeeps
<1>7. CASE HGetAll(c) \/ DirectGet(c)
  <2>1. pc[c] \in {"hgetall", "get"} /\ UNCHANGED <<db, window>>
    BY <1>7, Zenon DEF HGetAll, DirectGet, Answer, Quiet
  <2>2. \/ Goto(c, "ok") /\ got' = [got EXCEPT ![c] = db[reqs[c][1].key]]
        \/ (Goto(c, "get") \/ Goto(c, "err")) /\ got' = got
    BY <1>7, Zenon DEF HGetAll, DirectGet, Answer
  <2>3. got \in [Calls -> Entries]
    BY DEF Inv, TypeOK
  <2>4. CASE Goto(c, "ok") /\ got' = [got EXCEPT ![c] = db[reqs[c][1].key]]
    <3>1. got'[c] = db[reqs[c][1].key] /\ \A d \in Calls \ {c} : got'[d] = got[d]
      BY <2>3, <2>4
    <3> QED BY <2>1, <2>4, <3>1, GotoFrame, QuietKeeps
  <2>5. CASE (Goto(c, "get") \/ Goto(c, "err")) /\ got' = got
    BY <2>1, <2>5, GotoFrame, QuietKeeps
  <2> QED BY <2>2, <2>4, <2>5, Zenon
<1>8. CASE HGetAllLost(c) \/ DirectGetLost(c)
  <2>1. pc[c] \in {"hgetall", "get"} /\ UNCHANGED <<db, window, got>>
    BY <1>8 DEF HGetAllLost, DirectGetLost, Lose
  <2>2. PICK at \in {"get", "err"} : Goto(c, at)
    BY <1>8 DEF HGetAllLost, DirectGetLost
  <2> QED BY <2>1, <2>2, GotoFrame, QuietKeeps, Zenon
<1> QED BY <1>1, <1>2, <1>3, <1>4, <1>5, <1>6, <1>7, <1>8, SMTT(20) DEF Step

\* Every step keeps the record of what a Get may answer.
LEMMA NextWindow == Inv /\ WindowInv /\ [Next]_vars => WindowInv'
<1> SUFFICES ASSUME Inv, WindowInv, [Next]_vars PROVE WindowInv'
  OBVIOUS
<1>1. ASSUME NEW m \in orphans, OrphanExecuted(m) PROVE WindowInv'
  <2>1. m.call \in Calls
    BY CommandFields DEF Inv, TypeOK
  <2> QED BY <1>1, <2>1, WatchKeeps DEF OrphanExecuted, callVars
<1>2. CASE UNCHANGED vars
  BY <1>2, Zenon DEF vars, WindowInv, Seen
<1> QED BY <1>1, <1>2, CallKeepsWindow, StepKeepsWindow DEF Next, Finished

\* Get answers what its key held at some moment of the call, although it may
\* take two commands (HGETALL, then GET) with other calls in between.
THEOREM RedisGetAnswersWhatWasHeld == Spec => []GetAnswersWhatWasHeld
<1>1. Init => WindowInv
  BY DEF Init, WindowInv, Seen
<1>2. WindowInv => GetAnswersWhatWasHeld
  BY DEF WindowInv, Seen, GetAnswersWhatWasHeld
<1> QED BY InitInv, NextInv, NextWindow, <1>1, <1>2, PTL DEF Spec

-----------------------------------------------------------------------------
(***************************************************************************)
(* What EveryCallReturns rests on.  Fairness is left to the model checker; *)
(* what keeps a fair call from running for ever is proved here: the loop   *)
(* counter of SetWithRetries and DeleteWithRetries stays within the        *)
(* threshold, and no step takes a call back.                               *)
(***************************************************************************)
\* The places of one attempt, in the order in which a call goes through them.
Place(p) == IF p \in {"start", "sleep", "exec", "hgetall"} THEN 0
            ELSE IF p \in {"attempt", "get"} THEN 1
            ELSE IF p = "wait" THEN 2 ELSE 3

\* The call goes on: to its next request, to its next attempt at this one, or
\* to a later place of this attempt.
MovesOn(c) ==
  \/ idx'[c] > idx[c]
  \/ idx'[c] = idx[c] /\ att'[c] > att[c]
  \/ idx'[c] = idx[c] /\ att'[c] = att[c] /\ Place(pc'[c]) > Place(pc[c])

Stays(c) ==
  /\ pc'[c] = pc[c] /\ kind'[c] = kind[c] /\ reqs'[c] = reqs[c]
  /\ idx'[c] = idx[c] /\ att'[c] = att[c]

\* A call has one request of its list in hand, and has failed at it at most as
\* often as the threshold of that request says.
AttemptsAreBounded ==
  \A c \in Calls : Writing(c) => /\ idx[c] <= Len(reqs[c])
                                 /\ att[c] = 0 \/ att[c] <= Req(c).options.threshold

\* The counter at the places of the loop.
CounterOK(c) ==
  Writing(c) =>
    /\ att[c] = 0 \/ att[c] <= Req(c).options.threshold
    /\ pc[c] = "start" => att[c] = 0
    /\ pc[c] \in {"attempt", "wait"} => att[c] = 0 \/ MoreAttempts(Req(c).options, att[c])

CounterInv == \A c \in Calls : CounterOK(c)

\* A step of call c: the call goes on with its counter in order, and the other
\* calls stay where they are.
Advances(c) == MovesOn(c) /\ CounterOK(c)' /\ \A d \in Calls \ {c} : Stays(d)

\* A call that stays where it is keeps its counter in order.
LEMMA StaysInOrder ==
  ASSUME NEW c \in Calls, CounterOK(c), Stays(c)
  PROVE  CounterOK(c)'
BY DEF CounterOK, Stays, Writing, Req, MoreAttempts

\* Going to a later place of the attempt.
LEMMA GotoAdvances ==
  ASSUME Inv, NEW c \in Calls, CounterOK(c), NEW at, Goto(c, at), Place(at) > Place(pc[c]),
         Writing(c) /\ at \in {"attempt", "wait"} =>
           att[c] = 0 \/ MoreAttempts(Req(c).options, att[c])
  PROVE  Advances(c)
<1>1. /\ pc'[c] = at /\ UNCHANGED <<kind, reqs, idx, att>>
      /\ \A d \in Calls \ {c} : pc'[d] = pc[d]
  BY DEF Inv, TypeOK, Goto
<1>2. MovesOn(c)
  BY <1>1 DEF MovesOn
<1>3. \A d \in Calls \ {c} : Stays(d)
  BY <1>1 DEF Stays
<1>4. at # "start"
  BY SMTT(20) DEF Place, Inv, TypeOK, Returned
<1>5. CounterOK(c)'
  BY <1>1, <1>4 DEF CounterOK, Writing, Req, MoreAttempts
<1> QED BY <1>2, <1>3, <1>5, Zenon DEF Advances

\* A failed attempt is counted if another may follow, and ends the call if not.
LEMMA FailureAdvances ==
  ASSUME Inv, NEW c \in Calls, CounterOK(c), AttemptFailed(c), Writing(c),
         pc[c] \in {"attempt", "wait"}
  PROVE  Advances(c)
<1>1. CASE Retries(Req(c).options)
  <2>1. /\ pc' = [pc EXCEPT ![c] = "sleep"]
        /\ att' = [att EXCEPT ![c] = @ + 1]
        /\ UNCHANGED <<kind, reqs, idx>>
    BY <1>1, Zenon DEF AttemptFailed
  <2>2. /\ pc'[c] = "sleep" /\ att'[c] = att[c] + 1 /\ att[c] \in Nat
        /\ \A d \in Calls \ {c} : pc'[d] = pc[d] /\ att'[d] = att[d]
    BY <2>1 DEF Inv, TypeOK
  <2>3. MovesOn(c)
    BY <2>1, <2>2 DEF MovesOn
  <2>4. \A d \in Calls \ {c} : Stays(d)
    BY <2>1, <2>2 DEF Stays
  <2>5. Req(c).options.threshold \in Int
    BY RequestType, Zenon DEF Writing, Requests, Options
  <2>6. att[c] + 1 <= Req(c).options.threshold
    BY <1>1, <2>2, <2>5 DEF CounterOK, Retries, MoreAttempts
  <2>7. CounterOK(c)'
    BY <2>1, <2>2, <2>6 DEF CounterOK, Writing, Req
  <2> QED BY <2>3, <2>4, <2>7, Zenon DEF Advances
<1>2. CASE ~Retries(Req(c).options)
  <2>1. Goto(c, "err")
    BY <1>2, Zenon DEF AttemptFailed
  <2>2. Place("err") > Place(pc[c])
    BY DEF Place
  <2> QED BY <2>1, <2>2, GotoAdvances
<1> QED BY <1>1, <1>2, Zenon

\* A request that is done takes the call to the next one, or ends it.
LEMMA DoneAdvances ==
  ASSUME Inv, NEW c \in Calls, CounterOK(c), RequestDone(c), Writing(c),
         pc[c] \in {"attempt", "wait"}
  PROVE  Advances(c)
<1>1. CASE idx[c] < Len(reqs[c])
  <2>1. /\ pc' = [pc EXCEPT ![c] = "start"]
        /\ idx' = [idx EXCEPT ![c] = @ + 1]
        /\ att' = [att EXCEPT ![c] = 0]
        /\ UNCHANGED <<kind, reqs>>
    BY <1>1, Zenon DEF RequestDone
  <2>2. /\ pc'[c] = "start" /\ att'[c] = 0 /\ idx'[c] = idx[c] + 1 /\ idx[c] \in Nat
        /\ \A d \in Calls \ {c} : pc'[d] = pc[d] /\ att'[d] = att[d] /\ idx'[d] = idx[d]
    BY <2>1 DEF Inv, TypeOK
  <2>3. MovesOn(c)
    BY <2>2 DEF MovesOn
  <2>4. \A d \in Calls \ {c} : Stays(d)
    BY <2>1, <2>2 DEF Stays
  <2>5. CounterOK(c)'
    BY <2>2, Zenon DEF CounterOK
  <2> QED BY <2>3, <2>4, <2>5, Zenon DEF Advances
<1>2. CASE ~(idx[c] < Len(reqs[c]))
  <2>1. Goto(c, "ok")
    BY <1>2, Zenon DEF RequestDone
  <2>2. Place("ok") > Place(pc[c])
    BY DEF Place
  <2> QED BY <2>1, <2>2, GotoAdvances
<1> QED BY <1>1, <1>2, Zenon

\* Every step of a call takes it on.
LEMMA StepAdvances == ASSUME Inv, NEW c \in Calls, CounterOK(c), Step(c) PROVE Advances(c)
<1> DEFINE opts == Req(c).options
<1>0. pc[c] \in {"start", "attempt", "wait", "sleep"} => Writing(c)
  BY Zenon DEF Inv, CallShape, Writing
<1>1. CASE StartRequest(c)
  <2>1. pc[c] = "start" /\ \E at \in {"attempt", "err"} : Goto(c, at)
    BY <1>1 DEF StartRequest
  <2>2. att[c] = 0
    BY <1>0, <2>1, Zenon DEF CounterOK
  <2>3. \A at \in {"attempt", "err"} : Place(at) > Place(pc[c])
    BY <2>1 DEF Place
  <2> QED BY <2>1, <2>2, <2>3, GotoAdvances, Zenon
<1>2. CASE RejectArguments(c) \/ EvalRefused(c) \/ EvalLost(c) \/ WaitLost(c)
  <2>1. pc[c] \in {"attempt", "wait"} /\ AttemptFailed(c)
    BY <1>2, Zenon DEF RejectArguments, EvalRefused, EvalLost, WaitLost
  <2> QED BY <1>0, <2>1, FailureAdvances, Zenon
<1>3. CASE EvalAccepted(c)
  <2>1. pc[c] = "attempt" /\ (Goto(c, "wait") \/ RequestDone(c))
    BY <1>3, Zenon DEF EvalAccepted
  <2>2. Writing(c) /\ (att[c] = 0 \/ MoreAttempts(opts, att[c]))
    BY <1>0, <2>1, Zenon DEF CounterOK
  <2>3. Place("wait") > Place(pc[c])
    BY <2>1 DEF Place
  <2> QED BY <2>1, <2>2, <2>3, GotoAdvances, DoneAdvances, Zenon
<1>4. CASE WaitReplied(c)
  BY <1>0, <1>4, DoneAdvances, Zenon DEF WaitReplied
<1>5. CASE Wake(c)
  <2>1. /\ pc[c] = "sleep"
        /\ \/ Goto(c, "attempt") /\ MoreAttempts(opts, att[c])
           \/ Goto(c, "err")
    BY <1>5, Zenon DEF Wake
  <2>2. Place("attempt") > Place(pc[c]) /\ Place("err") > Place(pc[c])
    BY <2>1 DEF Place
  <2> QED BY <2>1, <2>2, GotoAdvances, Zenon
<1>6. CASE Exec(c) \/ ExecLost(c) \/ HGetAll(c) \/ HGetAllLost(c) \/ DirectGet(c) \/ DirectGetLost(c)
  <2>1. \E at \in {"get", "ok", "err"} :
          Goto(c, at) /\ pc[c] \in {"exec", "hgetall", "get"} /\ (at = "get" => pc[c] = "hgetall")
    BY <1>6, Zenon DEF Exec, ExecLost, HGetAll, HGetAllLost, DirectGet, DirectGetLost, Answer
  <2>2. PICK at \in {"get", "ok", "err"} :
          Goto(c, at) /\ pc[c] \in {"exec", "hgetall", "get"} /\ (at = "get" => pc[c] = "hgetall")
    BY <2>1
  <2>3. Place(at) > Place(pc[c])
    BY <2>2 DEF Place
  <2> QED BY <2>2, <2>3, GotoAdvances, Zenon
<1> QED BY <1>1, <1>2, <1>3, <1>4, <1>5, <1>6, Zenon DEF Step

\* What a step of the system does to a call.
LEMMA NextAdvances ==
  ASSUME Inv, CounterInv, [Next]_vars
  PROVE  /\ CounterInv'
         /\ \A c \in Calls : pc[c] # "idle" => MovesOn(c) \/ Stays(c)
<1>1. ASSUME NEW c \in Calls, Step(c)
      PROVE  CounterInv' /\ \A d \in Calls : MovesOn(d) \/ Stays(d)
  <2>1. Advances(c)
    BY <1>1, StepAdvances, Zenon DEF CounterInv
  <2> QED BY <2>1, StaysInOrder, Zenon DEF Advances, CounterInv
<1>2. ASSUME NEW c \in Calls, Call(c)
      PROVE  CounterInv' /\ \A d \in Calls : pc[d] # "idle" => Stays(d)
  <2>0. PICK method, list, at : Begin(c, method, list, at)
    BY <1>2, Zenon DEF Call, CallSet, CallDelete, CallMulti, CallGet, CallBinding, CallBindingNoKey
  <2>1. /\ pc[c] = "idle" /\ UNCHANGED <<idx, att>>
        /\ pc' = [pc EXCEPT ![c] = at]
        /\ kind' = [kind EXCEPT ![c] = method]
        /\ reqs' = [reqs EXCEPT ![c] = list]
    BY <2>0, Zenon DEF Begin
  <2>2. \A d \in Calls \ {c} : Stays(d)
    BY <2>1 DEF Stays, Inv, TypeOK
  <2>3. att'[c] = 0
    BY <2>1, Zenon DEF Inv, CallShape
  <2>4. CounterOK(c)'
    BY <2>3, Zenon DEF CounterOK
  <2> QED BY <2>1, <2>2, <2>4, StaysInOrder, Zenon DEF CounterInv
<1>3. ASSUME UNCHANGED callVars
      PROVE  CounterInv' /\ \A d \in Calls : Stays(d)
  <2>1. \A d \in Calls : Stays(d)
    BY <1>3, Zenon DEF callVars, Stays
  <2> QED BY <2>1, StaysInOrder, Zenon DEF CounterInv
<1>4. (\E m \in orphans : OrphanExecuted(m)) \/ Finished \/ UNCHANGED vars => UNCHANGED callVars
  BY Zenon DEF OrphanExecuted, Finished, vars, callVars
<1> QED BY <1>1, <1>2, <1>3, <1>4, Zenon DEF Next

\* The loop counters are in order initially.
LEMMA InitCounters == Init => CounterInv
BY Zenon DEF Init, CounterInv, CounterOK

\* No call works past the end of its list, and none fails at a request more
\* often than the threshold of that request says, whatever the server and the
\* connections do (the loops of SetWithRetries and DeleteWithRetries).
THEOREM RedisAttemptsAreBounded == Spec => []AttemptsAreBounded
<1>1. Inv /\ CounterInv => AttemptsAreBounded
  BY DEF CounterInv, CounterOK, AttemptsAreBounded, Inv, CallShape, Writing
<1> QED BY InitInv, NextInv, InitCounters, NextAdvances, <1>1, PTL DEF Spec

\* A call that has begun never goes back: a step that concerns it takes it to
\* its next request, to its next attempt or further in this one, and no step of
\* another call or of an orphan moves it.  With the bounds above, each call has
\* finitely many steps left: this is why every call that is scheduled returns.
THEOREM RedisCallsMoveOn ==
  Spec => [][\A c \in Calls : pc[c] # "idle" => MovesOn(c) \/ Stays(c)]_vars
<1> DEFINE Onward == \A c \in Calls : pc[c] # "idle" => MovesOn(c) \/ Stays(c)
<1>1. Inv /\ CounterInv /\ [Next]_vars => [Onward]_vars
  BY NextAdvances
<1> QED BY InitInv, NextInv, InitCounters, NextAdvances, <1>1, PTL DEF Spec

-----------------------------------------------------------------------------
\* The refinement.  Store is what the mapping shows of the database.
Shown == [k \in Keys |-> View(db[k])]

\* What the versioned store shows for each form of entry.
LEMMA ViewOfEntry ==
  ASSUME NEW e \in Entries
  PROVE  /\ e.type = "none" => View(e) = VS!Absent
         /\ e.type \in {"string", "fields"} => View(e) = VS!Plain(e.data)
         /\ e.type = "hash" =>
              View(e) = [kind |-> "versioned", data |-> e.data, version |-> e.version]
         /\ View(e).kind = "versioned" <=> e.type = "hash"
BY EntryFields DEF View, VS!Absent, VS!Plain

\* What is shown of an entry is an entry of the versioned store.
LEMMA ViewType == ASSUME NEW e \in Entries PROVE View(e) \in VS!Entries
<1>1. CASE e.type = "none"
  BY <1>1, ViewOfEntry DEF VS!Entries
<1>2. CASE e.type \in {"string", "fields"}
  BY <1>2, ViewOfEntry, EntryFields DEF VS!Entries, VS!Plain
<1>3. CASE e.type = "hash"
  BY <1>3, ViewOfEntry, EntryFields DEF VS!Entries, VS!Versioned
<1> QED BY <1>1, <1>2, <1>3, EntryFields

\* A key is versioned in the abstract store exactly if Redis holds a hash.
LEMMA ShownIsVersioned ==
  ASSUME StoreTypeOK, NEW k \in Keys
  PROVE  /\ VS!IsVersioned(k) <=> db[k].type = "hash"
         /\ db[k].type = "hash" => Shown[k].version = db[k].version
<1>1. db[k] \in Entries /\ Shown[k] = View(db[k])
  BY DEF StoreTypeOK, Shown
<1> QED BY <1>1, ViewOfEntry DEF VS!IsVersioned

\* The life of a version ends in both stores together.
LEMMA ErasMatch ==
  ASSUME StoreTypeOK, NEW K, EndEras(K)
  PROVE  VS!EndEras(K)
BY ShownIsVersioned DEF EndEras, VS!EndEras

\* An accepted script that names a version of a hash names the current one.
LEMMA WonMatches ==
  ASSUME StoreTypeOK, NEW m \in Commands, m.op # "multi", RunScript(m)
  PROVE  /\ VS!Consume({m.key})
         /\ \A w \in wins' \ wins : w.key = m.key /\ VS!IsVersioned(m.key)
                                    /\ w.version = Shown[m.key].version
<1>1. m.key \in Keys /\ db[m.key] \in Entries
  BY CommandFields DEF StoreTypeOK
<1>2. CASE m.ver # 0 /\ db[m.key].type = "hash"
  <2> DEFINE w == [key |-> m.key, era |-> era[m.key], version |-> m.ver,
                   command |-> <<m.call, m.req, m.att>>]
  <2>1. wins' = wins \cup {w}
    BY <1>2, Zenon DEF RunScript, Won
  <2>2. m.ver = db[m.key].version
    BY <1>2 DEF RunScript, Accepts
  <2>3. VS!IsVersioned(m.key) /\ Shown[m.key].version = m.ver
    BY <1>1, <1>2, <2>2, ShownIsVersioned, Zenon
  <2>4. w.key = m.key /\ w.era = era[m.key] /\ w.version = m.ver
    OBVIOUS
  <2> HIDE DEF w
  <2>5. \A v \in wins' \ wins : v = w
    BY <2>1, Zenon
  <2>6. VS!Consume({m.key})
    BY <2>1, <2>3, <2>4, <2>5, Zenon DEF VS!Consume
  <2> QED BY <2>3, <2>4, <2>5, <2>6, Zenon
<1>3. CASE ~(m.ver # 0 /\ db[m.key].type = "hash")
  BY <1>3, Zenon DEF RunScript, Won, VS!Consume
<1> QED BY <1>2, <1>3

\* A script's execution is a step of the versioned store.
LEMMA ScriptRefines ==
  ASSUME StoreTypeOK, NEW m \in Commands, m.op # "multi", RunScript(m)
  PROVE  VS!Next
<1>1. m.key \in Keys /\ db[m.key] \in Entries /\ m.call \in Values /\ m.op \in {"set", "del"}
  BY CommandFields DEF StoreTypeOK, Values
<1>2. VS!Consume({m.key})
  BY WonMatches
<1>3. CASE m.op = "set"
  <2>1. db' = [db EXCEPT ![m.key] = AfterSet(m.key, m.call)]
    BY <1>3 DEF RunScript
  <2> DEFINE n == VS!LastVersion(m.key) + 1
             e == [kind |-> "versioned", data |-> m.call, version |-> n]
  <2>0. /\ VS!LastVersion(m.key) = IF db[m.key].type = "hash" THEN db[m.key].version ELSE 0
        /\ VS!IsVersioned(m.key) => VS!LastVersion(m.key) = Shown[m.key].version
    <3>1. VS!LastVersion(m.key) = IF db[m.key].type = "hash" THEN db[m.key].version ELSE 1 - 1
      BY <1>1, ShownIsVersioned, Zenon DEF VS!LastVersion, Shown
    <3>2. VS!IsVersioned(m.key) => VS!LastVersion(m.key) = Shown[m.key].version
      BY Zenon DEF VS!LastVersion, Shown
    <3> QED BY <3>1, <3>2
  <2>2. View(AfterSet(m.key, m.call)) = e
    <3>1. n = IF db[m.key].type = "hash" THEN db[m.key].version + 1 ELSE 1
      BY <2>0
    <3> HIDE DEF n
    <3> QED BY <3>1 DEF AfterSet, Hash, View
  <2>6. e \in VS!Versioned /\ e.version = n /\ n \in Nat /\ n - VS!LastVersion(m.key) \in {1}
    <3>1. VS!LastVersion(m.key) \in Nat
      BY <1>1, <2>0, EntryFields
    <3>2. n \in Nat /\ n - VS!LastVersion(m.key) = 1
      BY <3>1
    <3> HIDE DEF n
    <3> QED BY <1>1, <3>2 DEF VS!Versioned
  <2> HIDE DEF e
  <2>3. Shown' = [Shown EXCEPT ![m.key] = e]
    BY <1>1, <2>1, <2>2, Zenon DEF Shown, StoreTypeOK
  <2>4. era' = era
    BY <1>3 DEF RunScript, EndEras, StoreTypeOK
  <2>5. VS!Write({m.key})
    <3>1. VS!Frame({m.key})
      BY <2>3, Zenon DEF VS!Frame, Shown
    <3>2. Shown'[m.key] = e
      BY <1>1, <2>3 DEF Shown
    <3>3. ASSUME NEW w \in wins' \ wins
          PROVE  w.version \in Shown[w.key].version .. Shown'[w.key].version - 1
      <4>1. w.key = m.key /\ VS!IsVersioned(m.key) /\ w.version = Shown[m.key].version
        BY <3>3, WonMatches, Zenon
      <4>2. Shown'[w.key].version = n /\ n = w.version + 1 /\ n \in Nat /\ w.version \in Nat
        <5>1. VS!LastVersion(m.key) = w.version /\ db[m.key].type = "hash"
          BY <1>1, <2>0, <4>1, ShownIsVersioned, Zenon
        <5>2. w.version \in Nat
          BY <1>1, <2>0, <5>1, EntryFields
        <5> QED BY <2>6, <3>2, <4>1, <5>1, <5>2, Zenon
      <4> HIDE DEF n
      <4> QED BY <4>1, <4>2
    <3>4. \A k \in {m.key} : /\ Shown'[k] \in VS!Versioned
                             /\ Shown'[k].version - VS!LastVersion(k) \in {1}
      BY <2>6, <3>2, Zenon
    <3> QED BY <1>2, <2>4, <3>1, <3>3, <3>4, Zenon DEF VS!Write, Shown
  <2> QED BY <1>1, <2>5 DEF VS!Next
<1>4. CASE m.op = "del"
  <2>1. db' = [db EXCEPT ![m.key] = None] /\ EndEras({m.key})
    BY <1>4 DEF RunScript
  <2>2. View(None) = VS!Absent
    BY EntryForms, ViewOfEntry DEF None
  <2>3. Shown' = [Shown EXCEPT ![m.key] = VS!Absent]
    BY <1>1, <2>1, <2>2, Zenon DEF Shown, StoreTypeOK
  <2>4. VS!Remove({m.key})
    <3>1. VS!Frame({m.key})
      BY <2>3, Zenon DEF VS!Frame, Shown
    <3>2. Shown'[m.key] = VS!Absent
      BY <1>1, <2>3 DEF Shown
    <3>3. \A w \in wins' \ wins : w.version = Shown[w.key].version
      BY WonMatches, Zenon
    <3> QED BY <1>2, <2>1, <3>1, <3>2, <3>3, ErasMatch, Zenon DEF VS!Remove, Shown
  <2> QED BY <1>1, <2>4 DEF VS!Next
<1> QED BY <1>1, <1>3, <1>4

\* A transaction's execution is a step of the versioned store.
LEMMA MultiRefines ==
  ASSUME StoreTypeOK, NEW m \in Commands, m.op = "multi", RunMulti(m)
  PROVE  VS!Next
<1> DEFINE K == Touched(m.ops) \cap Keys
<1>1. m.call \in Values
  BY CommandFields DEF Values
<1>2. \A k \in Keys : db'[k] = IF k \in K THEN AfterMulti(m.ops, k, m.call) ELSE db[k]
  BY DEF RunMulti
<1>3. \A k \in K : Shown'[k] = VS!Absent \/ \E v \in Values : Shown'[k] = VS!Plain(v)
  <2> SUFFICES ASSUME NEW k \in K
               PROVE  Shown'[k] = VS!Absent \/ Shown'[k] = VS!Plain(m.call)
    BY <1>1
  <2>1. Shown'[k] = View(AfterMulti(m.ops, k, m.call))
    BY <1>2 DEF Shown
  <2>2. AfterMulti(m.ops, k, m.call) = Str(m.call) \/ AfterMulti(m.ops, k, m.call) = None
    BY DEF AfterMulti
  <2> QED BY <2>1, <2>2 DEF View, Str, None, VS!Absent, VS!Plain
<1>4. Shown' = [k \in Keys |-> IF k \in K THEN Shown'[k] ELSE Shown[k]]
  BY <1>2 DEF Shown
<1>5. EndEras(K)
  BY DEF RunMulti, EndEras
<1>6. VS!Replace(K)
  BY <1>3, <1>4, <1>5, ErasMatch, Zenon DEF VS!Replace, VS!Frame, Shown, RunMulti
<1> QED BY <1>6 DEF VS!Next

\* Every step is a step of the versioned store or leaves it unchanged.
LEMMA StepRefines == Inv /\ [Next]_vars => [VS!Next]_(VS!vars)
<1> SUFFICES ASSUME Inv, [Next]_vars PROVE [VS!Next]_(VS!vars)
  OBVIOUS
<1>1. StoreTypeOK /\ ServerStep
  BY InvParts, StepRunsOneCommand
<1>2. CASE UNCHANGED <<db, era, wins, effects>>
  BY <1>2 DEF VS!vars
<1> QED BY <1>1, <1>2, ScriptRefines, MultiRefines DEF ServerStep

\* Initial states map to initial states of the versioned store.
LEMMA InitRefines == Init => VS!Init
<1> SUFFICES ASSUME Init PROVE VS!Init
  OBVIOUS
<1>1. db \in [Keys -> Entries]
  BY ConstantsAssumption DEF Init
<1>2. [k \in Keys |-> View(db[k])] \in [Keys -> VS!Entries]
  BY <1>1, ViewType
<1> QED BY <1>2 DEF Init, VS!Init

\* The Redis store implements the versioned store: concurrent calls, retries,
\* orphaned commands, transactions and the output binding change the database
\* only in the ways the versioned store allows.
THEOREM RedisImplementsVersionedStore == Spec => ImplementsVersionedStore
BY InitInv, NextInv, InitRefines, StepRefines, PTL
   DEF Spec, ImplementsVersionedStore, VS!Spec

\* The proofs about the versioned store, about the Redis store.
VSP == INSTANCE VersionedStoreProofs
         WITH FirstVersion <- 1, Batch <- {1}, store <- [k \in Keys |-> View(db[k])]

\* First write wins: of all set and delete commands that name the same version
\* of a key, whichever calls, retries and orphans they come from, at most one
\* takes effect in a life of the key's version counter.
THEOREM RedisFirstWriteWins == Spec => []FirstWriteWins
<1>1. VS!Init => VSP!Init
  BY Zenon DEF VS!Init, VSP!Init, VS!Entries, VSP!Entries, VS!Absent, VSP!Absent, VS!Versioned,
       VSP!Versioned
<1>2. VS!Next => VSP!Next
  <2>1. ASSUME NEW K \in SUBSET Keys PROVE VS!Remove(K) => VSP!Remove(K)
    BY Zenon DEF VS!Remove, VSP!Remove, VS!Absent, VSP!Absent, VS!EndEras, VSP!EndEras, VS!Frame,
           VSP!Frame, VS!Consume, VSP!Consume, VS!IsVersioned, VSP!IsVersioned
  <2>2. ASSUME NEW K \in SUBSET Keys PROVE VS!Write(K) => VSP!Write(K)
    BY Zenon DEF VS!Write, VSP!Write, VS!Versioned, VSP!Versioned, VS!LastVersion, VSP!LastVersion,
           VS!Frame, VSP!Frame, VS!Consume, VSP!Consume, VS!IsVersioned, VSP!IsVersioned
  <2>3. ASSUME NEW K \in SUBSET Keys PROVE VS!Replace(K) => VSP!Replace(K)
    BY Zenon DEF VS!Replace, VSP!Replace, VS!Absent, VSP!Absent, VS!Plain, VSP!Plain,
           VS!Frame, VSP!Frame, VS!EndEras, VSP!EndEras, VS!IsVersioned, VSP!IsVersioned
  <2> QED BY <2>1, <2>2, <2>3 DEF VS!Next, VSP!Next
<1>3. VS!Spec => VSP!Spec
  <2>1. [VS!Next]_(VS!vars) => [VSP!Next]_(VSP!vars)
    BY <1>2 DEF VS!vars, VSP!vars
  <2> QED BY <1>1, <2>1, PTL DEF VS!Spec, VSP!Spec
<1>4. VSP!FirstWriteWins => FirstWriteWins
  BY DEF VSP!FirstWriteWins, FirstWriteWins, VS!FirstWriteWins
<1>5. VSP!Spec => []VSP!FirstWriteWins
  <2>1. {1} \subseteq Nat \ {0}
    OBVIOUS
  <2> QED BY <2>1, VSP!FirstWriteWinsHolds
<1>6. Spec => VS!Spec
  BY RedisImplementsVersionedStore DEF ImplementsVersionedStore
<1> QED BY <1>3, <1>4, <1>5, <1>6, PTL

=============================================================================
