---------------------------- MODULE StoresProofs ----------------------------
(***************************************************************************)
(* What callers of the stores without scripts may rely on, for every set   *)
(* of calls, keys and requests: first the stores of PlainStores, then      *)
(* MongoDB.  The two parts have only the constants in common.              *)
(***************************************************************************)
EXTENDS PlainStores, MongoState, TLAPS

Writing(c) == kind[c] \in {"set", "delete"}
Took(c, i) == <<c, i>> \in effects

\* Where a call is fits the method it runs, and the request it works on exists.
Shape(c) ==
  /\ pc[c] = "idle" => kind[c] = "none" /\ idx[c] = 1
  /\ pc[c] \in {"next", "attempt", "sleep"} => Writing(c)
  /\ kind[c] = "none" => pc[c] = "idle"
  /\ Writing(c) => idx[c] \in 1 .. Len(reqs[c]) + 1
  /\ pc[c] \in {"attempt", "sleep"} => idx[c] <= Len(reqs[c])
  /\ pc[c] = "ok" /\ Writing(c) => idx[c] = Len(reqs[c]) + 1

\* Which requests of a call have been performed, at every point of it.
Effects(c) ==
  /\ ~Writing(c) => \A i \in Nat : ~Took(c, i)
  /\ Writing(c) => \A i \in Nat \ {0} : /\ i < idx[c] => Took(c, i)
                                        /\ i > idx[c] => ~Took(c, i)
  /\ pc[c] \in {"next", "attempt", "sleep", "err"} /\ c \notin faulted => ~Took(c, idx[c])

\* An orphan belongs to a call that met a failure, and to a request that the
\* call has reached.
OrphanOK(m) == m.call \in faulted /\ Writing(m.call) /\ m.nr <= idx[m.call]

EffectsInv ==
  /\ \A c \in Calls : Shape(c) /\ Effects(c)
  /\ \A m \in orphans : OrphanOK(m)

\* A tag of Cosmos DB that a command has won is used up, and tags are handed out
\* in increasing order.
TagsInv ==
  /\ which # "cosmosdb" => wins = {}
  /\ which = "cosmosdb" => \A k \in Keys : db[k] # Nothing => db[k].tag <= clock
  /\ \A w \in wins : w.tag <= clock /\ (db[w.key] # Nothing => db[w.key].tag # w.tag)
  /\ FirstWriteWins

Inv == TypeOK /\ EffectsInv /\ TagsInv

-----------------------------------------------------------------------------
\* A call's request and the command it sends.
LEMMA RequestType ==
  ASSUME TypeOK, NEW c \in Calls, Shape(c), pc[c] \in {"attempt", "sleep"}
  PROVE  /\ Request(c) \in Requests /\ Request(c).options.threshold \in Int
         /\ Command(c) \in Commands
         /\ Command(c).call = c /\ Command(c).nr = idx[c]
         /\ Writing(c) /\ idx[c] \in 1 .. Len(reqs[c]) /\ Len(reqs[c]) \in Nat
<1>1. /\ reqs[c] \in Seq(Requests) /\ idx[c] \in 1 .. Len(reqs[c])
      /\ kind[c] \in {"set", "delete"} /\ att[c] \in Nat
  BY DEF TypeOK, Shape, Writing
<1>2. Request(c) \in Requests
  BY <1>1 DEF Request
<1>3. Request(c).key \in Keys /\ Request(c).etag \in ETags /\ Request(c).options.threshold \in Int
  BY <1>2, Zenon DEF Requests, Options
<1>4. Command(c) \in Commands /\ Command(c).call = c /\ Command(c).nr = idx[c]
  BY <1>1, <1>3 DEF Command, Commands
<1> QED BY <1>1, <1>2, <1>3, <1>4 DEF Writing

\* What the server does keeps the types of what it holds, and changes the record
\* of effects by the command's request only.
LEMMA PerformType ==
  ASSUME TypeOK, NEW m \in Commands, Perform(m)
  PROVE  /\ db' \in [Keys -> Held \cup {Nothing}] /\ clock' \in Nat
         /\ wins' \subseteq [key : Keys, tag : Int, command : Calls \X Nat \X Nat]
         /\ effects' \subseteq Calls \X Nat
         /\ effects' = effects \cup {<<m.call, m.nr>>}
<1>1. /\ m.call \in Calls /\ m.nr \in Nat /\ m.att \in Nat /\ m.key \in Keys /\ m.etag \in Int
  BY DEF Commands, ETags, NoETag, BadETag
<1>2. db \in [Keys -> Held \cup {Nothing}] /\ clock \in Nat
  BY DEF TypeOK
<1>3. NextTag(m) \in Nat
  <2>1. CASE Missing(m)
    BY <1>2, <2>1 DEF NextTag
  <2>2. CASE ~Missing(m)
    <3>1. db[m.key] \in Held
      BY <1>1, <1>2, <2>2 DEF Missing
    <3> QED BY <1>2, <2>2, <3>1 DEF NextTag, Held
  <2> QED BY <2>1, <2>2
<1>4. [data |-> m.call, tag |-> NextTag(m)] \in Held
  BY <1>1, <1>3 DEF Held
<1>5. PICK v \in Held \cup {Nothing} : db' = [db EXCEPT ![m.key] = v]
  BY <1>4, Zenon DEF Perform
<1>d. db' \in [Keys -> Held \cup {Nothing}]
  BY <1>2, <1>5, Zenon
<1>e. clock' \in Nat
  BY <1>2 DEF Perform
<1>6. [key |-> m.key, tag |-> m.etag, command |-> <<m.call, m.nr, m.att>>]
        \in [key : Keys, tag : Int, command : Calls \X Nat \X Nat]
  BY <1>1
<1> QED BY <1>1, <1>d, <1>e, <1>6, SMTT(20) DEF Perform, TypeOK

\* What the server does leaves no tag to be won twice.
LEMMA PerformTags ==
  ASSUME TypeOK, TagsInv, NEW m \in Commands, Perform(m), which' = which
  PROVE  TagsInv'
<1>1. /\ m.key \in Keys /\ m.etag \in Int /\ m.op \in {"set", "delete"}
  BY DEF Commands, ETags, NoETag, BadETag
<1>2. db \in [Keys -> Held \cup {Nothing}] /\ clock \in Nat
  BY DEF TypeOK
<1> DEFINE won == [key |-> m.key, tag |-> m.etag, command |-> <<m.call, m.nr, m.att>>]
<1>3. CASE which # "cosmosdb"
  <2>1. ~Profile.ifMatch
    BY <1>3, ConstantsAssumption DEF TypeOK, AllStores, Profile, EtcdProfile, ConsulProfile,
       MemcachedProfile, FirestoreProfile, CassandraProfile
  <2>2. wins' = wins
    BY <2>1, Zenon DEF Perform, IfMatch
  <2> QED BY <1>3, <2>2 DEF TagsInv, FirstWriteWins
<1>4. CASE which = "cosmosdb"
  <2>1. /\ \A k \in Keys : db[k] # Nothing => db[k].tag \in Nat /\ db[k].tag <= clock
        /\ \A w \in wins : w.key \in Keys /\ w.tag \in Int /\ w.tag <= clock
                           /\ (db[w.key] # Nothing => db[w.key].tag # w.tag)
        /\ \A w1, w2 \in wins : w1.key = w2.key /\ w1.tag = w2.tag => w1 = w2
    BY <1>2, <1>4, Zenon DEF TagsInv, FirstWriteWins, Held, TypeOK
  <2>2. /\ \A k \in Keys \ {m.key} : db'[k] = db[k]
        /\ m.op = "set" => db'[m.key] = [data |-> m.call, tag |-> clock + 1] /\ clock' = clock + 1
        /\ m.op = "delete" => db'[m.key] = Nothing /\ clock' = clock
    BY <1>1, <1>2, <1>4, Zenon DEF Perform, NextTag
  <2>3. \/ wins' = wins
        \/ wins' = wins \cup {won} /\ db[m.key] # Nothing /\ db[m.key].tag = m.etag
    BY Zenon DEF Perform, CanAccept, IfMatch, Missing
  <2>4. \A k \in Keys : db'[k] # Nothing => db'[k].tag <= clock'
    BY <1>1, <1>2, <2>1, <2>2
  <2>5. \A w \in wins : w.tag <= clock' /\ (db'[w.key] # Nothing => db'[w.key].tag # w.tag)
    BY <1>1, <1>2, <2>1, <2>2
  <2>6. CASE wins' = wins
    BY <1>4, <2>1, <2>4, <2>5, <2>6, Zenon DEF TagsInv, FirstWriteWins
  <2>7. CASE wins' = wins \cup {won} /\ db[m.key] # Nothing /\ db[m.key].tag = m.etag
    <3>1. won.key = m.key /\ won.tag = m.etag
      OBVIOUS
    <3>2. won.tag <= clock' /\ (db'[won.key] # Nothing => db'[won.key].tag # won.tag)
      BY <1>1, <1>2, <2>1, <2>2, <2>7, <3>1, SMTT(20)
    <3>3. \A w \in wins : ~(w.key = won.key /\ w.tag = won.tag)
      BY <2>1, <2>7, <3>1, Zenon
    <3>4. \A w \in wins' : w \in wins \/ w = won
      BY <2>7
    <3>5. \A w \in wins' : w.tag <= clock' /\ (db'[w.key] # Nothing => db'[w.key].tag # w.tag)
      BY <2>5, <3>2, <3>4, Zenon
    <3>6. \A w1, w2 \in wins' : w1.key = w2.key /\ w1.tag = w2.tag => w1 = w2
      BY <2>1, <3>3, <3>4, Zenon
    <3> QED BY <1>4, <2>4, <3>5, <3>6, Zenon DEF TagsInv, FirstWriteWins
  <2> QED BY <2>3, <2>6, <2>7, Zenon
<1> QED BY <1>3, <1>4

-----------------------------------------------------------------------------
\* A step of call c, or of an orphan of c, as another call sees it.
Frame(c) ==
  \A d \in Calls \ {c} :
    /\ pc'[d] = pc[d] /\ kind'[d] = kind[d] /\ idx'[d] = idx[d] /\ reqs'[d] = reqs[d]
    /\ att'[d] = att[d]
    /\ d \in faulted' <=> d \in faulted
    /\ \A i \in Nat : Took(d, i)' <=> Took(d, i)

\* The types of what belongs to calls.
CallTypes ==
  /\ pc \in [Calls -> {"idle", "next", "attempt", "sleep"} \cup Returned]
  /\ kind \in [Calls -> {"none", "set", "delete", "get"}]
  /\ reqs \in [Calls -> Seq(Requests)]
  /\ idx \in [Calls -> Nat]
  /\ att \in [Calls -> Nat]
  /\ faulted \subseteq Calls

\* The types of what belongs to the server.
ServerTypes ==
  /\ db \in [Keys -> Held \cup {Nothing}] /\ clock \in Nat
  /\ orphans \subseteq Commands
  /\ wins \subseteq [key : Keys, tag : Int, command : Calls \X Nat \X Nat]
  /\ effects \subseteq Calls \X Nat

AttemptsOK(c) == pc[c] = "attempt" /\ att[c] > 0 => att[c] < Request(c).options.threshold

\* The type invariant, part by part.
LEMMA TypeParts ==
  TypeOK <=> which \in Stores /\ CallTypes /\ ServerTypes /\ \A c \in Calls : AttemptsOK(c)
BY Zenon DEF TypeOK, CallTypes, ServerTypes, AttemptsOK

\* What a step of call c has to establish: its own part of the invariant.
LEMMA OneCallKeeps ==
  ASSUME Inv, NEW c \in Calls, Frame(c), which' = which,
         CallTypes', ServerTypes', TagsInv',
         AttemptsOK(c)', Shape(c)', Effects(c)',
         c \in faulted => c \in faulted',
         Writing(c) => Writing(c)' /\ idx'[c] >= idx[c],
         \A m \in orphans' : m \in orphans \/ OrphanOK(m)'
  PROVE  Inv'
<1>1. ASSUME NEW d \in Calls PROVE AttemptsOK(d)' /\ Shape(d)' /\ Effects(d)'
  <2>1. CASE d = c
    BY <2>1
  <2>2. CASE d # c
    <3>1. /\ pc'[d] = pc[d] /\ kind'[d] = kind[d] /\ idx'[d] = idx[d] /\ reqs'[d] = reqs[d]
          /\ att'[d] = att[d] /\ (d \in faulted' <=> d \in faulted)
          /\ \A i \in Nat : Took(d, i)' <=> Took(d, i)
      BY <2>2, Zenon DEF Frame
    <3>2. AttemptsOK(d) /\ Shape(d) /\ Effects(d) /\ idx[d] \in Nat
      BY TypeParts, Zenon DEF Inv, EffectsInv, CallTypes
    <3>3. AttemptsOK(d)'
      BY <3>1, <3>2, Zenon DEF AttemptsOK, Request
    <3>4. Shape(d)'
      BY <3>1, <3>2, Zenon DEF Shape, Writing
    <3>5. Effects(d)'
      BY <3>1, <3>2, Zenon DEF Effects, Writing
    <3> QED BY <3>3, <3>4, <3>5
  <2> QED BY <2>1, <2>2
<1>2. ASSUME NEW m \in orphans, m \in orphans' PROVE OrphanOK(m)'
  <2>1. m \in Commands /\ m.call \in Calls /\ m.nr \in Nat /\ OrphanOK(m)
    BY <1>2, Zenon DEF Inv, TypeOK, EffectsInv, Commands
  <2>2. idx[m.call] \in Nat /\ idx'[m.call] \in Nat
    BY <2>1, TypeParts, Zenon DEF Inv, CallTypes
  <2>3. CASE m.call = c
    BY <2>1, <2>2, <2>3 DEF OrphanOK
  <2>4. CASE m.call # c
    BY <2>1, <2>4, Zenon DEF OrphanOK, Frame, Writing
  <2> QED BY <2>3, <2>4
<1>3. EffectsInv'
  BY <1>1, <1>2 DEF EffectsInv
<1>4. TypeOK'
  <2>1. which \in Stores
    BY TypeParts DEF Inv
  <2> QED BY <1>1, <2>1, Zenon DEF TypeOK, CallTypes, ServerTypes, AttemptsOK
<1> QED BY <1>3, <1>4 DEF Inv

\* A step that sends nothing to the server.
LEMMA ServerSame ==
  ASSUME Inv, UNCHANGED <<which, db, clock, wins, effects>>, orphans' \subseteq Commands
  PROVE  ServerTypes' /\ TagsInv'
BY TypeParts, Zenon DEF Inv, ServerTypes, TagsInv, FirstWriteWins

\* A Set, Delete or bulk method that begins.
LEMMA StartKeeps ==
  ASSUME Inv, NEW c \in Calls, NEW method \in {"set", "delete"},
         NEW lists \in SUBSET Seq(Requests), Start(c, method, lists)
  PROVE  Inv'
<1>1. /\ CallTypes /\ ServerTypes /\ Shape(c) /\ Effects(c) /\ pc[c] = "idle"
      /\ UNCHANGED <<which, db, clock, orphans, wins, effects, idx, att, faulted>>
  BY TypeParts DEF Inv, EffectsInv, Start, serverVars
<1>2. PICK list \in lists : reqs' = [reqs EXCEPT ![c] = list]
  BY Zenon DEF Start
<1>3. /\ pc' = [pc EXCEPT ![c] = "next"] /\ kind' = [kind EXCEPT ![c] = method]
  BY DEF Start
<1>4. kind[c] = "none" /\ idx[c] = 1 /\ ~Writing(c)
  BY <1>1, Zenon DEF Shape, Writing
<1>5. pc'[c] = "next" /\ kind'[c] = method /\ reqs'[c] = list /\ idx'[c] = 1 /\ Writing(c)'
  BY <1>1, <1>2, <1>3, <1>4, Zenon DEF CallTypes, Writing
<1>6. CallTypes'
  BY <1>1, <1>2, <1>3, Zenon DEF CallTypes
<1>7. Frame(c)
  BY <1>1, <1>2, <1>3, Zenon DEF Frame, CallTypes, Took
<1>8. ServerTypes' /\ TagsInv'
  BY <1>1, ServerSame, Zenon DEF ServerTypes
<1>9. AttemptsOK(c)' /\ Shape(c)'
  <2>1. list \in Seq(Requests) /\ Len(list) \in Nat
    OBVIOUS
  <2> QED BY <1>5, <2>1 DEF AttemptsOK, Shape
<1>10. Effects(c)'
  BY <1>1, <1>4, <1>5 DEF Effects, Took
<1> QED BY <1>1, <1>4, <1>6, <1>7, <1>8, <1>9, <1>10, OneCallKeeps, Zenon

\* A Get.
LEMMA GetKeeps ==
  ASSUME Inv, NEW c \in Calls, Get(c)
  PROVE  Inv'
<1>1. /\ CallTypes /\ ServerTypes /\ Shape(c) /\ Effects(c) /\ pc[c] = "idle"
      /\ UNCHANGED <<which, db, clock, orphans, wins, effects, reqs, idx, att, faulted>>
  BY TypeParts DEF Inv, EffectsInv, Get, serverVars
<1>2. PICK r \in Returned : pc' = [pc EXCEPT ![c] = r]
  BY Zenon DEF Get
<1>3. kind' = [kind EXCEPT ![c] = "get"]
  BY DEF Get
<1>4. kind[c] = "none" /\ idx[c] = 1 /\ ~Writing(c)
  BY <1>1, Zenon DEF Shape, Writing
<1>5. pc'[c] \in Returned /\ kind'[c] = "get" /\ ~Writing(c)' /\ idx'[c] = 1
  BY <1>1, <1>2, <1>3, <1>4, Zenon DEF CallTypes, Writing
<1>6. CallTypes'
  BY <1>1, <1>2, <1>3, Zenon DEF CallTypes
<1>7. Frame(c)
  BY <1>1, <1>2, <1>3, Zenon DEF Frame, CallTypes, Took
<1>8. ServerTypes' /\ TagsInv'
  BY <1>1, ServerSame, Zenon DEF ServerTypes
<1>9. AttemptsOK(c)' /\ Shape(c)'
  BY <1>5 DEF AttemptsOK, Shape, Returned, Writing
<1>10. Effects(c)'
  BY <1>1, <1>4, <1>5, Zenon DEF Effects, Took
<1> QED BY <1>1, <1>4, <1>6, <1>7, <1>8, <1>9, <1>10, OneCallKeeps, Zenon

\* The loop over the requests.
LEMMA NextRequestKeeps ==
  ASSUME Inv, NEW c \in Calls, NextRequest(c)
  PROVE  Inv'
<1>1. /\ CallTypes /\ ServerTypes /\ Shape(c) /\ Effects(c) /\ pc[c] = "next"
      /\ UNCHANGED <<which, db, clock, orphans, wins, effects, kind, reqs, idx, faulted>>
  BY TypeParts DEF Inv, EffectsInv, NextRequest, serverVars
<1>2. PICK at \in {"ok", "err", "attempt"} :
        /\ pc' = [pc EXCEPT ![c] = at]
        /\ at = "ok" <=> idx[c] > Len(reqs[c])
  BY Zenon DEF NextRequest
<1>3. att' = [att EXCEPT ![c] = 0]
  BY DEF NextRequest
<1>4. Writing(c) /\ idx[c] \in 1 .. Len(reqs[c]) + 1 /\ Len(reqs[c]) \in Nat
  BY <1>1 DEF Shape, CallTypes
<1>5. pc'[c] = at /\ att'[c] = 0 /\ Writing(c)' /\ idx'[c] = idx[c] /\ reqs'[c] = reqs[c]
  BY <1>1, <1>2, <1>3, <1>4, Zenon DEF CallTypes, Writing
<1>6. CallTypes'
  BY <1>1, <1>2, <1>3, Zenon DEF CallTypes, Returned
<1>7. Frame(c)
  BY <1>1, <1>2, <1>3, Zenon DEF Frame, CallTypes, Took
<1>8. ServerTypes' /\ TagsInv'
  BY <1>1, ServerSame, Zenon DEF ServerTypes
<1>9. AttemptsOK(c)' /\ Shape(c)'
  BY <1>2, <1>4, <1>5 DEF AttemptsOK, Shape, Writing
<1>10. Effects(c)'
  BY <1>1, <1>4, <1>5, Zenon DEF Effects, Took
<1> QED BY <1>1, <1>4, <1>5, <1>6, <1>7, <1>8, <1>9, <1>10, OneCallKeeps, SMTT(20)

\* An attempt that failed: for its options, because the server refused it, or
\* because the connection did, which leaves an orphan.
LEMMA AttemptFailedKeeps ==
  ASSUME Inv, NEW c \in Calls, pc[c] = "attempt", AttemptFailed(c),
         UNCHANGED <<which, db, clock, wins, effects>>,
         \/ UNCHANGED <<orphans, faulted>>
         \/ orphans' = orphans \cup {Command(c)} /\ faulted' = faulted \cup {c}
  PROVE  Inv'
<1>1. /\ CallTypes /\ ServerTypes /\ Shape(c) /\ Effects(c) /\ TypeOK
      /\ UNCHANGED <<kind, reqs, idx>>
  BY TypeParts, Zenon DEF Inv, EffectsInv, AttemptFailed
<1>2. PICK at \in {"sleep", "err"} : pc' = [pc EXCEPT ![c] = at]
  BY DEF AttemptFailed
<1>3. att' = [att EXCEPT ![c] = @ + 1] \/ att' = att
  BY DEF AttemptFailed
<1>4. /\ Writing(c) /\ idx[c] \in 1 .. Len(reqs[c]) /\ Len(reqs[c]) \in Nat
      /\ Command(c) \in Commands /\ Command(c).call = c /\ Command(c).nr = idx[c]
  BY <1>1, RequestType, Zenon
<1>5. pc'[c] = at /\ Writing(c)' /\ idx'[c] = idx[c] /\ reqs'[c] = reqs[c]
  BY <1>1, <1>2, <1>4, Zenon DEF CallTypes, Writing
<1>6. CallTypes'
  <2>1. att' \in [Calls -> Nat]
    BY <1>1, <1>3 DEF CallTypes
  <2> QED BY <1>1, <1>2, <2>1, Zenon DEF CallTypes, Returned
<1>7. Frame(c)
  BY <1>1, <1>2, <1>3 DEF Frame, CallTypes, Took
<1>8. ServerTypes' /\ TagsInv'
  BY <1>1, <1>4, ServerSame, Zenon DEF ServerTypes
<1>9. AttemptsOK(c)' /\ Shape(c)'
  BY <1>4, <1>5 DEF AttemptsOK, Shape, Writing
<1>10. Effects(c)'
  BY <1>1, <1>4, <1>5, Zenon DEF Effects, Took
<1>11. \A m \in orphans' : m \in orphans \/ OrphanOK(m)'
  BY <1>4, <1>5 DEF OrphanOK
<1> QED BY <1>1, <1>4, <1>5, <1>6, <1>7, <1>8, <1>9, <1>10, <1>11, OneCallKeeps, SMTT(20)

\* An attempt the server performs.
LEMMA PerformedKeeps ==
  ASSUME Inv, NEW c \in Calls, Performed(c)
  PROVE  Inv'
<1>1. /\ CallTypes /\ ServerTypes /\ Shape(c) /\ Effects(c) /\ TypeOK /\ TagsInv
      /\ pc[c] = "attempt" /\ Perform(Command(c))
      /\ UNCHANGED <<which, kind, reqs, att, orphans, faulted>>
  BY TypeParts DEF Inv, EffectsInv, Performed
<1>2. pc' = [pc EXCEPT ![c] = "next"] /\ idx' = [idx EXCEPT ![c] = @ + 1]
  BY DEF Performed
<1>4. /\ Writing(c) /\ idx[c] \in 1 .. Len(reqs[c]) /\ Len(reqs[c]) \in Nat
      /\ Command(c) \in Commands /\ Command(c).call = c /\ Command(c).nr = idx[c]
  BY <1>1, RequestType, Zenon
<1>5. pc'[c] = "next" /\ Writing(c)' /\ idx'[c] = idx[c] + 1 /\ reqs'[c] = reqs[c]
  BY <1>1, <1>2, <1>4, Zenon DEF CallTypes, Writing
<1>6. CallTypes'
  BY <1>1, <1>2 DEF CallTypes
<1>e. effects' = effects \cup {<<c, idx[c]>>}
  BY <1>1, <1>4, PerformType, Zenon
<1>7. Frame(c)
  BY <1>1, <1>2, <1>e, Zenon DEF Frame, CallTypes, Took
<1>8. ServerTypes' /\ TagsInv'
  BY <1>1, <1>4, PerformType, PerformTags, Zenon DEF ServerTypes
<1>9. AttemptsOK(c)' /\ Shape(c)'
  BY <1>4, <1>5 DEF AttemptsOK, Shape, Writing
<1>10. Effects(c)'
  <2>1. \A i \in Nat : Took(c, i)' <=> Took(c, i) \/ i = idx[c]
    BY <1>e DEF Took
  <2> QED BY <1>1, <1>4, <1>5, <2>1 DEF Effects
<1> QED BY <1>1, <1>4, <1>5, <1>6, <1>7, <1>8, <1>9, <1>10, OneCallKeeps, SMTT(20)

\* The end of a pause between two attempts.
LEMMA WakeKeeps ==
  ASSUME Inv, NEW c \in Calls, Wake(c)
  PROVE  Inv'
<1>1. /\ CallTypes /\ ServerTypes /\ Shape(c) /\ Effects(c) /\ TypeOK /\ pc[c] = "sleep"
      /\ UNCHANGED <<which, db, clock, orphans, wins, effects, kind, reqs, idx, att, faulted>>
  BY TypeParts DEF Inv, EffectsInv, Wake, serverVars
<1>2. PICK at \in {"attempt", "err"} :
        /\ pc' = [pc EXCEPT ![c] = at]
        /\ at = "attempt" => att[c] < Request(c).options.threshold
  BY Zenon DEF Wake, MoreAttempts
<1>4. Writing(c) /\ idx[c] \in 1 .. Len(reqs[c]) /\ Len(reqs[c]) \in Nat
  BY <1>1 DEF Shape, CallTypes
<1>5. /\ pc'[c] = at /\ Writing(c)' /\ idx'[c] = idx[c] /\ reqs'[c] = reqs[c]
      /\ att'[c] = att[c] /\ Request(c)' = Request(c)
  BY <1>1, <1>2, <1>4, Zenon DEF CallTypes, Writing, Request
<1>6. CallTypes'
  BY <1>1, <1>2, Zenon DEF CallTypes, Returned
<1>7. Frame(c)
  BY <1>1, <1>2, Zenon DEF Frame, CallTypes, Took
<1>8. ServerTypes' /\ TagsInv'
  BY <1>1, ServerSame, Zenon DEF ServerTypes
<1>9. AttemptsOK(c)' /\ Shape(c)'
  BY <1>2, <1>4, <1>5 DEF AttemptsOK, Shape, Writing
<1>10. Effects(c)'
  BY <1>1, <1>4, <1>5, Zenon DEF Effects, Took
<1> QED BY <1>1, <1>4, <1>5, <1>6, <1>7, <1>8, <1>9, <1>10, OneCallKeeps, SMTT(20)

\* An orphan the server performs after its caller has seen an error.
LEMMA OrphanKeeps ==
  ASSUME Inv, NEW m \in orphans, OrphanPerformed(m)
  PROVE  Inv'
<1>1. /\ CallTypes /\ ServerTypes /\ TypeOK /\ TagsInv /\ Perform(m) /\ m \in Commands
      /\ UNCHANGED <<which, pc, kind, reqs, idx, att, faulted>> /\ orphans' = orphans \ {m}
  BY TypeParts, Zenon DEF Inv, EffectsInv, OrphanPerformed, callVars, ServerTypes
<1> DEFINE c == m.call
<1>2. c \in Calls /\ m.nr \in Nat
  BY <1>1 DEF Commands
<1>3. OrphanOK(m) /\ Shape(c) /\ Effects(c) /\ AttemptsOK(c) /\ idx[c] \in Nat
  BY <1>1, <1>2, TypeParts, Zenon DEF Inv, EffectsInv, CallTypes
<1>e. effects' = effects \cup {<<c, m.nr>>}
  BY <1>1, PerformType
<1>4. Frame(c)
  BY <1>1, <1>e DEF Frame, Took
<1>5. ServerTypes' /\ TagsInv'
  BY <1>1, PerformType, PerformTags, Zenon DEF ServerTypes
<1>6. AttemptsOK(c)' /\ Shape(c)'
  BY <1>1, <1>3, Zenon DEF AttemptsOK, Shape, Writing, Request
<1>7. Effects(c)'
  <2>1. \A i \in Nat : Took(c, i)' <=> Took(c, i) \/ i = m.nr
    BY <1>e DEF Took
  <2>2. c \in faulted /\ Writing(c) /\ m.nr <= idx[c]
    BY <1>3 DEF OrphanOK
  <2> QED BY <1>1, <1>2, <1>3, <2>1, <2>2, SMTT(20) DEF Effects, Writing
<1>8. CallTypes' /\ (Writing(c) => Writing(c)' /\ idx'[c] >= idx[c])
  BY <1>1, <1>3 DEF CallTypes, Writing
<1> HIDE DEF c
<1> QED BY <1>1, <1>2, <1>4, <1>5, <1>6, <1>7, <1>8, OneCallKeeps, Zenon

\* The invariant holds initially.
LEMMA InitInv == Init => Inv
<1> SUFFICES ASSUME Init PROVE Inv
  OBVIOUS
<1>1. [data |-> Foreign, tag |-> 1] \in Held
  BY DEF Held
<1>2. db \in [Keys -> Held \cup {Nothing}]
  BY <1>1 DEF Init
<1>3. TypeOK
  BY <1>2, ConstantsAssumption DEF Init, TypeOK
<1>4. EffectsInv
  BY DEF Init, EffectsInv, Shape, Effects, Writing, Took
<1>5. TagsInv
  BY DEF Init, TagsInv, FirstWriteWins
<1> QED BY <1>3, <1>4, <1>5 DEF Inv

\* Every step keeps the invariant.
LEMMA NextInv == Inv /\ [Next]_vars => Inv'
<1> SUFFICES ASSUME Inv, [Next]_vars PROVE Inv'
  OBVIOUS
<1>1. ASSUME NEW c \in Calls, CallSet(c) \/ CallDelete(c) PROVE Inv'
  BY <1>1, StartKeeps, ConstantsAssumption DEF CallSet, CallDelete
<1>2. ASSUME NEW c \in Calls, Get(c) PROVE Inv'
  BY <1>2, GetKeeps
<1>3. ASSUME NEW c \in Calls, Step(c) PROVE Inv'
  <2>1. CASE RejectOptions(c) \/ Refused(c)
    BY <2>1, AttemptFailedKeeps, Zenon DEF RejectOptions, Refused, serverVars
  <2>2. CASE Lost(c)
    BY <2>2, AttemptFailedKeeps DEF Lost
  <2> QED BY <1>3, <2>1, <2>2, NextRequestKeeps, PerformedKeeps, WakeKeeps DEF Step
<1>4. ASSUME NEW m \in orphans, OrphanPerformed(m) PROVE Inv'
  BY <1>4, OrphanKeeps
<1>5. CASE UNCHANGED vars
  BY <1>5, Zenon DEF vars, Inv, TypeOK, EffectsInv, TagsInv, Shape, Effects, OrphanOK, Writing, Took,
     Request, FirstWriteWins
<1> QED BY <1>1, <1>2, <1>3, <1>4, <1>5 DEF Next, Finished

\* The invariant holds in every reachable state.
LEMMA InvHolds == Spec => []Inv
BY InitInv, NextInv, PTL DEF Spec

\* Every variable of the six stores keeps its type, and no attempt is made beyond
\* the threshold of the retry loop.
THEOREM PlainTypes == Spec => []TypeOK
BY InvHolds, PTL DEF Inv

\* A caller of etcd, Consul, Memcached, Firestore, Cosmos DB or Cassandra may
\* conclude from nil that all was done, from an error without a connection
\* failure that the request it stopped at was not, and of a bulk call that it
\* did all before that request and none behind it.
THEOREM PlainAnswersAreTrue == Spec => []AnswersAreTrue
<1>1. Inv => AnswersAreTrue
  <2> SUFFICES ASSUME Inv, NEW c \in Calls
               PROVE  /\ pc[c] = "ok" /\ kind[c] # "get" => Done(c) = DOMAIN reqs[c]
                      /\ pc[c] = "err" /\ c \notin faulted => idx[c] \notin Done(c)
                      /\ pc[c] # "idle" /\ kind[c] # "get" =>
                           1 .. idx[c] - 1 \subseteq Done(c) /\ Done(c) \subseteq 1 .. idx[c]
    BY DEF AnswersAreTrue, SuccessIsReal, CleanErrorHasNoEffect, BulkIsAPrefix
  <2>1. /\ Shape(c) /\ Effects(c) /\ reqs[c] \in Seq(Requests) /\ idx[c] \in Nat
        /\ kind[c] \in {"none", "set", "delete", "get"}
    BY DEF Inv, EffectsInv, TypeOK
  <2>2. DOMAIN reqs[c] = 1 .. Len(reqs[c]) /\ Len(reqs[c]) \in Nat
    BY <2>1
  <2>3. \A i \in Nat : i \in Done(c) <=> i \in 1 .. Len(reqs[c]) /\ Took(c, i)
    BY <2>2 DEF Done, Took
  <2>4. Done(c) \subseteq 1 .. Len(reqs[c])
    BY <2>2 DEF Done
  <2>5. pc[c] # "idle" /\ kind[c] # "get" => Writing(c)
    BY <2>1, Zenon DEF Shape, Writing
  <2>6. Writing(c) =>
          /\ idx[c] \in 1 .. Len(reqs[c]) + 1
          /\ \A i \in Nat \ {0} : (i < idx[c] => Took(c, i)) /\ (i > idx[c] => ~Took(c, i))
    BY <2>1, Zenon DEF Shape, Effects
  <2>7. Writing(c) => 1 .. idx[c] - 1 \subseteq Done(c) /\ Done(c) \subseteq 1 .. idx[c]
    BY <2>1, <2>2, <2>3, <2>4, <2>6, SMTT(20)
  <2>8. pc[c] = "ok" /\ Writing(c) => Done(c) = DOMAIN reqs[c]
    <3>1. pc[c] = "ok" /\ Writing(c) => idx[c] = Len(reqs[c]) + 1
      BY <2>1 DEF Shape
    <3>2. (Len(reqs[c]) + 1) - 1 = Len(reqs[c])
      BY <2>2
    <3> QED BY <2>2, <2>4, <2>7, <3>1, <3>2, Zenon
  <2>9. pc[c] = "err" /\ c \notin faulted => idx[c] \notin Done(c)
    BY <2>1, <2>3 DEF Effects
  <2> QED BY <2>5, <2>7, <2>8, <2>9
<1> QED BY <1>1, InvHolds, PTL

\* First write wins in Cosmos DB, for any number of calls, keys and orphaned
\* commands: no two performed commands named the same tag of a key.
THEOREM PlainFirstWriteWins == Spec => []FirstWriteWins
BY InvHolds, PTL DEF Inv, TagsInv

-----------------------------------------------------------------------------
\* What EveryCallReturns rests on: no step takes a call back.  (That the retry
\* loop stays within its threshold is part of TypeOK.)

\* The places of one attempt, in the order in which a call goes through them.
Place(p) == IF p = "sleep" THEN 0 ELSE IF p = "attempt" THEN 1 ELSE 2

\* The call goes on: to its next request, into this one, to the next attempt at
\* it, or to a later place of this attempt.
MovesOn(c) ==
  \/ idx'[c] > idx[c]
  \/ /\ idx'[c] = idx[c] /\ pc'[c] # "next"
     /\ \/ pc[c] = "next"
        \/ att'[c] > att[c]
        \/ att'[c] = att[c] /\ Place(pc'[c]) > Place(pc[c])

Stays(c) ==
  /\ pc'[c] = pc[c] /\ kind'[c] = kind[c] /\ reqs'[c] = reqs[c]
  /\ idx'[c] = idx[c] /\ att'[c] = att[c]

\* A call never works past the end of its list.
InList == \A c \in Calls : Writing(c) => idx[c] <= Len(reqs[c]) + 1

\* Every step of a call takes it on, and leaves the other calls where they are.
LEMMA StepMovesOn ==
  ASSUME Inv, NEW c \in Calls, Step(c)
  PROVE  MovesOn(c) /\ \A d \in Calls \ {c} : Stays(d)
<1>1. CallTypes
  BY TypeParts, Zenon DEF Inv
<1>2. CASE NextRequest(c)
  <2>1. PICK at \in {"attempt", "ok", "err"} : pc' = [pc EXCEPT ![c] = at]
    BY <1>2, Zenon DEF NextRequest
  <2>2. pc[c] = "next" /\ att' = [att EXCEPT ![c] = 0] /\ UNCHANGED <<kind, reqs, idx>>
    BY <1>2, Zenon DEF NextRequest
  <2>3. pc'[c] = at /\ \A d \in Calls \ {c} : Stays(d)
    BY <1>1, <2>1, <2>2, Zenon DEF CallTypes, Stays
  <2> QED BY <2>2, <2>3, Zenon DEF MovesOn
<1>3. CASE Performed(c)
  <2>1. /\ pc' = [pc EXCEPT ![c] = "next"] /\ idx' = [idx EXCEPT ![c] = @ + 1]
        /\ UNCHANGED <<kind, reqs, att>>
    BY <1>3, Zenon DEF Performed
  <2>2. idx'[c] > idx[c]
    BY <1>1, <2>1 DEF CallTypes
  <2>3. \A d \in Calls \ {c} : Stays(d)
    BY <1>1, <2>1, Zenon DEF CallTypes, Stays
  <2> QED BY <2>2, <2>3, Zenon DEF MovesOn
<1>4. CASE RejectOptions(c) \/ Refused(c) \/ Lost(c)
  <2>1. pc[c] = "attempt" /\ AttemptFailed(c)
    BY <1>4, Zenon DEF RejectOptions, Refused, Lost
  <2>2. CASE pc' = [pc EXCEPT ![c] = "sleep"] /\ att' = [att EXCEPT ![c] = @ + 1]
    <3>1. UNCHANGED <<kind, reqs, idx>>
      BY <2>1, Zenon DEF AttemptFailed
    <3>2. pc'[c] = "sleep" /\ att'[c] > att[c] /\ \A d \in Calls \ {c} : Stays(d)
      BY <1>1, <2>2, <3>1 DEF CallTypes, Stays
    <3> QED BY <3>1, <3>2, Zenon DEF MovesOn
  <2>3. CASE pc' = [pc EXCEPT ![c] = "err"] /\ att' = att
    <3>1. UNCHANGED <<kind, reqs, idx>>
      BY <2>1, Zenon DEF AttemptFailed
    <3>2. pc'[c] = "err" /\ \A d \in Calls \ {c} : Stays(d)
      BY <1>1, <2>3, <3>1, Zenon DEF CallTypes, Stays
    <3>3. Place("err") > Place("attempt")
      BY DEF Place
    <3> QED BY <2>1, <2>3, <3>1, <3>2, <3>3, Zenon DEF MovesOn
  <2> QED BY <2>1, <2>2, <2>3, Zenon DEF AttemptFailed
<1>5. CASE Wake(c)
  <2>1. PICK at \in {"attempt", "err"} : pc' = [pc EXCEPT ![c] = at]
    BY <1>5, Zenon DEF Wake
  <2>2. pc[c] = "sleep" /\ UNCHANGED <<kind, reqs, idx, att>>
    BY <1>5, Zenon DEF Wake
  <2>3. pc'[c] = at /\ \A d \in Calls \ {c} : Stays(d)
    BY <1>1, <2>1, <2>2, Zenon DEF CallTypes, Stays
  <2>4. Place(at) > Place("sleep")
    BY DEF Place
  <2> QED BY <2>2, <2>3, <2>4, Zenon DEF MovesOn
<1> QED BY <1>2, <1>3, <1>4, <1>5, Zenon DEF Step

\* A call of the six stores that has begun never goes back, whatever its store
\* answers: a step that concerns it takes it to its next request, to its next
\* attempt or further in this one, and no step of another call or of an orphan
\* moves it; and no bulk method works past the end of its list.
THEOREM PlainCallsMoveOn ==
  Spec => /\ []InList
          /\ [][\A c \in Calls : pc[c] # "idle" => MovesOn(c) \/ Stays(c)]_vars
<1> DEFINE Onward == \A c \in Calls : pc[c] # "idle" => MovesOn(c) \/ Stays(c)
<1>1. Inv => InList
  BY TypeParts DEF Inv, EffectsInv, Shape, InList, CallTypes
<1>2. Inv /\ [Next]_vars => [Onward]_vars
  <2> SUFFICES ASSUME Inv, Next PROVE Onward
    BY Zenon
  <2>1. ASSUME NEW c \in Calls, Step(c) PROVE Onward
    BY <2>1, StepMovesOn, Zenon
  <2>2. ASSUME NEW c \in Calls, CallSet(c) \/ CallDelete(c) \/ Get(c) PROVE Onward
    <3>1. CallTypes
      BY TypeParts, Zenon DEF Inv
    <3>2. pc[c] = "idle" /\ \A d \in Calls \ {c} : Stays(d)
      BY <2>2, <3>1, Zenon DEF CallSet, CallDelete, Get, Start, Stays, CallTypes
    <3> QED BY <3>2, Zenon
  <2>3. (\E m \in orphans : OrphanPerformed(m)) \/ Finished => Onward
    BY Zenon DEF OrphanPerformed, Finished, vars, callVars, Stays
  <2> QED BY <2>1, <2>2, <2>3, Zenon DEF Next
<1> QED BY <1>1, <1>2, InvHolds, PTL DEF Spec

-----------------------------------------------------------------------------
(***************************************************************************)
(* MongoDB: Multi and the transaction it runs.                             *)
(***************************************************************************)
\* A transaction runs its operations one by one, and has been committed as often
\* as the server says; what it is to write is its own.
Transaction(c) ==
  /\ phase[c] = "idle" => opIdx[c] = 1
  /\ phase[c] = "operate" => opIdx[c] \in 1 .. Len(ops[c])
  /\ ~Sent(c) => wset[c] = {}
  /\ \A k \in wset[c] : view[c][k] \in {c, Nothing}
  /\ phase[c] \in {"idle", "operate", "err"} => ~applied[c]
  /\ commits[c] = IF applied[c] THEN 1 ELSE 0

DataIsCommitted == \A k \in Keys : docs[k] \in Calls => commits[docs[k]] = 1

MongoInv == MongoTypeOK /\ (\A c \in Calls : Transaction(c)) /\ DataIsCommitted

\* The invariant holds initially.
LEMMA MongoInitInv == MongoInit => MongoInv
<1> SUFFICES ASSUME MongoInit PROVE MongoInv
  OBVIOUS
<1>1. docs \in [Keys -> {Nothing, Foreign}] /\ docs \in Documents
  BY DEF MongoInit, Documents
<1>2. MongoTypeOK
  BY <1>1 DEF MongoInit, MongoTypeOK
<1>3. \A c \in Calls : Transaction(c)
  BY DEF MongoInit, Transaction, Sent
<1>4. DataIsCommitted
  BY <1>1, MongoAssumption DEF DataIsCommitted
<1> QED BY <1>2, <1>3, <1>4 DEF MongoInv

\* A call that begins, fails in an operation, has nothing to commit, or whose
\* timer fires, writes nothing.
LEMMA MongoQuietStep ==
  ASSUME MongoInv, NEW c \in Calls,
         \/ CallPlain(c) \/ CallMulti(c) \/ StartSessionFails(c)
         \/ OperateFails(c) \/ CommitNothing(c) \/ TimerFires(c)
  PROVE  MongoInv'
<1>0. /\ MongoTypeOK /\ Transaction(c) /\ DataIsCommitted
  BY DEF MongoInv
<1>1. UNCHANGED <<docs, opIdx, view, wset, stale, applied, commits>>
  BY Zenon DEF CallPlain, CallMulti, StartSessionFails, OperateFails, CommitNothing, TimerFires, Return
<1>2. /\ phase' \in [Calls -> {"idle", "operate", "commit"} \cup Over]
      /\ meth' \in [Calls -> Methods \cup {"none", "multi"}]
      /\ ops' \in [Calls -> Seq(Operations)]
      /\ expired' \in [Calls -> BOOLEAN]
      /\ \A d \in Calls \ {c} : phase'[d] = phase[d] /\ ops'[d] = ops[d]
      /\ ops'[c] = ops[c] \/ opIdx[c] = 1
      /\ phase'[c] = "commit" => opIdx[c] = Len(ops'[c]) + 1
      /\ phase'[c] = "operate" => opIdx[c] \in 1 .. Len(ops'[c])
      /\ phase'[c] = "idle" => phase[c] = "idle"
      /\ phase'[c] \in {"operate", "err"} => ~applied[c]
  <2>1. CASE CallPlain(c) \/ StartSessionFails(c)
    <3>1. /\ phase[c] = "idle" /\ UNCHANGED <<ops, expired>>
          /\ \E at \in Over : phase' = [phase EXCEPT ![c] = at]
          /\ \E method \in Methods \cup {"multi"} : meth' = [meth EXCEPT ![c] = method]
      BY <2>1, Zenon DEF CallPlain, StartSessionFails, Over, Returned
    <3>2. "idle" \notin Over /\ "operate" \notin Over /\ "commit" \notin Over
      BY DEF Over, Returned
    <3>3. PICK at \in Over : phase' = [phase EXCEPT ![c] = at]
      BY <3>1, Zenon
    <3>4. /\ phase' \in [Calls -> {"idle", "operate", "commit"} \cup Over] /\ phase'[c] = at
          /\ \A d \in Calls \ {c} : phase'[d] = phase[d]
      BY <1>0, <3>3, Zenon DEF MongoTypeOK
    <3>5. meth' \in [Calls -> Methods \cup {"none", "multi"}]
      BY <1>0, <3>1, Zenon DEF MongoTypeOK
    <3>6. /\ ops' \in [Calls -> Seq(Operations)] /\ ops'[c] = ops[c]
          /\ \A d \in Calls \ {c} : ops'[d] = ops[d]
          /\ expired' \in [Calls -> BOOLEAN]
      BY <1>0, <3>1, Zenon DEF MongoTypeOK
    <3>7. ~applied[c] /\ at # "idle" /\ at # "operate" /\ at # "commit"
      BY <1>0, <3>1, <3>2, Zenon DEF Transaction
    <3> QED BY <3>4, <3>5, <3>6, <3>7, Zenon
  <2>2. CASE CallMulti(c)
    <3>1. PICK list \in MultiRequests :
            /\ ops' = [ops EXCEPT ![c] = list]
            /\ phase' = [phase EXCEPT ![c] = IF list = <<>> THEN "commit" ELSE "operate"]
      BY <2>2, Zenon DEF CallMulti
    <3>2. /\ list \in Seq(Operations) /\ Len(list) \in Nat
          /\ (list = <<>> <=> Len(list) = 0)
      BY MongoAssumption
    <3>3. opIdx[c] = 1 /\ ~applied[c] /\ UNCHANGED expired
      BY <1>0, <2>2, Zenon DEF CallMulti, Transaction
    <3>4. meth' \in [Calls -> Methods \cup {"none", "multi"}]
      BY <1>0, <2>2, Zenon DEF CallMulti, MongoTypeOK
    <3>5. ops' \in [Calls -> Seq(Operations)] /\ ops'[c] = list
      BY <1>0, <3>1, <3>2, Zenon DEF MongoTypeOK
    <3>6. /\ phase' \in [Calls -> {"idle", "operate", "commit"} \cup Over]
          /\ phase'[c] = IF list = <<>> THEN "commit" ELSE "operate"
          /\ \A d \in Calls \ {c} : phase'[d] = phase[d] /\ ops'[d] = ops[d]
      BY <1>0, <3>1, Zenon DEF MongoTypeOK
    <3>7. expired' \in [Calls -> BOOLEAN]
      BY <1>0, <3>3 DEF MongoTypeOK
    <3> QED BY <3>2, <3>3, <3>4, <3>5, <3>6, <3>7
  <2>3. CASE OperateFails(c)
    BY <1>0, <2>3, Zenon DEF OperateFails, MongoTypeOK, Over, Returned, Transaction
  <2>5. CASE CommitNothing(c)
    BY <1>0, <2>5, Zenon DEF CommitNothing, Return, MongoTypeOK, Over, Returned, Transaction
  <2>4. CASE TimerFires(c)
    BY <1>0, <2>4, Zenon DEF TimerFires, MongoTypeOK, Transaction
  <2> QED BY <2>1, <2>2, <2>3, <2>4, <2>5, Zenon
<1>3. MongoTypeOK'
  BY <1>0, <1>1, <1>2, Zenon DEF MongoTypeOK
<1>4. ASSUME NEW d \in Calls PROVE Transaction(d)'
  <2>1. Transaction(d)
    BY DEF MongoInv
  <2>2. CASE d # c
    <3>1. Sent(d)' <=> Sent(d)
      BY <1>1, <1>2, <2>2, Zenon DEF Sent
    <3> QED BY <1>1, <1>2, <2>1, <2>2, <3>1, Zenon DEF Transaction
  <2>3. CASE d = c /\ ops'[c] = ops[c]
    <3>1. Sent(d)' <=> Sent(d)
      BY <1>1, <2>3, Zenon DEF Sent
    <3> QED BY <1>1, <1>2, <2>1, <2>3, <3>1, Zenon DEF Transaction
  <2>4. CASE d = c /\ opIdx[c] = 1
    <3>1. ~Sent(d)
      BY <2>4 DEF Sent
    <3> QED BY <1>1, <1>2, <2>1, <2>4, <3>1, Zenon DEF Transaction
  <2> QED BY <1>2, <2>2, <2>3, <2>4
<1>5. DataIsCommitted'
  BY <1>0, <1>1 DEF DataIsCommitted
<1> QED BY <1>3, <1>4, <1>5 DEF MongoInv

\* An operation of a transaction changes what the transaction is to write.
LEMMA MongoOperate ==
  ASSUME MongoInv, NEW c \in Calls, Operate(c)
  PROVE  MongoInv'
<1>0. MongoTypeOK /\ Transaction(c) /\ DataIsCommitted /\ phase[c] = "operate"
  BY Zenon DEF MongoInv, Operate
<1> DEFINE o == ops[c][opIdx[c]]
           V == View(c)
<1>1. /\ UNCHANGED <<docs, meth, ops, applied, expired, commits>>
      /\ stale' = [stale EXCEPT ![c] = Stale(c)]
      /\ opIdx' = [opIdx EXCEPT ![c] = @ + 1]
      /\ phase' = [phase EXCEPT ![c] = IF opIdx[c] = Len(ops[c]) THEN "commit" ELSE @]
  BY Zenon DEF Operate
<1>2. /\ ops[c] \in Seq(Operations) /\ Len(ops[c]) \in Nat /\ opIdx[c] \in 1 .. Len(ops[c])
      /\ ~applied[c]
  BY <1>0 DEF MongoTypeOK, Transaction
<1>3. o \in Operations /\ o.key \in Keys
  <2>1. o \in Operations
    BY <1>2
  <2> QED BY <2>1, Zenon DEF Operations
<1>4. /\ V \in Documents /\ Stale(c) \in SUBSET Keys
      /\ \A k \in wset[c] : V[k] \in {c, Nothing}
      /\ wset[c] \in SUBSET Keys
  <2>1. /\ view[c] \in Documents /\ docs \in Documents /\ stale[c] \in SUBSET Keys
        /\ wset[c] \in SUBSET Keys
    BY <1>0 DEF MongoTypeOK
  <2>2. \A k \in wset[c] : V[k] \in {c, Nothing}
    BY <1>0 DEF View, Transaction
  <2> QED BY <2>1, <2>2 DEF View, Stale
<1>5. PICK W \in SUBSET Keys, D \in Documents :
        /\ wset' = [wset EXCEPT ![c] = W] /\ view' = [view EXCEPT ![c] = D]
        /\ \A k \in W : D[k] \in {c, Nothing}
        /\ W = wset[c] \/ Sends(o)
  <2>1. CASE Writes(c, o)
    <3>1. PICK v \in {c, Nothing} : view' = [view EXCEPT ![c] = [V EXCEPT ![o.key] = v]]
      BY <2>1, Zenon DEF Operate
    <3>2. wset' = [wset EXCEPT ![c] = wset[c] \cup {o.key}]
      BY <2>1, Zenon DEF Operate
    <3>3. [V EXCEPT ![o.key] = v] \in Documents
      BY <1>3, <1>4, Zenon DEF Documents
    <3>4. \A k \in wset[c] \cup {o.key} : [V EXCEPT ![o.key] = v][k] \in {c, Nothing}
      BY <1>3, <1>4, Zenon DEF Documents
    <3>5. wset[c] \cup {o.key} \in SUBSET Keys
      BY <1>3, <1>4, Zenon
    <3>6. Sends(o)
      BY <2>1, Zenon DEF Writes, Sends
    <3> QED BY <3>1, <3>2, <3>3, <3>4, <3>5, <3>6, Zenon
  <2>2. CASE ~Writes(c, o)
    <3>1. view' = [view EXCEPT ![c] = V] /\ wset' = wset
      BY <2>2, Zenon DEF Operate
    <3>2. wset' = [wset EXCEPT ![c] = wset[c]]
      BY <1>0, <3>1 DEF MongoTypeOK
    <3> QED BY <1>4, <3>1, <3>2, Zenon
  <2> QED BY <2>1, <2>2, Zenon
<1>6. /\ opIdx'[c] = opIdx[c] + 1 /\ wset'[c] = W /\ view'[c] = D
      /\ phase'[c] = IF opIdx[c] = Len(ops[c]) THEN "commit" ELSE "operate"
      /\ \A d \in Calls \ {c} : /\ phase'[d] = phase[d] /\ opIdx'[d] = opIdx[d] /\ wset'[d] = wset[d]
                               /\ view'[d] = view[d]
  BY <1>0, <1>1, <1>5, Zenon DEF MongoTypeOK
<1>7. MongoTypeOK'
  <2>1. /\ wset' \in [Calls -> SUBSET Keys] /\ view' \in [Calls -> Documents]
        /\ stale' \in [Calls -> SUBSET Keys]
    BY <1>0, <1>1, <1>4, <1>5, Zenon DEF MongoTypeOK
  <2>2. opIdx' \in [Calls -> Nat \ {0}]
    BY <1>0, <1>1, <1>2 DEF MongoTypeOK
  <2>3. phase' \in [Calls -> {"idle", "operate", "commit"} \cup Over]
    BY <1>0, <1>1, Zenon DEF MongoTypeOK
  <2>4. \A d \in Calls : phase'[d] = "commit" => opIdx'[d] = Len(ops'[d]) + 1
    BY <1>0, <1>1, <1>2, <1>6, Zenon DEF MongoTypeOK
  <2> QED BY <1>0, <1>1, <2>1, <2>2, <2>3, <2>4, Zenon DEF MongoTypeOK
<1>8. ASSUME NEW d \in Calls PROVE Transaction(d)'
  <2>1. Transaction(d)
    BY DEF MongoInv
  <2>2. CASE d # c
    <3>1. Sent(d)' <=> Sent(d)
      BY <1>1, <1>6, <2>2, Zenon DEF Sent
    <3> QED BY <1>1, <1>6, <2>1, <2>2, <3>1, Zenon DEF Transaction
  <2>3. CASE d = c
    <3>1. opIdx[c] \in 1 .. opIdx'[c] - 1 /\ 1 .. opIdx[c] - 1 \subseteq 1 .. opIdx'[c] - 1
      BY <1>2, <1>6
    <3>2. Sent(c) \/ Sends(o) => Sent(c)'
      BY <1>1, <3>1, Zenon DEF Sent
    <3>3. ~Sent(c)' => wset'[c] = {}
      BY <1>5, <1>6, <2>1, <2>3, <3>2, Zenon DEF Transaction
    <3>4. phase'[c] = "operate" => opIdx'[c] \in 1 .. Len(ops'[c])
      BY <1>1, <1>2, <1>6
    <3>5. \A k \in wset'[c] : view'[c][k] \in {c, Nothing}
      BY <1>5, <1>6, Zenon
    <3>6. phase'[c] # "idle"
      BY <1>6
    <3> QED BY <1>1, <1>2, <2>1, <2>3, <3>3, <3>4, <3>5, <3>6, Zenon DEF Transaction
  <2> QED BY <2>2, <2>3
<1>9. DataIsCommitted'
  BY <1>0, <1>1 DEF DataIsCommitted
<1> QED BY <1>7, <1>8, <1>9 DEF MongoInv

\* What the server does with a commit: nothing, or what the transaction is to
\* write appears, once.
LEMMA MongoApply ==
  ASSUME MongoInv, NEW c \in Calls,
         Apply(c) \/ UNCHANGED <<docs, stale, applied, commits>>
  PROVE  /\ docs' \in Documents /\ stale' \in [Calls -> SUBSET Keys]
         /\ applied' \in [Calls -> BOOLEAN] /\ commits' \in [Calls -> Nat]
         /\ \A d \in Calls \ {c} : applied'[d] = applied[d] /\ commits'[d] = commits[d]
         /\ commits'[c] = IF applied'[c] THEN 1 ELSE 0
         /\ DataIsCommitted'
<1>0. MongoTypeOK /\ Transaction(c) /\ DataIsCommitted
  BY DEF MongoInv
<1>1. CASE UNCHANGED <<docs, stale, applied, commits>>
  BY <1>0, <1>1, Zenon DEF MongoTypeOK, Transaction, DataIsCommitted
<1>2. CASE Apply(c) /\ applied[c]
  <2>1. UNCHANGED <<docs, stale, commits>> /\ applied' = applied
    BY <1>0, <1>2, Zenon DEF Apply, MongoTypeOK
  <2> QED BY <1>0, <2>1, Zenon DEF MongoTypeOK, Transaction, DataIsCommitted
<1>3. CASE Apply(c) /\ ~applied[c]
  <2>1. /\ applied' = [applied EXCEPT ![c] = TRUE]
        /\ docs' = [k \in Keys |-> IF k \in wset[c] THEN view[c][k] ELSE docs[k]]
        /\ stale' = [d \in Calls |-> stale[d] \cup wset[c]]
        /\ commits' = [commits EXCEPT ![c] = @ + 1]
    BY <1>3, Zenon DEF Apply
  <2>2. commits[c] = 0 /\ commits'[c] = 1 /\ applied'[c] = TRUE
    BY <1>0, <1>3, <2>1 DEF MongoTypeOK, Transaction
  <2>3. \A d \in Calls \ {c} : applied'[d] = applied[d] /\ commits'[d] = commits[d]
    BY <1>0, <2>1, Zenon DEF MongoTypeOK
  <2>4. docs' \in Documents
    BY <1>0, <2>1 DEF MongoTypeOK, Documents
  <2>5. stale' \in [Calls -> SUBSET Keys] /\ applied' \in [Calls -> BOOLEAN]
    BY <1>0, <2>1, Zenon DEF MongoTypeOK
  <2>6. commits' \in [Calls -> Nat]
    BY <1>0, <2>1 DEF MongoTypeOK
  <2>7. DataIsCommitted'
    <3> SUFFICES ASSUME NEW k \in Keys, docs'[k] \in Calls PROVE commits'[docs'[k]] = 1
      BY DEF DataIsCommitted
    <3>1. CASE k \in wset[c]
      <4>1. docs'[k] \in {c, Nothing}
        BY <1>0, <2>1, <3>1, Zenon DEF Transaction
      <4> QED BY <2>2, <4>1, MongoAssumption
    <3>2. CASE k \notin wset[c]
      <4>1. docs'[k] = docs[k] /\ commits[docs[k]] = 1
        BY <1>0, <2>1, <3>2, Zenon DEF DataIsCommitted
      <4> QED BY <2>2, <2>3, <4>1
    <3> QED BY <3>1, <3>2
  <2> QED BY <2>2, <2>3, <2>4, <2>5, <2>6, <2>7
<1> QED BY <1>1, <1>2, <1>3, Zenon

\* A commit that returns, or is sent again.
LEMMA MongoCommitReturns ==
  ASSUME MongoInv, NEW c \in Calls, phase[c] = "commit",
         NEW result \in {"ok", "commit"}, Return(c, result),
         Apply(c) \/ UNCHANGED <<docs, stale, applied, commits>>
  PROVE  MongoInv'
<1>0. MongoTypeOK
  BY DEF MongoInv
<1>1. /\ phase' = [phase EXCEPT ![c] = result] /\ UNCHANGED <<meth, ops, opIdx, view, wset, expired>>
  BY DEF Return
<1>2. /\ phase' \in [Calls -> {"idle", "operate", "commit"} \cup Over]
      /\ phase'[c] = result /\ \A d \in Calls \ {c} : phase'[d] = phase[d]
  BY <1>0, <1>1, Zenon DEF MongoTypeOK, Over, Returned
<1>3. MongoTypeOK'
  <2>1. \A d \in Calls : phase'[d] = "commit" => opIdx'[d] = Len(ops'[d]) + 1
    BY <1>0, <1>1, <1>2 DEF MongoTypeOK
  <2> QED BY <1>0, <1>1, <1>2, <2>1, MongoApply, Zenon DEF MongoTypeOK
<1>4. ASSUME NEW d \in Calls PROVE Transaction(d)'
  <2>1. Transaction(d)
    BY DEF MongoInv
  <2>4. Sent(d)' <=> Sent(d)
    BY <1>1, Zenon DEF Sent
  <2>2. CASE d # c
    <3>1. applied'[d] = applied[d] /\ commits'[d] = commits[d]
      BY <2>2, MongoApply
    <3> QED BY <1>1, <1>2, <2>1, <2>2, <2>4, <3>1, Zenon DEF Transaction
  <2>3. CASE d = c
    <3>1. commits'[c] = IF applied'[c] THEN 1 ELSE 0
      BY MongoApply
    <3> QED BY <1>1, <1>2, <2>1, <2>3, <2>4, <3>1, Zenon DEF Transaction
  <2> QED BY <2>2, <2>3
<1> QED BY <1>3, <1>4, MongoApply DEF MongoInv

\* A transaction that is run again has not been committed.
LEMMA MongoRunAgain ==
  ASSUME MongoInv, NEW c \in Calls, phase[c] = "commit", Sent(c), ~applied[c], RunAgain(c),
         UNCHANGED <<docs, stale, applied, commits>>
  PROVE  MongoInv'
<1>0. MongoTypeOK /\ DataIsCommitted
  BY DEF MongoInv
<1>1. /\ phase' = [phase EXCEPT ![c] = "operate"]
      /\ opIdx' = [opIdx EXCEPT ![c] = 1] /\ wset' = [wset EXCEPT ![c] = {}]
      /\ UNCHANGED <<meth, ops, view, expired>>
  BY DEF RunAgain
<1>2. 1 \in 1 .. Len(ops[c])
  <2>1. opIdx[c] = Len(ops[c]) + 1 /\ Len(ops[c]) \in Nat
    BY <1>0 DEF MongoTypeOK
  <2>2. PICK i \in 1 .. opIdx[c] - 1 : Sends(ops[c][i])
    BY Zenon DEF Sent
  <2> QED BY <2>1, <2>2
<1>3. /\ phase'[c] = "operate"
      /\ opIdx'[c] = 1 /\ wset'[c] = {}
      /\ \A d \in Calls \ {c} : phase'[d] = phase[d] /\ opIdx'[d] = opIdx[d] /\ wset'[d] = wset[d]
  BY <1>0, <1>1 DEF MongoTypeOK
<1>4. MongoTypeOK'
  <2>1. \A d \in Calls : phase'[d] = "commit" => opIdx'[d] = Len(ops'[d]) + 1
    BY <1>0, <1>1, <1>2, <1>3 DEF MongoTypeOK
  <2>2. /\ phase' \in [Calls -> {"idle", "operate", "commit"} \cup Over]
        /\ wset' \in [Calls -> SUBSET Keys]
    BY <1>0, <1>1, Zenon DEF MongoTypeOK
  <2>3. opIdx' \in [Calls -> Nat \ {0}]
    BY <1>0, <1>1 DEF MongoTypeOK
  <2> QED BY <1>0, <1>1, <2>1, <2>2, <2>3, Zenon DEF MongoTypeOK
<1>5. ASSUME NEW d \in Calls PROVE Transaction(d)'
  <2>1. Transaction(d)
    BY DEF MongoInv
  <2>2. CASE d # c
    <3>1. Sent(d)' <=> Sent(d)
      BY <1>1, <1>3, <2>2, Zenon DEF Sent
    <3> QED BY <1>1, <1>3, <2>1, <2>2, <3>1, Zenon DEF Transaction
  <2>3. CASE d = c
    BY <1>1, <1>2, <1>3, <2>1, <2>3, Zenon DEF Transaction
  <2> QED BY <2>2, <2>3
<1>6. DataIsCommitted'
  BY <1>0 DEF DataIsCommitted
<1> QED BY <1>4, <1>5, <1>6 DEF MongoInv

\* Every step keeps the invariant.
LEMMA MongoNextInv == MongoInv /\ [MongoNext]_mongoVars => MongoInv'
<1> SUFFICES ASSUME MongoInv, [MongoNext]_mongoVars PROVE MongoInv'
  OBVIOUS
<1>1. ASSUME NEW c \in Calls, MongoStep(c) PROVE MongoInv'
  <2>1. CASE Commit(c)
    BY <2>1, MongoCommitReturns DEF Commit
  <2>2. CASE CommitUnknown(c)
    BY <2>2, MongoCommitReturns DEF CommitUnknown
  <2>3. CASE CommitTransient(c)
    BY <2>3, MongoCommitReturns, MongoRunAgain DEF CommitTransient
  <2>4. CASE CommitRejected(c)
    BY <2>4, MongoCommitReturns DEF CommitRejected
  <2> QED BY <1>1, <2>1, <2>2, <2>3, <2>4, MongoOperate, MongoQuietStep DEF MongoStep
<1>2. CASE UNCHANGED mongoVars
  <2>1. \A c \in Calls : Sent(c)' <=> Sent(c)
    BY <1>2, Zenon DEF mongoVars, Sent
  <2>2. \A c \in Calls : Transaction(c)'
    BY <1>2, <2>1, Zenon DEF mongoVars, MongoInv, Transaction
  <2> QED BY <1>2, <2>2, Zenon DEF mongoVars, MongoInv, MongoTypeOK, DataIsCommitted
<1> QED BY <1>1, <1>2, MongoQuietStep DEF MongoNext, MongoFinished

\* Every variable of the MongoDB store keeps its type, and a transaction that is
\* to be committed has run all its operations.
THEOREM MongoTypes == MongoSpec => []MongoTypeOK
<1>1. MongoInv => MongoTypeOK
  BY DEF MongoInv
<1> QED BY <1>1, MongoInitInv, MongoNextInv, PTL DEF MongoSpec

\* The operations of a Multi are committed at most once, however often
\* WithTransaction sends the commit or runs the operations again, and not at all
\* if Multi returns an error; and no document holds data of a Multi that was not
\* committed.
THEOREM MongoAppliedAtMostOnce ==
  MongoSpec => []AppliedAtMostOnce
<1>1. MongoInv => AppliedAtMostOnce
  BY DEF MongoInv, Transaction, DataIsCommitted, AppliedAtMostOnce
<1> QED BY <1>1, MongoInitInv, MongoNextInv, PTL DEF MongoSpec

\* The call goes on: to its next operation, or it returns.
MongoMovesOn(c) ==
  \/ phase[c] = "operate" /\ opIdx[c] <= Len(ops[c]) /\ opIdx'[c] = opIdx[c] + 1 /\ ops'[c] = ops[c]
  \/ phase[c] \notin Over /\ phase'[c] \in Over

MongoStays(c) ==
  phase'[c] = phase[c] /\ meth'[c] = meth[c] /\ ops'[c] = ops[c] /\ opIdx'[c] = opIdx[c]

\* What EveryMongoCallReturns rests on.  WithTransaction repeats the commit and
\* the whole transaction, which takes a call back to its first operation; once
\* its timer has fired, which is for good, no step does: the call runs the
\* operations that are left of its list and returns at the commit.
THEOREM MongoTimerEndsTheLoops ==
  MongoSpec => [][\A c \in Calls : phase[c] # "idle" /\ expired[c] =>
                    expired'[c] /\ (MongoMovesOn(c) \/ MongoStays(c))]_mongoVars
<1> DEFINE Ends(c) == phase[c] # "idle" /\ expired[c] =>
                        expired'[c] /\ (MongoMovesOn(c) \/ MongoStays(c))
           Onward == \A c \in Calls : Ends(c)
<1>1. ASSUME MongoInv, NEW c \in Calls,
             \/ CallPlain(c) \/ CallMulti(c) \/ StartSessionFails(c)
             \/ MongoStep(c) \/ TimerFires(c)
      PROVE  Onward
  <2>1. /\ phase \in [Calls -> {"idle", "operate", "commit"} \cup Over]
        /\ meth \in [Calls -> Methods \cup {"none", "multi"}] /\ ops \in [Calls -> Seq(Operations)]
        /\ opIdx \in [Calls -> Nat \ {0}] /\ expired \in [Calls -> BOOLEAN]
    BY <1>1, Zenon DEF MongoInv, MongoTypeOK
  <2>2. CASE CallPlain(c) \/ CallMulti(c) \/ StartSessionFails(c)
    <3>1. phase[c] = "idle" /\ UNCHANGED <<opIdx, expired>>
      BY <2>2, Zenon DEF CallPlain, CallMulti, StartSessionFails
    <3>2. \A d \in Calls \ {c} : MongoStays(d)
      BY <2>1, <2>2, Zenon DEF CallPlain, CallMulti, StartSessionFails, MongoStays
    <3> QED BY <3>1, <3>2, Zenon
  <2>3. CASE TimerFires(c)
    <3>1. /\ UNCHANGED <<phase, meth, ops, opIdx>>
          /\ expired' = [expired EXCEPT ![c] = TRUE]
      BY <2>3, Zenon DEF TimerFires
    <3>2. \A d \in Calls : MongoStays(d) /\ (expired[d] => expired'[d])
      BY <2>1, <3>1, Zenon DEF MongoStays
    <3> QED BY <3>2, Zenon
  <2>4. CASE Operate(c)
    <3>1. /\ phase[c] = "operate" /\ opIdx' = [opIdx EXCEPT ![c] = @ + 1]
          /\ \E at : phase' = [phase EXCEPT ![c] = at]
          /\ UNCHANGED <<meth, ops, expired>>
      BY <2>4, Zenon DEF Operate
    <3>2. opIdx[c] \in 1 .. Len(ops[c])
      BY <1>1, <3>1, Zenon DEF MongoInv, Transaction
    <3>3. opIdx[c] <= Len(ops[c])
      BY <2>1, <3>2
    <3>4. MongoMovesOn(c)
      BY <2>1, <3>1, <3>3, Zenon DEF MongoMovesOn
    <3>5. \A d \in Calls \ {c} : MongoStays(d)
      BY <2>1, <3>1, Zenon DEF MongoStays
    <3> QED BY <3>1, <3>4, <3>5, Zenon
  <2>5. CASE OperateFails(c) \/ CommitNothing(c) \/ Commit(c) \/ CommitRejected(c)
             \/ (CommitUnknown(c) /\ expired[c]) \/ (CommitTransient(c) /\ expired[c])
    <3>1. /\ phase[c] \in {"operate", "commit"}
          /\ \E at \in Over : phase' = [phase EXCEPT ![c] = at]
          /\ UNCHANGED <<meth, ops, opIdx, expired>>
      BY <2>5, Zenon DEF OperateFails, CommitNothing, Commit, CommitRejected, CommitUnknown,
         CommitTransient, Return, Over, Returned
    <3>2. phase'[c] \in Over /\ \A d \in Calls \ {c} : MongoStays(d)
      BY <2>1, <3>1, Zenon DEF MongoStays
    <3>3. phase[c] \notin Over
      BY <3>1 DEF Over, Returned
    <3> QED BY <3>1, <3>2, <3>3, Zenon DEF MongoMovesOn
  <2>6. CASE ~expired[c] /\ (CommitUnknown(c) \/ CommitTransient(c))
    <3>1. /\ \E at : phase' = [phase EXCEPT ![c] = at]
          /\ opIdx' = opIdx \/ opIdx' = [opIdx EXCEPT ![c] = 1]
          /\ UNCHANGED <<meth, ops, expired>>
      BY <2>6, Zenon DEF CommitUnknown, CommitTransient, Return, RunAgain
    <3>2. \A d \in Calls \ {c} : MongoStays(d)
      BY <2>1, <3>1, Zenon DEF MongoStays
    <3> QED BY <2>6, <3>1, <3>2, Zenon
  <2> QED BY <1>1, <2>2, <2>3, <2>4, <2>5, <2>6, Zenon DEF MongoStep
<1>2. ASSUME MongoInv, [MongoNext]_mongoVars PROVE [Onward]_mongoVars
  <2>1. CASE MongoNext
    BY <1>1, <1>2, <2>1, Zenon DEF MongoNext, MongoFinished
  <2> QED BY <1>2, <2>1, Zenon
<1> QED BY <1>2, MongoInitInv, MongoNextInv, PTL DEF MongoSpec
=============================================================================
