------------------------ MODULE ZookeeperStateProofs ------------------------
(***************************************************************************)
(* The ZooKeeper store has its types, implements the versioned store,      *)
(* returns nil only for what it has done, fails without an effect unless a *)
(* connection failed and never takes a call back, for every set of calls,  *)
(* keys and requests.                                                      *)
(***************************************************************************)
EXTENDS ZookeeperState, FiniteSetTheorems, WellFoundedInduction, TLAPS

Errors == {"nil", "request", "NoNode", "NodeExists", "InvalidACL", "BadVersion", "connection"}

Sending == {"set", "create", "delete", "bulkset", "bulkdelete"}

\* The version a request asks for, as its caller states it.
Asked(q) == IF NamesVersion(q) THEN q.etag ELSE anyVersion

\* The operations of a command delete, or set, or are the one that creates.
OneKind(list) ==
  \/ \A i \in DOMAIN list : list[i].op = "delete"
  \/ \A i \in DOMAIN list : list[i].op = "set"
  \/ DOMAIN list = {1} /\ list[1].op = "create"

\* The operations call c sends are its requests: each on the key and with the
\* version its caller asks for.
Fit(c, list) ==
  /\ DOMAIN list = DOMAIN reqs[c]
  /\ \A i \in DOMAIN list : list[i].key = reqs[c][i].key /\ list[i].version = Asked(reqs[c][i])
  /\ OneKind(list)

\* What a call is doing fits its method, and what it sends its requests.
CallShape ==
  \A c \in Calls :
    /\ pc[c] \in {"set", "create", "delete", "sleep"} => kind[c] \in {"set", "delete"}
    /\ kind[c] \in {"set", "delete"} => Len(reqs[c]) = 1
    /\ pc[c] \in Sending => Fit(c, ops[c])

\* An orphan is what a call that has begun once sent.
OrphansFit == \A m \in orphans : pc[m.call] # "idle" /\ Fit(m.call, m.ops)

Inv == TypeOK /\ CallShape /\ OrphansFit

-----------------------------------------------------------------------------
\* The server.
StoreTypeOK ==
  /\ tree \in [Keys -> Nodes]
  /\ era \in [Keys -> Nat]
  /\ wins \subseteq [key : Keys, era : Nat, version : Nat,
                     command : Calls \X Nat \X Nat]
  /\ effects \subseteq Calls \X Nat

\* The fields of a znode.
LEMMA NodeFields ==
  ASSUME NEW n \in Nodes
  PROVE  /\ n.node \in BOOLEAN
         /\ n.node => n.data \in Values /\ n.version \in Nat
<1>1. CASE n = NoNode
  BY <1>1 DEF NoNode
<1>2. CASE n \in [node : {TRUE}, data : Values, version : Nat]
  BY <1>2, Zenon
<1> QED BY <1>1, <1>2, Zenon DEF Nodes

\* No node, and a node with data and a version, are nodes.
LEMMA NodeForms ==
  /\ NoNode \in Nodes
  /\ \A v \in Values, n \in Nat : Node(v, n) \in Nodes
BY DEF Nodes, NoNode, Node

\* The fields of a command.
LEMMA CommandFields ==
  ASSUME NEW m \in Commands
  PROVE  /\ m.call \in Calls /\ m.call \in Values /\ m.att \in Nat
         /\ m.ops \in Seq(Operations) /\ DOMAIN m.ops \subseteq Nat
         /\ \A i \in DOMAIN m.ops :
              /\ m.ops[i].op \in {"set", "create", "delete"}
              /\ m.ops[i].key \in Keys
              /\ m.ops[i].version \in Nat \cup {anyVersion}
<1>1. m.call \in Calls /\ m.att \in Nat /\ m.ops \in Seq(Operations)
  BY DEF Commands
<1>2. DOMAIN m.ops \subseteq Nat /\ \A i \in DOMAIN m.ops : m.ops[i] \in Operations
  BY <1>1
<1> QED BY <1>1, <1>2, Zenon DEF Operations, Values

\* A finite set without one of its members is smaller.
LEMMA FewerInPart ==
  ASSUME NEW S, IsFiniteSet(S), NEW T \in SUBSET S, NEW x \in S, x \notin T
  PROVE  Cardinality(T) \in Nat /\ Cardinality(S) \in Nat /\ Cardinality(T) < Cardinality(S)
<1>1. IsFiniteSet(S \ {x}) /\ Cardinality(S \ {x}) = Cardinality(S) - 1
  BY FS_RemoveElement
<1>2. T \in SUBSET (S \ {x})
  OBVIOUS
<1>3. IsFiniteSet(T) /\ Cardinality(T) <= Cardinality(S \ {x})
  BY <1>1, <1>2, FS_Subset
<1>4. Cardinality(T) \in Nat /\ Cardinality(S) \in Nat
  BY <1>3, FS_CardinalityType
<1> QED BY <1>1, <1>3, <1>4

\* The operations on one key, counted: fewer are before an operation than there
\* are, and fewer than before a later one.
LEMMA BeforeCounts ==
  ASSUME NEW m \in Commands, NEW i \in DOMAIN m.ops
  PROVE  /\ Cardinality(Before(m, i)) \in Nat
         /\ Cardinality(On(m, m.ops[i].key)) \in Nat
         /\ Cardinality(Before(m, i)) < Cardinality(On(m, m.ops[i].key))
         /\ \A j \in DOMAIN m.ops :
              m.ops[j].key = m.ops[i].key /\ j < i
                => Cardinality(Before(m, j)) < Cardinality(Before(m, i))
<1> DEFINE S == On(m, m.ops[i].key)
<1>1. m.ops \in Seq(Operations) /\ DOMAIN m.ops \subseteq Nat
  BY CommandFields, Zenon
<1>2. IsFiniteSet(S)
  <2>1. DOMAIN m.ops = 1 .. Len(m.ops) /\ Len(m.ops) \in Nat
    BY <1>1
  <2>2. IsFiniteSet(DOMAIN m.ops)
    BY <2>1, FS_Interval
  <2> QED BY <2>2, FS_Subset DEF On
<1>3. Before(m, i) \in SUBSET S /\ i \in S /\ i \notin Before(m, i)
  BY <1>1 DEF Before, On
<1>4. IsFiniteSet(Before(m, i))
  BY <1>2, <1>3, FS_Subset
<1>5. ASSUME NEW j \in DOMAIN m.ops, m.ops[j].key = m.ops[i].key, j < i
      PROVE  Cardinality(Before(m, j)) < Cardinality(Before(m, i))
  <2>1. i \in Nat /\ j \in Nat /\ \A h \in DOMAIN m.ops : h \in Nat
    BY <1>1
  <2>2. Before(m, j) \in SUBSET Before(m, i) /\ j \in Before(m, i) /\ j \notin Before(m, j)
    BY <1>5, <2>1 DEF Before, On
  <2> QED BY <1>4, <2>2, FewerInPart
<1> QED BY <1>2, <1>3, <1>5, FewerInPart

\* What an operation that goes through found.
LEMMA OpFound ==
  ASSUME StoreTypeOK, NEW m \in Commands, Succeeds(m), NEW i \in DOMAIN m.ops
  PROVE  /\ m.ops[i].op = "create" <=> ~tree[m.ops[i].key].node
         /\ m.ops[i].op # "create" =>
              /\ tree[m.ops[i].key].version \in Nat
              /\ m.ops[i].version
                   \in {anyVersion, tree[m.ops[i].key].version + Cardinality(Before(m, i))}
         /\ m.ops[i].op = "delete" => Before(m, i) = {}
<1>1. OpError(m, i) = "nil" /\ m.ops[i].key \in Keys
  BY CommandFields DEF Succeeds
<1>2. tree[m.ops[i].key] \in Nodes
  BY <1>1 DEF StoreTypeOK
<1> QED BY <1>1, <1>2, NodeFields, Zenon DEF OpError

\* What a command leaves of a key it reaches.
LEMMA AfterForms ==
  ASSUME StoreTypeOK, NEW m \in Commands, Succeeds(m), NEW k \in Keys, On(m, k) # {}
  PROVE  \E i \in On(m, k) :
           /\ m.ops[i].op = "delete" => After(m, k) = NoNode
           /\ m.ops[i].op = "create" => After(m, k) = Node(m.call, 0)
           /\ m.ops[i].op = "set" =>
                /\ tree[k].version \in Nat
                /\ Cardinality(On(m, k)) \in Nat /\ Cardinality(On(m, k)) > 0
                /\ After(m, k) = Node(m.call, tree[k].version + Cardinality(On(m, k)))
<1> DEFINE i == CHOOSE j \in On(m, k) : TRUE
<1>1. i \in On(m, k)
  BY Zenon
<1>2. After(m, k) = CASE m.ops[i].op = "delete" -> NoNode
                      [] m.ops[i].op = "create" -> Node(m.call, 0)
                      [] m.ops[i].op = "set"    -> Node(m.call, tree[k].version + Cardinality(On(m, k)))
  BY Zenon DEF After
<1> HIDE DEF i
<1>3. i \in DOMAIN m.ops /\ m.ops[i].key = k
  BY <1>1, Zenon DEF On
<1>4. m.ops[i].op = "set" => tree[k].version \in Nat
  BY <1>3, OpFound, Zenon
<1>5. Cardinality(On(m, k)) \in Nat /\ Cardinality(On(m, k)) > 0
  BY <1>3, BeforeCounts
<1>6. m.ops[i].op = "delete" => After(m, k) = NoNode
  BY <1>2
<1>7. m.ops[i].op = "create" => After(m, k) = Node(m.call, 0)
  BY <1>2
<1>8. m.ops[i].op = "set" => After(m, k) = Node(m.call, tree[k].version + Cardinality(On(m, k)))
  BY <1>2
<1> QED BY <1>1, <1>4, <1>5, <1>6, <1>7, <1>8, Zenon

\* The requests a command stands for.
LEMMA RequestFields ==
  ASSUME reqs \in [Calls -> Seq(Requests)], NEW m \in Commands, Fit(m.call, m.ops),
         NEW i \in DOMAIN m.ops
  PROVE  reqs[m.call][i] \in Requests /\ reqs[m.call][i].key \in Keys
<1>1. reqs[m.call] \in Seq(Requests) /\ i \in DOMAIN reqs[m.call]
  BY CommandFields DEF Fit
<1>2. reqs[m.call][i] \in Requests
  BY <1>1
<1> QED BY <1>2, Zenon DEF Requests

\* A command the server performs keeps the types of what it holds.
LEMMA PerformType ==
  ASSUME StoreTypeOK, reqs \in [Calls -> Seq(Requests)], NEW m \in Commands,
         Fit(m.call, m.ops), Perform(m)
  PROVE  StoreTypeOK'
<1>0. Succeeds(m)
  BY Zenon DEF Perform
<1>1. ASSUME NEW k \in Keys, On(m, k) # {} PROVE After(m, k) \in Nodes
  <2>1. PICK i \in On(m, k) :
           /\ m.ops[i].op = "delete" => After(m, k) = NoNode
           /\ m.ops[i].op = "create" => After(m, k) = Node(m.call, 0)
           /\ m.ops[i].op = "set" =>
                /\ tree[k].version \in Nat
                /\ Cardinality(On(m, k)) \in Nat /\ Cardinality(On(m, k)) > 0
                /\ After(m, k) = Node(m.call, tree[k].version + Cardinality(On(m, k)))
    BY <1>0, <1>1, AfterForms, Zenon
  <2>2. m.ops[i].op \in {"set", "create", "delete"} /\ m.call \in Values
    BY CommandFields, Zenon DEF On
  <2>3. 0 \in Nat /\ \A a, b \in Nat : a + b \in Nat
    OBVIOUS
  <2> QED BY <2>1, <2>2, <2>3, NodeForms, Zenon
<1>2. tree' \in [Keys -> Nodes]
  BY <1>1, Zenon DEF Perform, StoreTypeOK
<1>3. era' \in [Keys -> Nat]
  BY SMTT(20) DEF Perform, StoreTypeOK
<1>4. wins' \subseteq [key : Keys, era : Nat, version : Nat, command : Calls \X Nat \X Nat]
  <2>1. ASSUME NEW i \in DOMAIN m.ops, NamesVersion(reqs[m.call][i])
        PROVE  [key |-> reqs[m.call][i].key, era |-> era[reqs[m.call][i].key],
                version |-> reqs[m.call][i].etag, command |-> <<m.call, i, m.att>>]
                 \in [key : Keys, era : Nat, version : Nat, command : Calls \X Nat \X Nat]
    BY <2>1, CommandFields, RequestFields, Zenon DEF StoreTypeOK, NamesVersion
  <2>2. Won(m) \subseteq [key : Keys, era : Nat, version : Nat, command : Calls \X Nat \X Nat]
    BY <2>1, Zenon DEF Won
  <2> QED BY <2>2, Zenon DEF Perform, StoreTypeOK
<1>5. effects' \subseteq Calls \X Nat
  BY CommandFields, SMTT(20) DEF Perform, StoreTypeOK
<1> QED BY <1>2, <1>3, <1>4, <1>5 DEF StoreTypeOK

\* The command a call sends.
LEMMA CommandType ==
  ASSUME Inv, NEW c \in Calls
  PROVE  Command(c) \in Commands /\ Command(c).ops = ops[c] /\ Command(c).call = c
BY Zenon DEF Inv, TypeOK, Command, Commands

\* Every step of the system leaves the tree alone or performs one command.
LEMMA StepPerformsOne ==
  ASSUME Inv, [Next]_vars
  PROVE  \/ UNCHANGED <<tree, era, wins>>
         \/ \E m \in Commands : Fit(m.call, m.ops) /\ Perform(m)
<1>1. ASSUME NEW c \in Calls, Done(c) \/ MultiDone(c)
      PROVE  \E m \in Commands : Fit(m.call, m.ops) /\ Perform(m)
  BY <1>1, CommandType, Zenon DEF Done, MultiDone, Inv, CallShape, Sending
<1>2. ASSUME NEW c \in Calls, Call(c)
      PROVE  UNCHANGED <<tree, era, wins>>
  BY <1>2, Zenon DEF Call, CallSet, CallDelete, CallBulkSet, CallBulkDelete, Begin, Get, GetLost,
       ServerQuiet
<1>3. ASSUME NEW c \in Calls, Step(c), ~Done(c), ~MultiDone(c)
      PROVE  UNCHANGED <<tree, era, wins>>
  BY <1>3, Zenon DEF Step, SetFindsNoNode, DeleteFindsNoNode, Refused, Lost, Wake, MultiRefused,
              MultiLost, Lose, ServerQuiet
<1>4. ASSUME NEW m \in orphans, OrphanPerformed(m)
      PROVE  \/ UNCHANGED <<tree, era, wins>>
             \/ \E n \in Commands : Fit(n.call, n.ops) /\ Perform(n)
  BY <1>4 DEF OrphanPerformed, Inv, OrphansFit, TypeOK
<1>5. CASE UNCHANGED vars
  BY <1>5 DEF vars
<1> QED BY <1>1, <1>2, <1>3, <1>4, <1>5 DEF Next, Finished

-----------------------------------------------------------------------------
\* The calls.

\* The error of a refused transaction is the error of one of its operations.
LEMMA FirstErrorType ==
  ASSUME NEW m \in Commands, ~Succeeds(m)
  PROVE  FirstError(m) \in {"NoNode", "NodeExists", "InvalidACL", "BadVersion"}
<1> DEFINE Bad == {j \in DOMAIN m.ops : OpError(m, j) # "nil"}
           Less == {p \in Nat \X Nat : p[1] < p[2]}
<1>1. DOMAIN m.ops = 1 .. Len(m.ops) /\ Len(m.ops) \in Nat /\ Bad \subseteq Nat /\ Bad # {}
  BY CommandFields DEF Succeeds
<1>2. IsWellFoundedOn(Less, Nat)
  BY NatLessThanWellFounded DEF OpToRel
<1>3. PICK j \in Bad : \A n \in Bad : ~(<<n, j>> \in Less)
  <2> HIDE DEF Bad, Less
  <2> QED BY <1>1, <1>2, WFMin, Zenon
<1>4. OpError(m, j) # "nil" /\ \A n \in 1 .. j - 1 : OpError(m, n) = "nil"
  <2>1. ASSUME NEW n \in Bad PROVE ~(n < j)
    <3>1. <<n, j>> \in Nat \X Nat /\ <<n, j>>[1] = n /\ <<n, j>>[2] = j
      BY <1>1
    <3> QED BY <1>3, <3>1
  <2> QED BY <1>1, <1>3, <2>1
<1> DEFINE i == CHOOSE h \in DOMAIN m.ops :
                  /\ OpError(m, h) # "nil"
                  /\ \A n \in 1 .. h - 1 : OpError(m, n) = "nil"
<1>5. OpError(m, i) # "nil"
  BY <1>3, <1>4, Zenon
<1>6. FirstError(m) = OpError(m, i)
  BY DEF FirstError
<1> HIDE DEF i
<1> QED BY <1>5, <1>6, Zenon DEF OpError

\* The operation made from a request has the version its caller asks for.
LEMMA OperationType ==
  ASSUME NEW op \in {"set", "create", "delete"}, NEW r \in Requests
  PROVE  /\ Operation(op, r) \in Operations
         /\ Operation(op, r).op = op /\ Operation(op, r).key = r.key
         /\ Operation(op, r).version = Asked(r)
<1>1. r.key \in Keys
  BY DEF Requests
<1>2. parseETag(r.etag) \in Nat \cup {anyVersion}
  BY DEF parseETag
<1>3. Operation(op, r).version = Asked(r)
  BY Zenon DEF Operation, Asked, NamesVersion, parseETag
<1> QED BY <1>1, <1>2, <1>3 DEF Operation, Operations

\* The one operation of the one request of a call.
LEMMA OneFits ==
  ASSUME NEW c \in Calls, reqs[c] \in Seq(Requests), Len(reqs[c]) = 1,
         NEW o \in Operations, o.key = reqs[c][1].key, o.version = Asked(reqs[c][1])
  PROVE  Fit(c, <<o>>) /\ <<o>> \in Seq(Operations)
<1>1. DOMAIN reqs[c] = {1}
  OBVIOUS
<1>2. <<o>> \in Seq(Operations) /\ DOMAIN <<o>> = {1} /\ <<o>>[1] = o
  OBVIOUS
<1>3. o.op \in {"set", "create", "delete"}
  BY DEF Operations
<1> QED BY <1>1, <1>2, <1>3, Zenon DEF Fit, OneKind

Methods == {"set", "delete", "bulkset", "bulkdelete"}

\* A call that begins has the shape of its method.
LEMMA BeginKeeps ==
  ASSUME Inv, NEW c \in Calls, NEW method \in Methods, NEW op \in {"set", "delete"},
         NEW list \in Seq(Requests), NEW good \in BOOLEAN,
         method \in {"set", "delete"} => Len(list) = 1,
         Begin(c, method, op, list, good)
  PROVE  Inv'
<1> DEFINE sent == [i \in DOMAIN list |-> Operation(op, list[i])]
<1>1. /\ sent \in Seq(Operations) /\ Len(sent) = Len(list) /\ DOMAIN sent = DOMAIN list
      /\ \A i \in DOMAIN list :
           sent[i].op = op /\ sent[i].key = list[i].key /\ sent[i].version = Asked(list[i])
  <2>1. \A i \in DOMAIN list : list[i] \in Requests
    OBVIOUS
  <2> QED BY <2>1, OperationType
<1>3. ops' = [ops EXCEPT ![c] = sent]
  BY DEF Begin
<1>2. reqs'[c] = list /\ \A d \in Calls \ {c} : reqs'[d] = reqs[d]
  BY Zenon DEF Begin, Inv, TypeOK
<1> HIDE DEF sent
<1>4. TypeOK'
  <2>1. tree' = tree /\ orphans' = orphans /\ era' = era /\ wins' = wins
        /\ effects' = effects /\ faulted' = faulted /\ att' = att /\ skipACL' = skipACL
    BY DEF Begin, ServerQuiet
  <2>2. pc' \in [Calls -> {"idle", "set", "create", "delete", "sleep",
                           "bulkset", "bulkdelete"} \cup Returned]
    BY Zenon DEF Begin, Inv, TypeOK, Methods, Returned
  <2>3. kind' \in [Calls -> {"none", "set", "delete", "bulkset", "bulkdelete", "get"}]
    BY Zenon DEF Begin, Inv, TypeOK, Methods
  <2>4. reqs' \in [Calls -> Seq(Requests)] /\ ops' \in [Calls -> Seq(Operations)]
    BY <1>1, <1>3 DEF Begin, Inv, TypeOK
  <2>5. err' \in [Calls -> Errors]
    BY Zenon DEF Begin, Inv, TypeOK, Errors
  <2> QED BY <2>1, <2>2, <2>3, <2>4, <2>5, Zenon DEF Inv, TypeOK, Errors
<1>5. ASSUME NEW d \in Calls \ {c}, NEW sent_d, Fit(d, sent_d) PROVE Fit(d, sent_d)'
  BY <1>2, <1>5, Zenon DEF Fit, OneKind
<1>6. CallShape'
  <2> SUFFICES ASSUME NEW d \in Calls
               PROVE  /\ pc'[d] \in {"set", "create", "delete", "sleep"} => kind'[d] \in {"set", "delete"}
                      /\ kind'[d] \in {"set", "delete"} => Len(reqs'[d]) = 1
                      /\ pc'[d] \in Sending => Fit(d, ops[d])'
    BY DEF CallShape
  <2>1. CASE d = c
    <3>1. pc'[c] \in {method, "err"} /\ kind'[c] = method /\ ops'[c] = sent
      BY <1>3 DEF Begin, Inv, TypeOK
    <3>2. Fit(c, ops[c])'
      BY <1>1, <1>2, <3>1, Zenon DEF Fit, OneKind
    <3> QED BY <1>2, <2>1, <3>1, <3>2 DEF Methods
  <2>2. CASE d # c
    <3>1. pc'[d] = pc[d] /\ kind'[d] = kind[d] /\ reqs'[d] = reqs[d] /\ ops'[d] = ops[d]
      BY <2>2, Zenon DEF Begin, Inv, TypeOK
    <3>2. Fit(d, ops[d]) => Fit(d, ops[d])'
      BY <3>1, Zenon DEF Fit, OneKind
    <3> QED BY <3>1, <3>2, Zenon DEF Inv, CallShape
  <2> QED BY <2>1, <2>2, Zenon
<1>7. OrphansFit'
  <2> SUFFICES ASSUME NEW m \in orphans PROVE pc'[m.call] # "idle" /\ Fit(m.call, m.ops)'
    BY Zenon DEF Begin, ServerQuiet, OrphansFit
  <2>1. m.call \in Calls \ {c} /\ pc[m.call] # "idle" /\ Fit(m.call, m.ops)
    BY Zenon DEF Begin, Inv, OrphansFit, TypeOK, Commands
  <2>2. pc'[m.call] = pc[m.call]
    BY <2>1, Zenon DEF Begin, Inv, TypeOK
  <2> QED BY <1>5, <2>1, <2>2, Zenon
<1> QED BY <1>4, <1>6, <1>7 DEF Inv

\* A method call that begins keeps the invariant.
LEMMA CallKeeps == ASSUME Inv, NEW c \in Calls, Call(c) PROVE Inv'
<1>1. ASSUME NEW r \in Requests
      PROVE  <<r>> \in Seq(Requests) /\ Len(<<r>>) = 1
  OBVIOUS
<1>2. CASE CallSet(c)
  <2>1. PICK r \in SetRequests, encoded \in BOOLEAN :
          Begin(c, "set", "set", <<r>>,
                CheckRequestOptions(r.options) /\ encoded /\ KnownPattern(r.options))
    BY <1>2, Zenon DEF CallSet
  <2> QED BY <1>1, <2>1, BeginKeeps, ConstantsAssumption, Zenon DEF Methods
<1>3. CASE CallDelete(c)
  BY <1>1, <1>3, BeginKeeps, ConstantsAssumption, Zenon DEF CallDelete, Methods
<1>4. CASE CallBulkSet(c)
  <2>1. PICK list \in BulkSetRequests : \E encoded \in [DOMAIN list -> BOOLEAN] :
          Begin(c, "bulkset", "set", list,
                AllOptionsOK(list) /\ \A i \in DOMAIN list : encoded[i])
    BY <1>4, Zenon DEF CallBulkSet
  <2>2. list \in Seq(Requests)
    BY ConstantsAssumption, Zenon
  <2> QED BY <2>1, <2>2, BeginKeeps, Zenon DEF Methods, AllOptionsOK
<1>5. CASE CallBulkDelete(c)
  BY <1>5, BeginKeeps, ConstantsAssumption, Zenon DEF CallBulkDelete, Methods, AllOptionsOK
<1>6. CASE Get(c) \/ GetLost(c)
  <2>1. /\ pc' \in [Calls -> {"idle", "set", "create", "delete", "sleep",
                              "bulkset", "bulkdelete"} \cup Returned]
        /\ pc'[c] \in Returned /\ \A d \in Calls \ {c} : pc'[d] = pc[d]
    BY <1>6, Zenon DEF Get, GetLost, Inv, TypeOK, Returned
  <2>2. kind' = [kind EXCEPT ![c] = "get"] /\ reqs' = reqs /\ ops' = ops /\ att' = att
    BY <1>6 DEF Get, GetLost
  <2>3. err' \in [Calls -> Errors]
    BY <1>6, Zenon DEF Get, GetLost, Inv, TypeOK, Errors
  <2>4. UNCHANGED <<skipACL, tree, orphans, era, wins, effects, faulted>>
    BY <1>6 DEF Get, GetLost, ServerQuiet
  <2>5. TypeOK'
    BY <2>1, <2>2, <2>3, <2>4, Zenon DEF Inv, TypeOK, Errors
  <2>6. \A d \in Calls : \A list : Fit(d, list)' <=> Fit(d, list)
    BY <2>2, Zenon DEF Fit, OneKind
  <2>7. CallShape'
    <3>1. pc'[c] \notin {"set", "create", "delete", "sleep"} \cup Sending
      BY <2>1 DEF Returned, Sending
    <3>2. kind'[c] = "get" /\ \A d \in Calls \ {c} : kind'[d] = kind[d]
      BY <2>2, Zenon DEF Inv, TypeOK
    <3>3. \A d \in Calls : Fit(d, ops[d])' <=> Fit(d, ops[d])
      BY <2>2, Zenon DEF Fit, OneKind
    <3> QED BY <2>1, <2>2, <3>1, <3>2, <3>3 DEF Inv, CallShape
  <2>8. OrphansFit'
    <3>1. \A m \in orphans : m.call \in Calls
      BY Zenon DEF Inv, TypeOK, Commands
    <3>2. \A d \in Calls : pc'[d] = "idle" => pc[d] = "idle"
      BY <2>1 DEF Returned
    <3> QED BY <2>4, <2>6, <3>1, <3>2, Zenon DEF Inv, OrphansFit
  <2> QED BY <2>5, <2>7, <2>8 DEF Inv
<1> QED BY <1>2, <1>3, <1>4, <1>5, <1>6 DEF Call

\* A step of call c that moves its control, and not its method or requests.
LEMMA MoveKeeps ==
  ASSUME Inv, NEW c \in Calls, kind' = kind, reqs' = reqs,
         NEW at \in {"set", "create", "delete", "sleep"} \cup Returned,
         pc' = [pc EXCEPT ![c] = at],
         at \notin Returned => kind[c] \in {"set", "delete"},
         NEW sent \in Seq(Operations), ops' = [ops EXCEPT ![c] = sent],
         at \in Sending => Fit(c, sent)
  PROVE  /\ pc' \in [Calls -> {"idle", "set", "create", "delete", "sleep",
                               "bulkset", "bulkdelete"} \cup Returned]
         /\ ops' \in [Calls -> Seq(Operations)]
         /\ CallShape'
<1>1. pc \in [Calls -> {"idle", "set", "create", "delete", "sleep",
                       "bulkset", "bulkdelete"} \cup Returned]
      /\ ops \in [Calls -> Seq(Operations)]
  BY Zenon DEF Inv, TypeOK
<1>2. \A d \in Calls \ {c} : pc'[d] = pc[d] /\ ops'[d] = ops[d]
  BY <1>1
<1>3. pc'[c] = at /\ ops'[c] = sent
  BY <1>1
<1>5. Fit(c, ops[c])' <=> Fit(c, sent)
  BY <1>3, Zenon DEF Fit, OneKind
<1>6. ASSUME NEW d \in Calls \ {c} PROVE Fit(d, ops[d])' <=> Fit(d, ops[d])
  <2>1. ops'[d] = ops[d] /\ reqs'[d] = reqs[d]
    BY <1>2, Zenon
  <2> QED BY <2>1, Zenon DEF Fit, OneKind
<1>7. CallShape'
  BY <1>2, <1>3, <1>5, <1>6 DEF Inv, CallShape, Returned
<1> QED BY <1>1, <1>7

\* Retrying after a failed attempt, or giving up, keeps the call's shape.
LEMMA AttemptFailedKeeps ==
  ASSUME Inv, NEW c \in Calls, pc[c] \in {"set", "create", "delete"},
         NEW e \in {"NodeExists", "InvalidACL", "BadVersion", "connection"}, AttemptFailed(c, e)
  PROVE  /\ pc' \in [Calls -> {"idle", "set", "create", "delete", "sleep",
                               "bulkset", "bulkdelete"} \cup Returned]
         /\ ops' \in [Calls -> Seq(Operations)]
         /\ CallShape'
         /\ att' \in [Calls -> Nat]
         /\ err' \in [Calls -> Errors]
         /\ kind' = kind /\ reqs' = reqs
         /\ pc'[c] \in {"sleep", "err"}
<1>1. PICK at \in {"sleep", "err"} : pc' = [pc EXCEPT ![c] = at]
  BY DEF AttemptFailed
<1>2. kind' = kind /\ reqs' = reqs /\ ops' = [ops EXCEPT ![c] = ops[c]] /\ ops[c] \in Seq(Operations)
  BY Zenon DEF AttemptFailed, Inv, TypeOK
<1>3. kind[c] \in {"set", "delete"}
  BY DEF Inv, CallShape
<1>4. /\ pc' \in [Calls -> {"idle", "set", "create", "delete", "sleep",
                             "bulkset", "bulkdelete"} \cup Returned]
      /\ ops' \in [Calls -> Seq(Operations)]
      /\ CallShape'
  BY <1>1, <1>2, <1>3, MoveKeeps, Zenon DEF Returned, Sending
<1>5. att' \in [Calls -> Nat]
  <2>1. att \in [Calls -> Nat] /\ att[c] + 1 \in Nat
    BY DEF Inv, TypeOK
  <2>2. att' = [att EXCEPT ![c] = att[c] + 1] \/ att' = att
    BY DEF AttemptFailed
  <2> QED BY <2>1, <2>2
<1>6. err' \in [Calls -> Errors]
  BY Zenon DEF AttemptFailed, Inv, TypeOK, Errors
<1>7. pc'[c] \in {"sleep", "err"}
  BY <1>1 DEF Inv, TypeOK
<1> QED BY <1>2, <1>4, <1>5, <1>6, <1>7

\* A step that returns, and sends nothing more.
LEMMA ReturnKeeps ==
  ASSUME Inv, NEW c \in Calls, NEW at \in Returned, Goto(c, at), ops' = ops
  PROVE  /\ pc' \in [Calls -> {"idle", "set", "create", "delete", "sleep",
                               "bulkset", "bulkdelete"} \cup Returned]
         /\ ops' \in [Calls -> Seq(Operations)]
         /\ CallShape'
<1>1. at \notin Sending
  BY DEF Returned, Sending
<1>2. ops[c] \in Seq(Operations) /\ ops' = [ops EXCEPT ![c] = ops[c]]
  BY DEF Inv, TypeOK
<1>3. pc' = [pc EXCEPT ![c] = at] /\ kind' = kind /\ reqs' = reqs
  BY DEF Goto
<1> QED BY <1>1, <1>2, <1>3, MoveKeeps, Zenon

\* A connection failure leaves a command.
LEMMA LoseKeeps ==
  ASSUME Inv, NEW c \in Calls, pc[c] \in Sending, Lose(c)
  PROVE  orphans' \subseteq Commands /\ faulted' \subseteq Calls
BY CommandType, Zenon DEF Lose, Inv, TypeOK

\* The orphans of calls that have begun still fit their requests.
LEMMA OrphansKept ==
  ASSUME Inv, NEW c \in Calls, NEW at, at # "idle", pc' = [pc EXCEPT ![c] = at], reqs' = reqs,
         orphans' = orphans \/ (pc[c] \in Sending /\ orphans' = orphans \cup {Command(c)})
  PROVE  OrphansFit'
<1> SUFFICES ASSUME NEW m \in orphans' PROVE pc'[m.call] # "idle" /\ Fit(m.call, m.ops)'
  BY Zenon DEF OrphansFit
<1>1. m.call \in Calls /\ pc[m.call] # "idle" /\ Fit(m.call, m.ops)
  <2>1. CASE m \in orphans
    BY <2>1, Zenon DEF Inv, OrphansFit, TypeOK, Commands
  <2>2. CASE m = Command(c) /\ pc[c] \in Sending
    BY <2>2, CommandType DEF Inv, CallShape, Sending
  <2> QED BY <2>1, <2>2, Zenon
<1>2. pc'[m.call] # "idle"
  BY <1>1, Zenon DEF Inv, TypeOK
<1>3. Fit(m.call, m.ops)'
  BY <1>1, Zenon DEF Fit, OneKind
<1> QED BY <1>2, <1>3

\* So a step of a running call keeps them.
LEMMA StepOrphans == ASSUME Inv, NEW c \in Calls, Step(c) PROVE OrphansFit'
<1>1. reqs' = reqs
  BY Zenon DEF Step, Done, SetFindsNoNode, DeleteFindsNoNode, Refused, Lost, Wake, MultiDone,
       MultiRefused, MultiLost, Goto, AttemptFailed
<1>2. orphans' = orphans \/ (pc[c] \in Sending /\ orphans' = orphans \cup {Command(c)})
  BY Zenon DEF Step, Done, SetFindsNoNode, DeleteFindsNoNode, Refused, Lost, Wake, MultiDone,
       MultiRefused, MultiLost, Lose, ServerQuiet, Sending
<1>3. \E at : at # "idle" /\ pc' = [pc EXCEPT ![c] = at]
  <2>1. CASE Wake(c)
    <3>1. kind[c] # "idle"
      BY Zenon DEF Inv, TypeOK
    <3> QED BY <2>1, <3>1, Zenon DEF Wake, Goto
  <2> QED BY <2>1, Zenon DEF Step, Done, SetFindsNoNode, DeleteFindsNoNode, Refused, Lost,
               MultiDone, MultiRefused, MultiLost, Goto, AttemptFailed
<1> QED BY <1>1, <1>2, <1>3, OrphansKept, Zenon

\* The invariant, part by part.
LEMMA InvParts ==
  Inv <=> /\ StoreTypeOK /\ CallShape /\ OrphansFit /\ skipACL \in BOOLEAN
          /\ pc \in [Calls -> {"idle", "set", "create", "delete", "sleep",
                               "bulkset", "bulkdelete"} \cup Returned]
          /\ kind \in [Calls -> {"none", "set", "delete", "bulkset", "bulkdelete", "get"}]
          /\ reqs \in [Calls -> Seq(Requests)]
          /\ ops \in [Calls -> Seq(Operations)]
          /\ att \in [Calls -> Nat]
          /\ err \in [Calls -> Errors]
          /\ orphans \subseteq Commands
          /\ faulted \subseteq Calls
BY Zenon DEF Inv, TypeOK, StoreTypeOK, Errors

\* A step of a running call keeps the invariant.
LEMMA StepKeeps == ASSUME Inv, NEW c \in Calls, Step(c) PROVE Inv'
<1> DEFINE Rest == /\ skipACL \in BOOLEAN
                   /\ kind \in [Calls -> {"none", "set", "delete", "bulkset", "bulkdelete", "get"}]
                   /\ reqs \in [Calls -> Seq(Requests)]
                   /\ att \in [Calls -> Nat]
                   /\ err \in [Calls -> Errors]
                   /\ orphans \subseteq Commands /\ faulted \subseteq Calls
           Control == /\ pc \in [Calls -> {"idle", "set", "create", "delete", "sleep",
                                           "bulkset", "bulkdelete"} \cup Returned]
                      /\ ops \in [Calls -> Seq(Operations)]
                      /\ CallShape
<1>0. StoreTypeOK /\ Rest /\ ops[c] \in Seq(Operations) /\ reqs[c] \in Seq(Requests)
  BY InvParts
<1>1. StoreTypeOK' /\ Rest' /\ Control' => Inv'
  BY StepOrphans, Zenon DEF Inv, TypeOK, StoreTypeOK, Errors
<1>2. CASE Done(c) \/ MultiDone(c)
  <2>1. StoreTypeOK'
    <3>1. Perform(Command(c)) /\ Command(c) \in Commands
          /\ Fit(Command(c).call, Command(c).ops)
      BY <1>2, CommandType, Zenon DEF Done, MultiDone, Inv, CallShape, Sending
    <3> QED BY <1>0, <3>1, PerformType, Zenon
  <2>3. Control'
    BY <1>2, ReturnKeeps DEF Done, MultiDone, Returned
  <2>4. UNCHANGED <<skipACL, kind, reqs, att, orphans, faulted>>
    BY <1>2, Zenon DEF Done, MultiDone, Goto
  <2>5. err' \in [Calls -> Errors]
    BY <1>0, <1>2, Zenon DEF Done, MultiDone, Errors
  <2> QED BY <1>0, <1>1, <2>1, <2>3, <2>4, <2>5, Zenon
<1>3. CASE SetFindsNoNode(c)
  <2>1. Len(reqs[c]) = 1 /\ Fit(c, ops[c]) /\ kind[c] \in {"set", "delete"}
    BY <1>3 DEF SetFindsNoNode, Inv, CallShape, Sending
  <2> DEFINE o == [ops[c][1] EXCEPT !.op = "create"]
  <2>2. o \in Operations /\ o.key = reqs[c][1].key /\ o.version = Asked(reqs[c][1])
    <3>1. 1 \in DOMAIN reqs[c]
      BY <1>0, <2>1
    <3>2. /\ 1 \in DOMAIN ops[c] /\ ops[c][1].key = reqs[c][1].key
          /\ ops[c][1].version = Asked(reqs[c][1])
      BY <2>1, <3>1, Zenon DEF Fit
    <3>3. ops[c][1] \in Operations
      BY <1>0, <3>2
    <3> QED BY <3>2, <3>3 DEF Operations
  <2>3. ops' = [ops EXCEPT ![c] = <<o>>] /\ pc' = [pc EXCEPT ![c] = "create"]
        /\ kind' = kind /\ reqs' = reqs
    BY <1>3, InvParts DEF SetFindsNoNode, Goto
  <2> HIDE DEF o
  <2>4. Fit(c, <<o>>) /\ <<o>> \in Seq(Operations)
    BY <1>0, <2>1, <2>2, OneFits, Zenon
  <2>5. Control'
    BY <2>1, <2>3, <2>4, MoveKeeps, Zenon
  <2>6. UNCHANGED <<skipACL, kind, reqs, att, orphans, faulted>> /\ StoreTypeOK'
    BY <1>0, <1>3, Zenon DEF SetFindsNoNode, Goto, ServerQuiet, StoreTypeOK
  <2>7. err' \in [Calls -> Errors]
    BY <1>0, <1>3, Zenon DEF SetFindsNoNode, Errors
  <2> QED BY <1>0, <1>1, <2>5, <2>6, <2>7, Zenon
<1>4. CASE DeleteFindsNoNode(c)
  <2>2. Control'
    BY <1>4, ReturnKeeps DEF DeleteFindsNoNode, Returned
  <2>3. StoreTypeOK'
    BY <1>0, <1>4 DEF DeleteFindsNoNode, StoreTypeOK
  <2> QED BY <1>0, <1>1, <1>4, <2>2, <2>3, Zenon DEF DeleteFindsNoNode, Goto
<1>5. CASE Refused(c)
  <2>1. Control' /\ att' \in [Calls -> Nat] /\ err' \in [Calls -> Errors] /\ kind' = kind /\ reqs' = reqs
    BY <1>5, AttemptFailedKeeps, Zenon DEF Refused
  <2> QED BY <1>0, <1>1, <1>5, <2>1, Zenon DEF Refused, ServerQuiet, StoreTypeOK
<1>6. CASE Lost(c)
  <2>1. Control' /\ att' \in [Calls -> Nat] /\ err' \in [Calls -> Errors] /\ kind' = kind /\ reqs' = reqs
    BY <1>6, AttemptFailedKeeps DEF Lost
  <2>2. orphans' \subseteq Commands /\ faulted' \subseteq Calls
    BY <1>6, LoseKeeps DEF Lost, Sending
  <2> QED BY <1>0, <1>1, <1>6, <2>1, <2>2, Zenon DEF Lost, Lose, StoreTypeOK
<1>7. CASE Wake(c)
  <2>1. Len(reqs[c]) = 1 /\ kind[c] \in {"set", "delete"}
    BY <1>7, Zenon DEF Wake, Inv, CallShape
  <2>2. reqs[c][1] \in Requests
    <3>1. reqs[c] \in Seq(Requests)
      BY <1>0
    <3> QED BY <2>1, <3>1
  <2> DEFINE o == Operation(kind[c], reqs[c][1])
  <2>3. o \in Operations /\ o.key = reqs[c][1].key /\ o.version = Asked(reqs[c][1])
    BY <2>1, <2>2, OperationType
  <2>4. ops' = [ops EXCEPT ![c] = <<o>>] /\ kind' = kind /\ reqs' = reqs
    BY <1>7 DEF Wake, Goto
  <2>5. PICK at \in {"set", "delete", "err"} : pc' = [pc EXCEPT ![c] = at]
    BY <1>7, <2>1, Zenon DEF Wake, Goto
  <2> HIDE DEF o
  <2>6. Fit(c, <<o>>) /\ <<o>> \in Seq(Operations)
    BY <1>0, <2>1, <2>3, OneFits, Zenon
  <2>7. Control'
    BY <2>1, <2>4, <2>5, <2>6, MoveKeeps, Zenon DEF Returned
  <2> QED BY <1>0, <1>1, <1>7, <2>7, Zenon DEF Wake, Goto, ServerQuiet, StoreTypeOK
<1>8. CASE MultiRefused(c) \/ MultiLost(c)
  <2>1. UNCHANGED <<skipACL, kind, reqs, att>>
    BY <1>8, Zenon DEF MultiRefused, MultiLost, Goto, Lose, ServerQuiet
  <2>2. Control'
    BY <1>8, ReturnKeeps DEF MultiRefused, MultiLost, Returned
  <2>3. err' \in [Calls -> Errors]
    <3>1. PICK e \in Errors : err' = [err EXCEPT ![c] = e]
      <4>1. CASE MultiRefused(c)
        BY <4>1, CommandType, FirstErrorType, Zenon DEF MultiRefused, Errors
      <4>2. CASE MultiLost(c)
        BY <4>2, Zenon DEF MultiLost, Errors
      <4> QED BY <1>8, <4>1, <4>2, Zenon
    <3> QED BY <1>0, <3>1
  <2>4. orphans' \subseteq Commands /\ faulted' \subseteq Calls
    BY <1>0, <1>8, LoseKeeps, Zenon DEF MultiRefused, MultiLost, Sending, ServerQuiet
  <2>5. StoreTypeOK'
    BY <1>0, <1>8, Zenon DEF MultiRefused, MultiLost, Lose, ServerQuiet, StoreTypeOK
  <2> QED BY <1>0, <1>1, <2>1, <2>2, <2>3, <2>4, <2>5, Zenon
<1> QED BY <1>2, <1>3, <1>4, <1>5, <1>6, <1>7, <1>8 DEF Step

\* The invariant holds initially.
LEMMA InitInv == Init => Inv
<1> SUFFICES ASSUME Init PROVE Inv
  OBVIOUS
<1>1. tree \in [Keys -> Nodes]
  <2>1. \A n \in InitialVersions : Node(Foreign, n) \in Nodes
    BY ConstantsAssumption, NodeForms DEF Values
  <2> QED BY <2>1, NodeForms DEF Init
<1>2. TypeOK
  BY <1>1 DEF Init, TypeOK
<1>3. CallShape /\ OrphansFit
  BY DEF Init, CallShape, OrphansFit, Sending
<1> QED BY <1>2, <1>3 DEF Inv

\* A step of no call keeps the invariant.
LEMMA IdleKeeps ==
  ASSUME Inv, StoreTypeOK', UNCHANGED callVars, orphans' \subseteq orphans,
         UNCHANGED <<skipACL, faulted>>
  PROVE  Inv'
<1>1. UNCHANGED <<pc, kind, reqs, ops, att, err>>
  BY Zenon DEF callVars
<1>2. ASSUME NEW d \in Calls PROVE Fit(d, ops[d])' <=> Fit(d, ops[d])
  BY <1>1, Zenon DEF Fit, OneKind
<1>3. CallShape'
  BY <1>1, <1>2, Zenon DEF Inv, CallShape
<1>4. ASSUME NEW m \in orphans PROVE Fit(m.call, m.ops)' <=> Fit(m.call, m.ops)
  BY <1>1, Zenon DEF Fit, OneKind
<1>5. OrphansFit'
  BY <1>1, <1>4, Zenon DEF Inv, OrphansFit
<1>6. TypeOK'
  BY <1>1, Zenon DEF Inv, TypeOK, StoreTypeOK
<1> QED BY <1>3, <1>5, <1>6, Zenon DEF Inv

\* Every step keeps the invariant.
LEMMA NextInv == Inv /\ [Next]_vars => Inv'
<1> SUFFICES ASSUME Inv, [Next]_vars PROVE Inv'
  OBVIOUS
<1>1. ASSUME NEW m \in orphans, OrphanPerformed(m) PROVE Inv'
  <2>1. StoreTypeOK /\ m \in Commands /\ Fit(m.call, m.ops) /\ reqs \in [Calls -> Seq(Requests)]
    BY InvParts, Zenon DEF OrphansFit
  <2>2. StoreTypeOK'
    <3>1. CASE Succeeds(m)
      BY <1>1, <2>1, <3>1, PerformType, Zenon DEF OrphanPerformed
    <3>2. CASE ~Succeeds(m)
      BY <1>1, <2>1, <3>2, Zenon DEF OrphanPerformed, StoreTypeOK
    <3> QED BY <3>1, <3>2, Zenon
  <2>3. UNCHANGED callVars /\ orphans' \subseteq orphans /\ UNCHANGED <<skipACL, faulted>>
    BY <1>1, Zenon DEF OrphanPerformed
  <2> QED BY <2>2, <2>3, IdleKeeps, Zenon
<1>2. CASE UNCHANGED vars
  <2>1. /\ UNCHANGED callVars /\ orphans' \subseteq orphans /\ UNCHANGED <<skipACL, faulted>>
        /\ StoreTypeOK'
    BY <1>2, InvParts, Zenon DEF vars, callVars, StoreTypeOK
  <2> QED BY <2>1, IdleKeeps, Zenon
<1> QED BY <1>1, <1>2, CallKeeps, StepKeeps DEF Next, Finished

\* Every variable of the ZooKeeper store always has its type; in particular no
\* operation is sent with the version of an ETag that could not be parsed.
THEOREM ZookeeperTypes == Spec => []TypeOK
<1>1. Inv => TypeOK
  BY DEF Inv
<1> QED BY InitInv, NextInv, <1>1, PTL DEF Spec

-----------------------------------------------------------------------------
\* The refinement.  Shown is what the mapping shows of the tree.
Shown == [k \in Keys |-> View(tree[k])]

\* What is shown of the tree is a versioned store.
LEMMA ShownType == StoreTypeOK => Shown \in [Keys -> VS!Entries]
<1> SUFFICES ASSUME StoreTypeOK, NEW k \in Keys PROVE View(tree[k]) \in VS!Entries
  BY DEF Shown
<1>1. tree[k] \in Nodes
  BY DEF StoreTypeOK
<1>2. CASE tree[k].node
  BY <1>1, <1>2, NodeFields, Zenon DEF View, VS!Entries, VS!Versioned
<1>3. CASE ~tree[k].node
  BY <1>3 DEF View, VS!Entries, VS!Absent
<1> QED BY <1>2, <1>3

\* A key is versioned in the abstract store exactly if its znode exists.
LEMMA ShownIsVersioned ==
  ASSUME StoreTypeOK, NEW k \in Keys
  PROVE  /\ VS!IsVersioned(k) <=> tree[k].node
         /\ tree[k].node => Shown[k].version = tree[k].version
<1>1. Shown[k] = View(tree[k])
  BY DEF Shown
<1>2. CASE tree[k].node
  BY <1>1, <1>2, Zenon DEF View, VS!IsVersioned, Shown
<1>3. CASE ~tree[k].node
  BY <1>1, <1>3, Zenon DEF View, VS!IsVersioned, Shown
<1> QED BY <1>2, <1>3

\* What a performed request whose caller names a version found: the version the
\* node had once the operations before it were performed.
LEMMA NamedIsCurrent ==
  ASSUME StoreTypeOK, reqs \in [Calls -> Seq(Requests)], NEW m \in Commands,
         Fit(m.call, m.ops), Succeeds(m),
         NEW i \in DOMAIN m.ops, m.ops[i].op # "create", NamesVersion(reqs[m.call][i])
  PROVE  /\ reqs[m.call][i].key = m.ops[i].key /\ m.ops[i].key \in Keys
         /\ tree[m.ops[i].key].node /\ tree[m.ops[i].key].version \in Nat
         /\ reqs[m.call][i].etag = tree[m.ops[i].key].version + Cardinality(Before(m, i))
<1>1. m.ops[i].key = reqs[m.call][i].key /\ m.ops[i].version = reqs[m.call][i].etag
  BY Zenon DEF Fit, Asked
<1>2. reqs[m.call][i].etag \in Nat
  BY Zenon DEF NamesVersion
<1>3. anyVersion \notin Nat
  BY DEF anyVersion
<1>4. m.ops[i].version # anyVersion
  BY <1>1, <1>2, <1>3, Zenon
<1> QED BY <1>1, <1>4, OpFound, CommandFields, Zenon

\* The requests of a performed command that named a version: each on a key of
\* the command, and no two of them the same version of a key.
LEMMA ConsumeMatches ==
  ASSUME StoreTypeOK, reqs \in [Calls -> Seq(Requests)], NEW m \in Commands,
         Fit(m.call, m.ops), Perform(m)
  PROVE  /\ VS!Consume({m.ops[i].key : i \in DOMAIN m.ops})
         /\ \A w \in wins' \ wins :
              \E i \in DOMAIN m.ops :
                /\ m.ops[i].op # "create" /\ w.key = m.ops[i].key /\ tree[w.key].version \in Nat
                /\ w.key \in Keys /\ tree[w.key].node
                /\ w.version = tree[w.key].version + Cardinality(Before(m, i))
<1> DEFINE named == {j \in DOMAIN m.ops : m.ops[j].op # "create" /\ NamesVersion(reqs[m.call][j])}
           win(i) == [key |-> reqs[m.call][i].key, era |-> era[reqs[m.call][i].key],
                      version |-> reqs[m.call][i].etag, command |-> <<m.call, i, m.att>>]
           count(i) == Cardinality(Before(m, i))
<1>1. wins' = wins \cup {win(i) : i \in named} /\ Succeeds(m)
  BY Zenon DEF Perform, Won
<1>2. ASSUME NEW i \in named
      PROVE  /\ win(i).key = m.ops[i].key /\ m.ops[i].key \in Keys
             /\ tree[m.ops[i].key].node /\ tree[m.ops[i].key].version \in Nat
             /\ win(i).era = era[m.ops[i].key]
             /\ win(i).version = tree[m.ops[i].key].version + count(i)
             /\ count(i) \in Nat
  BY <1>1, NamedIsCurrent, BeforeCounts, Zenon
<1>3. ASSUME NEW i \in named, NEW j \in named, win(i).key = win(j).key,
             win(i).version = win(j).version
      PROVE  i = j
  <2>1. m.ops[i].key = m.ops[j].key /\ i \in Nat /\ j \in Nat
    BY <1>2, <1>3, CommandFields, Zenon
  <2>2. count(i) = count(j)
    <3>1. /\ tree[m.ops[i].key].version + count(i) = tree[m.ops[i].key].version + count(j)
          /\ tree[m.ops[i].key].version \in Nat /\ count(i) \in Nat /\ count(j) \in Nat
      BY <1>2, <1>3, <2>1, Zenon
    <3> HIDE DEF count
    <3> QED BY <3>1
  <2>3. i < j => count(i) < count(j)
    BY <2>1, BeforeCounts, Zenon
  <2>4. j < i => count(j) < count(i)
    BY <2>1, BeforeCounts, Zenon
  <2>5. count(i) \in Nat /\ count(j) \in Nat
    BY <1>2, Zenon
  <2> HIDE DEF count
  <2> QED BY <2>1, <2>2, <2>3, <2>4, <2>5
<1> HIDE DEF win
<1>4. ASSUME NEW w \in wins' \ wins PROVE \E i \in named : w = win(i)
  BY <1>1, <1>4, Zenon
<1>5. ASSUME NEW w \in wins' \ wins
      PROVE  /\ w.key \in {m.ops[i].key : i \in DOMAIN m.ops}
             /\ VS!IsVersioned(w.key) /\ w.era = era[w.key]
  <2>1. PICK i \in named : w = win(i)
    BY <1>4, <1>5, Zenon
  <2>2. w.key = m.ops[i].key /\ w.key \in Keys /\ tree[w.key].node /\ w.era = era[w.key]
    BY <1>2, <2>1, Zenon
  <2> QED BY <2>2, ShownIsVersioned, Zenon
<1>6. ASSUME NEW w1 \in wins' \ wins, NEW w2 \in wins' \ wins,
             w1.key = w2.key, w1.version = w2.version
      PROVE  w1 = w2
  BY <1>3, <1>4, <1>6, Zenon
<1>7. VS!Consume({m.ops[i].key : i \in DOMAIN m.ops})
  <2>1. wins \subseteq wins'
    BY <1>1, Zenon
  <2> QED BY <1>5, <1>6, <2>1, Zenon DEF VS!Consume
<1>8. ASSUME NEW w \in wins' \ wins
      PROVE  \E i \in DOMAIN m.ops :
                /\ m.ops[i].op # "create" /\ w.key = m.ops[i].key /\ tree[w.key].version \in Nat
                /\ w.key \in Keys /\ tree[w.key].node
                /\ w.version = tree[w.key].version + Cardinality(Before(m, i))
  BY <1>2, <1>4, <1>8, Zenon
<1> QED BY <1>7, <1>8, Zenon

\* A performed command is a step of the versioned store.
LEMMA PerformRefines ==
  ASSUME StoreTypeOK, reqs \in [Calls -> Seq(Requests)], NEW m \in Commands,
         Fit(m.call, m.ops), Perform(m)
  PROVE  VS!Next
<1> DEFINE K == {m.ops[i].key : i \in DOMAIN m.ops}
<1>1. K \in SUBSET Keys /\ VS!Consume(K) /\ Succeeds(m)
  BY CommandFields, ConsumeMatches, Zenon DEF Perform
<1>2. ASSUME NEW k \in Keys PROVE k \in K <=> On(m, k) # {}
  BY DEF On
<1>3. ASSUME NEW k \in K PROVE k \in Keys /\ On(m, k) # {} /\ tree'[k] = After(m, k)
  BY <1>1, <1>2, Zenon DEF Perform
<1>4. VS!Frame(K)
  <2>1. \A k \in Keys \ K : tree'[k] = tree[k]
    BY <1>2, Zenon DEF Perform
  <2> QED BY <2>1 DEF VS!Frame
<1>5. \A w \in wins' \ wins :
        \E i \in DOMAIN m.ops :
          /\ m.ops[i].op # "create" /\ w.key = m.ops[i].key /\ tree[w.key].version \in Nat
          /\ w.key \in Keys /\ tree[w.key].node
          /\ w.version = tree[w.key].version + Cardinality(Before(m, i))
  BY ConsumeMatches, Zenon
<1>6. CASE \A i \in DOMAIN m.ops : m.ops[i].op = "delete"
  <2>1. ASSUME NEW k \in K PROVE tree'[k] = NoNode
    <3>1. k \in Keys /\ On(m, k) # {} /\ tree'[k] = After(m, k)
      BY <1>3, <2>1, Zenon
    <3>2. \E i \in On(m, k) : m.ops[i].op = "delete" => After(m, k) = NoNode
      BY <1>1, <3>1, AfterForms, Zenon
    <3> QED BY <1>6, <3>1, <3>2, Zenon DEF On
  <2>2. ASSUME NEW k \in K PROVE View(tree'[k]) = VS!Absent
    <3>1. View(NoNode) = VS!Absent
      BY DEF View, NoNode, VS!Absent
    <3> QED BY <2>1, <2>2, <3>1, Zenon
  <2>3. \A k \in K : VS!IsVersioned(k)
    BY <1>1, <1>6, OpFound, ShownIsVersioned, Zenon
  <2>4. \A k \in Keys : (\E i \in On(m, k) : m.ops[i].op = "delete") <=> k \in K
    BY <1>2, <1>6, Zenon DEF On
  <2>5. VS!EndEras(K)
    BY <2>3, <2>4, Zenon DEF VS!EndEras, Perform
  <2>6. ASSUME NEW w \in wins' \ wins PROVE w.version = Shown[w.key].version
    <3>1. PICK i \in DOMAIN m.ops :
            /\ w.key = m.ops[i].key /\ tree[w.key].version \in Nat
            /\ w.key \in Keys /\ tree[w.key].node
            /\ w.version = tree[w.key].version + Cardinality(Before(m, i))
      BY <1>5, <2>6, Zenon
    <3>2. Cardinality(Before(m, i)) = 0
      BY <1>1, <1>6, OpFound, FS_EmptySet, Zenon
    <3>3. w.version = tree[w.key].version
      BY <3>1, <3>2
    <3> QED BY <3>1, <3>3, ShownIsVersioned, Zenon
  <2>7. VS!Remove(K)
    <3>1. \A k \in K : [j \in Keys |-> View(tree'[j])][k] = VS!Absent
      BY <1>1, <2>2, Zenon
    <3> QED BY <1>1, <1>4, <2>5, <2>6, <3>1, Zenon DEF VS!Remove, Shown
  <2> QED BY <1>1, <2>7 DEF VS!Next
<1>7. CASE \A i \in DOMAIN m.ops : m.ops[i].op # "delete"
  <2>1. m.call \in Values
    BY CommandFields, Zenon
  <2>2. ASSUME NEW k \in K
        PROVE  \E n \in Nat :
                 /\ tree'[k] = Node(m.call, n) /\ n - VS!LastVersion(k) \in Nat \ {0}
                 /\ tree[k].node /\ (\E i \in On(m, k) : m.ops[i].op = "set")
                      => n = tree[k].version + Cardinality(On(m, k))
    <3>1. PICK i \in On(m, k) :
           /\ m.ops[i].op = "delete" => After(m, k) = NoNode
           /\ m.ops[i].op = "create" => After(m, k) = Node(m.call, 0)
           /\ m.ops[i].op = "set" =>
                /\ tree[k].version \in Nat
                /\ Cardinality(On(m, k)) \in Nat /\ Cardinality(On(m, k)) > 0
                /\ After(m, k) = Node(m.call, tree[k].version + Cardinality(On(m, k)))
      BY <1>1, <1>3, AfterForms, Zenon
    <3>2. i \in DOMAIN m.ops /\ m.ops[i].key = k
      BY <3>1, Zenon DEF On
    <3>3. m.ops[i].op \in {"set", "create"}
      BY <1>7, <3>2, CommandFields, Zenon
    <3>4. m.ops[i].op = "create" <=> ~tree[k].node
      BY <1>1, <3>2, OpFound, Zenon
    <3>5. VS!LastVersion(k) = IF tree[k].node THEN tree[k].version ELSE 0 - 1
      BY <1>3, ShownIsVersioned, Zenon DEF VS!LastVersion, Shown
    <3>6. CASE m.ops[i].op = "set"
      <4> DEFINE n == tree[k].version + Cardinality(On(m, k))
      <4>1. n \in Nat
        BY <3>1, <3>6
      <4>2. n - VS!LastVersion(k) \in Nat \ {0}
        BY <3>1, <3>4, <3>5, <3>6
      <4>3. tree'[k] = Node(m.call, n)
        BY <1>3, <3>1, <3>6, Zenon
      <4>4. n = tree[k].version + Cardinality(On(m, k))
        OBVIOUS
      <4> HIDE DEF n
      <4> QED BY <4>1, <4>2, <4>3, <4>4
    <3>7. CASE m.ops[i].op = "create"
      <4>1. 0 - VS!LastVersion(k) \in Nat \ {0} /\ 0 \in Nat
        BY <3>4, <3>5, <3>7
      <4> QED BY <1>3, <3>1, <3>4, <3>7, <4>1, Zenon
    <3> QED BY <3>3, <3>6, <3>7, Zenon
  <2>3. era' = era
    BY <1>7, Zenon DEF Perform, On, StoreTypeOK
  <2>4. ASSUME NEW k \in K
        PROVE  /\ View(tree'[k]) \in VS!Versioned
               /\ View(tree'[k]).version - VS!LastVersion(k) \in Nat \ {0}
    <3>1. PICK n \in Nat : tree'[k] = Node(m.call, n) /\ n - VS!LastVersion(k) \in Nat \ {0}
      BY <2>2, <2>4, Zenon
    <3>2. View(tree'[k]) = [kind |-> "versioned", data |-> m.call, version |-> n]
      BY <3>1 DEF View, Node
    <3>3. View(tree'[k]) \in VS!Versioned /\ View(tree'[k]).version = n
      BY <2>1, <3>2 DEF VS!Versioned
    <3> QED BY <3>1, <3>3, Zenon
  <2>5. ASSUME NEW w \in wins' \ wins
        PROVE  w.version \in Shown[w.key].version .. Shown'[w.key].version - 1
    <3>1. PICK i \in DOMAIN m.ops :
            /\ m.ops[i].op # "create" /\ w.key = m.ops[i].key /\ tree[w.key].version \in Nat
            /\ w.key \in Keys /\ tree[w.key].node
            /\ w.version = tree[w.key].version + Cardinality(Before(m, i))
      BY <1>5, <2>5, Zenon
    <3>2. m.ops[i].op = "set" /\ i \in On(m, w.key)
      BY <1>7, <3>1, CommandFields, Zenon DEF On
    <3>3. tree'[w.key] = Node(m.call, tree[w.key].version + Cardinality(On(m, w.key)))
      BY <2>2, <3>1, <3>2, Zenon
    <3>4. Shown[w.key].version = tree[w.key].version
      BY <3>1, ShownIsVersioned, Zenon
    <3>5. Shown'[w.key].version = tree[w.key].version + Cardinality(On(m, w.key))
      <4>1. Shown'[w.key] = View(tree'[w.key])
        BY <3>1, Zenon DEF Shown
      <4> QED BY <3>3, <4>1 DEF View, Node
    <3>6. /\ Cardinality(Before(m, i)) \in Nat /\ Cardinality(On(m, w.key)) \in Nat
          /\ Cardinality(Before(m, i)) < Cardinality(On(m, w.key))
      BY <3>1, BeforeCounts, Zenon
    <3> QED BY <3>1, <3>4, <3>5, <3>6
  <2>6. VS!Write(K)
    <3>1. \A k \in K : [j \in Keys |-> View(tree'[j])][k] = View(tree'[k])
      BY <1>1, Zenon
    <3> QED BY <1>1, <1>4, <2>3, <2>4, <2>5, <3>1, Zenon DEF VS!Write, Shown
  <2> QED BY <1>1, <2>6 DEF VS!Next
<1>8. \/ \A i \in DOMAIN m.ops : m.ops[i].op = "delete"
      \/ \A i \in DOMAIN m.ops : m.ops[i].op # "delete"
  BY SMT DEF Fit, OneKind
<1> QED BY <1>6, <1>7, <1>8, Zenon

\* Initial states map to initial states of the versioned store.
LEMMA InitRefines == Inv /\ Init => VS!Init
BY InvParts, ShownType DEF Init, VS!Init, Shown

\* Every step is a step of the versioned store or leaves it unchanged.
LEMMA StepRefines == Inv /\ [Next]_vars => [VS!Next]_(VS!vars)
<1> SUFFICES ASSUME Inv, [Next]_vars PROVE [VS!Next]_(VS!vars)
  OBVIOUS
<1>1. CASE UNCHANGED <<tree, era, wins>>
  BY <1>1 DEF VS!vars
<1> QED BY <1>1, InvParts, StepPerformsOne, PerformRefines

\* The ZooKeeper store implements the versioned store: the two commands of a
\* Set, retries, orphans and transactions, which may reach a key several times,
\* change the tree only in the ways the versioned store allows, and a request
\* whose caller names a version replaces or removes no other version of a node.
\* It rests on what zk.go sends (Fit): the operation of a request carries the
\* version its caller asks for, in every attempt.
THEOREM ZookeeperImplementsVersionedStore == Spec => ImplementsVersionedStore
BY InitInv, NextInv, InitRefines, StepRefines, PTL
   DEF Spec, ImplementsVersionedStore, VS!Spec

\* The proofs about the versioned store, about the ZooKeeper store.
VSP == INSTANCE VersionedStoreProofs
         WITH FirstVersion <- 0, Batch <- Nat \ {0}, store <- [k \in Keys |-> View(tree[k])]

\* First write wins: of all requests of all calls whose callers name the same
\* version of a node, retries and orphans included, at most one is performed in
\* the life of the node.
THEOREM ZookeeperFirstWriteWins == Spec => []FirstWriteWins
<1>1. VS!Init => VSP!Init
  BY Zenon DEF VS!Init, VSP!Init, VS!Entries, VSP!Entries, VS!Absent, VSP!Absent, VS!Versioned,
       VSP!Versioned
<1>2. VS!Next => VSP!Next
  <2>1. ASSUME NEW K \in SUBSET Keys PROVE VS!Remove(K) => VSP!Remove(K)
    BY Zenon DEF VS!Remove, VSP!Remove, VS!Absent, VSP!Absent, VS!EndEras, VSP!EndEras, VS!Frame,
           VSP!Frame, VS!Consume, VSP!Consume, VS!IsVersioned, VSP!IsVersioned
  <2>2. ASSUME NEW K \in SUBSET Keys PROVE VS!Write(K) => VSP!Write(K)
    BY Zenon DEF VS!Write, VSP!Write, VS!Versioned, VSP!Versioned, VS!LastVersion, VSP!LastVersion,
           VS!Frame, VSP!Frame, VS!Consume, VSP!Consume, VS!IsVersioned, VSP!IsVersioned
  <2>3. ASSUME NEW K \in SUBSET Keys PROVE VS!Replace(K) => VSP!Replace(K)
    BY Zenon DEF VS!Replace, VSP!Replace, VS!Absent, VSP!Absent, VS!Plain, VSP!Plain,
           VS!Frame, VSP!Frame, VS!EndEras, VSP!EndEras, VS!IsVersioned, VSP!IsVersioned
  <2> QED BY <2>1, <2>2, <2>3 DEF VS!Next, VSP!Next
<1>3. VS!Spec => VSP!Spec
  <2>1. [VS!Next]_(VS!vars) => [VSP!Next]_(VSP!vars)
    BY <1>2 DEF VS!vars, VSP!vars
  <2> QED BY <1>1, <2>1, PTL DEF VS!Spec, VSP!Spec
<1>4. VSP!FirstWriteWins => FirstWriteWins
  BY DEF VSP!FirstWriteWins, FirstWriteWins, VS!FirstWriteWins
<1>5. VSP!Spec => []VSP!FirstWriteWins
  <2>1. Nat \ {0} \subseteq Nat \ {0}
    OBVIOUS
  <2> QED BY <2>1, VSP!FirstWriteWinsHolds
<1>6. Spec => VS!Spec
  BY ZookeeperImplementsVersionedStore DEF ImplementsVersionedStore
<1> QED BY <1>3, <1>4, <1>5, <1>6, PTL

-----------------------------------------------------------------------------
\* What a call has done.  A call that met no connection failure and has not
\* returned nil has done nothing yet, and only its failures leave orphans.
Effects ==
  /\ \A m \in orphans : m.call \in faulted
  /\ \A c \in Calls \ faulted : pc[c] # "ok" => \A i \in Nat : <<c, i>> \notin effects
  /\ SuccessIsReal

\* A performed command records each of its operations.
LEMMA PerformEffects ==
  ASSUME NEW m \in Commands, Perform(m)
  PROVE  /\ effects \subseteq effects'
         /\ \A i \in DOMAIN m.ops : <<m.call, i>> \in effects'
         /\ \A c \in Calls \ {m.call}, i \in Nat : <<c, i>> \in effects' => <<c, i>> \in effects
BY Zenon DEF Perform

\* A step that does not return nil, and adds no effect.
LEMMA QuietKeeps ==
  ASSUME Inv, Effects, NEW c \in Calls, UNCHANGED <<orphans, faulted, effects>>,
         pc[c] # "ok", pc'[c] # "ok" \/ kind'[c] = "get",
         \A d \in Calls \ {c} : pc'[d] = pc[d] /\ kind'[d] = kind[d] /\ reqs'[d] = reqs[d]
  PROVE  Effects'
BY DEF Effects, SuccessIsReal

\* A method call that begins keeps the record of effects true.
LEMMA CallEffects == ASSUME Inv, Effects, NEW c \in Calls, Call(c) PROVE Effects'
<1>0. pc \in [Calls -> {"idle", "set", "create", "delete", "sleep",
                       "bulkset", "bulkdelete"} \cup Returned]
      /\ DOMAIN kind = Calls /\ DOMAIN reqs = Calls
  BY InvParts
<1>1. CASE \E method \in Methods : \E op, list, good : Begin(c, method, op, list, good)
  BY <1>0, <1>1, QuietKeeps, SMTT(20) DEF Begin, ServerQuiet, Methods
<1>2. CASE Get(c) \/ GetLost(c)
  BY <1>0, <1>2, QuietKeeps, Zenon DEF Get, GetLost, ServerQuiet
<1> QED BY <1>1, <1>2, Zenon DEF Call, CallSet, CallDelete, CallBulkSet, CallBulkDelete, Methods

\* A step of a running call keeps the record of effects true.
LEMMA StepEffects == ASSUME Inv, Effects, NEW c \in Calls, Step(c) PROVE Effects'
<1>0. /\ pc \in [Calls -> {"idle", "set", "create", "delete", "sleep",
                           "bulkset", "bulkdelete"} \cup Returned]
      /\ DOMAIN kind = Calls /\ DOMAIN reqs = Calls /\ effects \subseteq Calls \X Nat
      /\ Command(c) \in Commands /\ Command(c).ops = ops[c] /\ Command(c).call = c
      /\ ops[c] \in Seq(Operations) /\ reqs[c] \in Seq(Requests)
  BY InvParts, CommandType, Zenon DEF StoreTypeOK
<1>1. CASE Done(c) \/ MultiDone(c)
  <2>1. Perform(Command(c)) /\ pc[c] \in Sending /\ pc' = [pc EXCEPT ![c] = "ok"]
        /\ UNCHANGED <<kind, reqs, orphans, faulted>>
    BY <1>1 DEF Done, MultiDone, Goto, Sending
  <2>2. DOMAIN ops[c] = DOMAIN reqs[c]
    BY <2>1, Zenon DEF Inv, CallShape, Fit
  <2>3. /\ effects \subseteq effects' /\ \A i \in DOMAIN reqs[c] : <<c, i>> \in effects'
        /\ \A d \in Calls \ {c}, i \in Nat : <<d, i>> \in effects' => <<d, i>> \in effects
    BY <1>0, <2>1, <2>2, PerformEffects, Zenon
  <2>4. pc'[c] = "ok" /\ \A d \in Calls \ {c} : pc'[d] = pc[d]
    BY <1>0, <2>1
  <2> QED BY <2>1, <2>3, <2>4, Zenon DEF Effects, SuccessIsReal
<1>2. CASE DeleteFindsNoNode(c)
  <2>1. DOMAIN reqs[c] = {1}
    <3>1. Len(reqs[c]) = 1
      BY <1>2 DEF DeleteFindsNoNode, Inv, CallShape
    <3> QED BY <1>0, <3>1
  <2>2. pc'[c] = "ok" /\ \A d \in Calls \ {c} : pc'[d] = pc[d]
    BY <1>0, <1>2, SMTT(20) DEF DeleteFindsNoNode, Goto
  <2>3. effects' = effects \cup {<<c, 1>>} /\ UNCHANGED <<kind, reqs, orphans, faulted>>
    BY <1>2 DEF DeleteFindsNoNode, Goto
  <2> QED BY <2>1, <2>2, <2>3 DEF Effects, SuccessIsReal
<1>3. CASE SetFindsNoNode(c) \/ Refused(c) \/ Wake(c) \/ MultiRefused(c)
  <2>1. pc[c] # "ok" /\ UNCHANGED <<kind, reqs, orphans, faulted, effects>>
    BY <1>3, Zenon DEF SetFindsNoNode, Refused, Wake, MultiRefused, AttemptFailed, Goto, ServerQuiet
  <2>2. PICK at : at # "ok" /\ pc' = [pc EXCEPT ![c] = at]
    <3>1. CASE Wake(c)
      <4>1. kind[c] # "ok"
        BY InvParts, Zenon
      <4> QED BY <3>1, <4>1, Zenon DEF Wake, Goto
    <3> QED BY <1>3, <3>1, Zenon DEF SetFindsNoNode, Refused, MultiRefused, AttemptFailed, Goto
  <2> QED BY <1>0, <2>1, <2>2, QuietKeeps, SMTT(20)
<1>4. CASE Lost(c) \/ MultiLost(c)
  <2>1. orphans' = orphans \cup {Command(c)} /\ faulted' = faulted \cup {c}
        /\ UNCHANGED <<kind, reqs, effects>>
    BY <1>4, Zenon DEF Lost, MultiLost, Lose, AttemptFailed, Goto
  <2>2. pc'[c] # "ok" /\ \A d \in Calls \ {c} : pc'[d] = pc[d]
    BY <1>0, <1>4, Zenon DEF Lost, MultiLost, AttemptFailed, Goto
  <2> QED BY <1>0, <2>1, <2>2, Zenon DEF Effects, SuccessIsReal
<1> QED BY <1>1, <1>2, <1>3, <1>4, SMTT(20) DEF Step

\* Every step keeps the record of effects true.
LEMMA NextEffects == Inv /\ Effects /\ [Next]_vars => Effects'
<1> SUFFICES ASSUME Inv, Effects, [Next]_vars PROVE Effects'
  OBVIOUS
<1>1. ASSUME NEW m \in orphans, OrphanPerformed(m) PROVE Effects'
  <2>1. m \in Commands /\ m.call \in faulted
    BY InvParts DEF Effects
  <2>2. /\ effects \subseteq effects'
        /\ \A c \in Calls \ {m.call}, i \in Nat : <<c, i>> \in effects' => <<c, i>> \in effects
    BY <1>1, <2>1, PerformEffects DEF OrphanPerformed
  <2> QED BY <1>1, <2>1, <2>2, Zenon DEF OrphanPerformed, callVars, Effects, SuccessIsReal
<1>2. CASE UNCHANGED vars
  BY <1>2 DEF vars, Effects, SuccessIsReal
<1> QED BY <1>1, <1>2, CallEffects, StepEffects, SMTT(20) DEF Next, Finished

\* The record of effects is true of every reachable state.
LEMMA EffectsHold == Spec => [](Inv /\ Effects)
<1>1. Init => Effects
  BY DEF Init, Effects, SuccessIsReal
<1> QED BY <1>1, InitInv, NextInv, NextEffects, PTL DEF Spec

\* A Set, Delete, BulkSet or BulkDelete that returns nil has been performed,
\* each of its requests, whatever failed on the way.
THEOREM ZookeeperSuccessIsReal == Spec => []SuccessIsReal
<1>1. Effects => SuccessIsReal
  BY DEF Effects
<1> QED BY <1>1, EffectsHold, PTL

\* Only a connection failure can make a call fail after one of its requests has
\* been performed, in a transaction or in the second command of a Set.
THEOREM ZookeeperCleanErrorHasNoEffect == Spec => []CleanErrorHasNoEffect
<1>1. Inv /\ Effects => CleanErrorHasNoEffect
  <2> SUFFICES ASSUME Inv, Effects, NEW c \in Calls \ faulted, pc[c] = "err",
                      NEW i \in DOMAIN reqs[c]
               PROVE  <<c, i>> \notin effects
    BY DEF CleanErrorHasNoEffect
  <2>1. reqs[c] \in Seq(Requests)
    BY InvParts
  <2>2. i \in Nat
    BY <2>1
  <2> QED BY <2>2 DEF Effects
<1> QED BY <1>1, EffectsHold, PTL

\* What a ZooKeeper call answers is true, of what it has done and of what it has
\* not.
THEOREM ZookeeperAnswersAreTrue == Spec => []AnswersAreTrue
BY ZookeeperSuccessIsReal, ZookeeperCleanErrorHasNoEffect, PTL DEF AnswersAreTrue
-----------------------------------------------------------------------------
(***************************************************************************)
(* What EveryCallReturns rests on: the loop counter of SetWithRetries and  *)
(* DeleteWithRetries stays within the threshold, and no step takes a call  *)
(* back.                                                                   *)
(***************************************************************************)
Retrying(c) == kind[c] \in {"set", "delete"}

\* The places of one attempt, in the order in which a call goes through them: a
\* Set that finds no node goes on to create it.
Place(p) == IF p = "sleep" THEN 0
            ELSE IF p \in {"set", "delete", "bulkset", "bulkdelete"} THEN 1
            ELSE IF p = "create" THEN 2 ELSE 3

\* The call goes on: to its next attempt, or to a later place of this one.
MovesOn(c) ==
  \/ att'[c] > att[c]
  \/ att'[c] = att[c] /\ Place(pc'[c]) > Place(pc[c])

Stays(c) ==
  /\ pc'[c] = pc[c] /\ kind'[c] = kind[c] /\ reqs'[c] = reqs[c] /\ att'[c] = att[c]

\* A call has failed at most as often as the threshold of its request says.
AttemptsAreBounded ==
  \A c \in Calls : Retrying(c) => att[c] = 0 \/ att[c] <= reqs[c][1].options.threshold

\* The counter at the places of the loop.
CounterOK(c) ==
  /\ pc[c] = "idle" => att[c] = 0
  /\ Retrying(c) =>
       /\ att[c] = 0 \/ att[c] <= reqs[c][1].options.threshold
       /\ pc[c] \in {"set", "create", "delete"} =>
            att[c] = 0 \/ MoreAttempts(reqs[c][1].options, att[c])

CounterInv == \A c \in Calls : CounterOK(c)

\* A step of call c: the call goes on with its counter in order, and the other
\* calls stay where they are.
Advances(c) == MovesOn(c) /\ CounterOK(c)' /\ \A d \in Calls \ {c} : Stays(d)

\* A call that stays where it is keeps its counter in order.
LEMMA StaysInOrder ==
  ASSUME NEW c \in Calls, CounterOK(c), Stays(c)
  PROVE  CounterOK(c)'
BY DEF CounterOK, Stays, Retrying, MoreAttempts

\* Going to a later place of the attempt.
LEMMA GotoAdvances ==
  ASSUME Inv, NEW c \in Calls, CounterOK(c), NEW at, Goto(c, at), Place(at) > Place(pc[c]),
         at # "idle",
         Retrying(c) /\ at \in {"set", "create", "delete"} =>
           att[c] = 0 \/ MoreAttempts(reqs[c][1].options, att[c])
  PROVE  Advances(c)
<1>1. /\ pc'[c] = at /\ UNCHANGED <<kind, reqs, att>>
      /\ \A d \in Calls \ {c} : pc'[d] = pc[d]
  BY InvParts DEF Goto
<1>2. MovesOn(c)
  BY <1>1 DEF MovesOn
<1>3. \A d \in Calls \ {c} : Stays(d)
  BY <1>1, Zenon DEF Stays
<1>4. CounterOK(c)'
  BY <1>1 DEF CounterOK, Retrying, MoreAttempts
<1> QED BY <1>2, <1>3, <1>4, Zenon DEF Advances

\* A failed attempt is counted if another may follow, and ends the call if not.
LEMMA FailureAdvances ==
  ASSUME Inv, NEW c \in Calls, CounterOK(c), pc[c] \in {"set", "create", "delete"},
         NEW e, AttemptFailed(c, e)
  PROVE  Advances(c)
<1>0. /\ Retrying(c) /\ Len(reqs[c]) = 1 /\ reqs[c] \in Seq(Requests)
      /\ att \in [Calls -> Nat] /\ DOMAIN pc = Calls
  BY DEF Inv, CallShape, TypeOK, Retrying
<1>1. CASE Retries(reqs[c][1].options)
  <2>1. /\ pc' = [pc EXCEPT ![c] = "sleep"]
        /\ att' = [att EXCEPT ![c] = @ + 1]
        /\ UNCHANGED <<kind, reqs>>
    BY <1>1, Zenon DEF AttemptFailed
  <2>2. /\ pc'[c] = "sleep" /\ att'[c] = att[c] + 1 /\ att[c] \in Nat
        /\ \A d \in Calls \ {c} : pc'[d] = pc[d] /\ att'[d] = att[d]
    BY <1>0, <2>1
  <2>3. MovesOn(c)
    BY <2>2 DEF MovesOn
  <2>4. \A d \in Calls \ {c} : Stays(d)
    BY <2>1, <2>2, Zenon DEF Stays
  <2>5. reqs[c][1] \in Requests
    BY <1>0
  <2>6. reqs[c][1].options.threshold \in Int
    BY <2>5, Zenon DEF Requests, Options
  <2>7. att[c] + 1 <= reqs[c][1].options.threshold
    BY <1>0, <1>1, <2>2, <2>6 DEF CounterOK, Retries, MoreAttempts
  <2>8. CounterOK(c)'
    BY <2>1, <2>2, <2>7 DEF CounterOK
  <2> QED BY <2>3, <2>4, <2>8, Zenon DEF Advances
<1>2. CASE ~Retries(reqs[c][1].options)
  <2>1. Goto(c, "err")
    BY <1>2, Zenon DEF AttemptFailed, Goto
  <2>2. Place("err") > Place(pc[c])
    BY DEF Place
  <2> QED BY <2>1, <2>2, GotoAdvances, Zenon
<1> QED BY <1>1, <1>2, Zenon

\* Every step of a call takes it on.
LEMMA StepAdvances == ASSUME Inv, NEW c \in Calls, CounterOK(c), Step(c) PROVE Advances(c)
<1>1. CASE Done(c) \/ DeleteFindsNoNode(c) \/ MultiDone(c) \/ MultiRefused(c) \/ MultiLost(c)
  <2>1. pc[c] \in Sending /\ \E at \in Returned : Goto(c, at)
    BY <1>1, Zenon DEF Done, DeleteFindsNoNode, MultiDone, MultiRefused, MultiLost, Sending, Returned
  <2>2. \A at \in Returned : Place(at) > Place(pc[c]) /\ at \notin {"idle", "set", "create", "delete"}
    BY <2>1 DEF Place, Returned, Sending
  <2> QED BY <2>1, <2>2, GotoAdvances, Zenon
<1>2. CASE SetFindsNoNode(c)
  <2>1. pc[c] = "set" /\ Goto(c, "create")
    BY <1>2, Zenon DEF SetFindsNoNode
  <2>2. Retrying(c) => att[c] = 0 \/ MoreAttempts(reqs[c][1].options, att[c])
    BY <2>1, Zenon DEF CounterOK
  <2>3. Place("create") > Place(pc[c])
    BY <2>1 DEF Place
  <2> QED BY <2>1, <2>2, <2>3, GotoAdvances, Zenon
<1>3. CASE Refused(c) \/ Lost(c)
  BY <1>3, FailureAdvances, Zenon DEF Refused, Lost
<1>4. CASE Wake(c)
  <2>1. pc[c] = "sleep" /\ kind[c] \in {"set", "delete"}
    BY <1>4, Zenon DEF Wake, Inv, CallShape
  <2>2. \/ MoreAttempts(reqs[c][1].options, att[c]) /\ Goto(c, kind[c])
        \/ Goto(c, "err")
    BY <1>4, Zenon DEF Wake
  <2>3. Place(kind[c]) > Place(pc[c]) /\ Place("err") > Place(pc[c]) /\ kind[c] # "idle"
    BY <2>1 DEF Place
  <2> QED BY <2>2, <2>3, GotoAdvances, Zenon
<1> QED BY <1>1, <1>2, <1>3, <1>4, Zenon DEF Step

\* What a step of the system does to a call.
LEMMA NextAdvances ==
  ASSUME Inv, CounterInv, [Next]_vars
  PROVE  /\ CounterInv'
         /\ \A c \in Calls : pc[c] # "idle" => MovesOn(c) \/ Stays(c)
<1>1. ASSUME NEW c \in Calls, Step(c)
      PROVE  CounterInv' /\ \A d \in Calls : MovesOn(d) \/ Stays(d)
  <2>1. Advances(c)
    BY <1>1, StepAdvances, Zenon DEF CounterInv
  <2> QED BY <2>1, StaysInOrder, Zenon DEF Advances, CounterInv
<1>2. ASSUME NEW c \in Calls, Call(c)
      PROVE  CounterInv' /\ \A d \in Calls : pc[d] # "idle" => Stays(d)
  <2>1. pc[c] = "idle" /\ att' = att /\ \A d \in Calls \ {c} : Stays(d)
    <3>1. CASE Get(c) \/ GetLost(c)
      BY <3>1, Zenon DEF Get, GetLost, Stays, Inv, TypeOK
    <3>2. CASE \E method, op, list, good : Begin(c, method, op, list, good)
      BY <3>2, Zenon DEF Begin, Stays, Inv, TypeOK
    <3> QED BY <1>2, <3>1, <3>2, Zenon DEF Call, CallSet, CallDelete, CallBulkSet, CallBulkDelete
  <2>2. CounterOK(c)'
    BY <2>1, Zenon DEF CounterInv, CounterOK
  <2> QED BY <2>1, <2>2, StaysInOrder, Zenon DEF CounterInv
<1>3. ASSUME UNCHANGED callVars
      PROVE  CounterInv' /\ \A d \in Calls : Stays(d)
  <2>1. \A d \in Calls : Stays(d)
    BY <1>3, Zenon DEF callVars, Stays
  <2> QED BY <2>1, StaysInOrder, Zenon DEF CounterInv
<1>4. (\E m \in orphans : OrphanPerformed(m)) \/ Finished \/ UNCHANGED vars => UNCHANGED callVars
  BY Zenon DEF OrphanPerformed, Finished, vars, callVars
<1> QED BY <1>1, <1>2, <1>3, <1>4, Zenon DEF Next

\* The loop counters are in order initially.
LEMMA InitCounters == Init => CounterInv
BY Zenon DEF Init, CounterInv, CounterOK

\* No Set or Delete fails more often than the threshold of its request says,
\* whatever the server and the connection do.
THEOREM ZookeeperAttemptsAreBounded == Spec => []AttemptsAreBounded
<1>1. CounterInv => AttemptsAreBounded
  BY Zenon DEF CounterInv, CounterOK, AttemptsAreBounded
<1> QED BY InitInv, NextInv, InitCounters, NextAdvances, <1>1, PTL DEF Spec

\* A call that has begun never goes back: a step that concerns it takes it to
\* its next attempt or further in this one, the node that Set creates when it
\* finds none included, and no other step moves it.  With the bound above each
\* call has finitely many steps left.
THEOREM ZookeeperCallsMoveOn ==
  Spec => [][\A c \in Calls : pc[c] # "idle" => MovesOn(c) \/ Stays(c)]_vars
<1> DEFINE Onward == \A c \in Calls : pc[c] # "idle" => MovesOn(c) \/ Stays(c)
<1>1. Inv /\ CounterInv /\ [Next]_vars => [Onward]_vars
  BY NextAdvances
<1> QED BY InitInv, NextInv, InitCounters, NextAdvances, <1>1, PTL DEF Spec
=============================================================================
