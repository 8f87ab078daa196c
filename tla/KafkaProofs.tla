---------------------------- MODULE KafkaProofs -----------------------------
(***************************************************************************)
(* The components that read the events of a partition by their position:   *)
(* Event Hubs and Kafka, for any number of partitions, writers, instances, *)
(* retries and faults.  Neither passes over an event that the application  *)
(* was not called for: the checkpoint of an Event Hubs receiver and the    *)
(* offset of the Kafka binding's group stay behind, and never go back.     *)
(***************************************************************************)
EXTENDS EventHubs, Kafka, SequenceTheorems, TLAPS

-----------------------------------------------------------------------------
(***************************************************************************)
(* Event Hubs, for any number of partitions, events and broken links.      *)
(***************************************************************************)

\* The types of the receivers' variables, one by one.
LEMMA HubFields ==
  EventHubsTypeOK =>
    /\ stored \in [Partitions -> Nat] /\ linkPos \in [Partitions -> Nat]
    /\ taken \in [Partitions -> Nat] /\ held \in [Partitions -> Nat]
    /\ check \in [Partitions -> Nat] /\ from \in [Partitions -> Nat]
    /\ \A p \in Partitions :
         /\ linkPos[p] <= stored[p] /\ taken[p] <= stored[p] /\ held[p] <= stored[p]
         /\ check[p] <= stored[p] /\ from[p] <= stored[p]
         /\ \A e \in called[p] : e \in Nat /\ 1 <= e /\ e <= stored[p]
BY DEF EventHubsTypeOK

\* What has to be shown of the next state.
LEMMA HubFieldsNext ==
  ASSUME EventHubsTypeOK,
         stored' \in [Partitions -> Nat], linkPos' \in [Partitions -> Nat],
         taken' \in [Partitions -> Nat], held' \in [Partitions -> Nat],
         check' \in [Partitions -> Nat], from' \in [Partitions -> Nat],
         called' \in [Partitions -> SUBSET Nat],
         \A p \in Partitions :
           /\ linkPos'[p] <= stored'[p] /\ taken'[p] <= stored'[p] /\ held'[p] <= stored'[p]
           /\ check'[p] <= stored'[p] /\ from'[p] <= stored'[p]
           /\ \A e \in called'[p] : 1 <= e /\ e <= stored'[p],
         hub' \in {"init", "failed", "idle", "open", "wait", "nil", "err", "killed"},
         writing' \in {"idle", "sending", "nil", "err"}, next' \in Nat,
         link' \in [Partitions -> {"none", "up", "broken", "closed"}],
         breaks' \in 0 .. MaxBreaks, early' \subseteq Partitions
  PROVE  EventHubsTypeOK'
<1>1. \A p \in Partitions :
        {linkPos'[p], taken'[p], held'[p], check'[p], from'[p]} \subseteq 0 .. stored'[p]
  OBVIOUS
<1>2. \A p \in Partitions : called'[p] \subseteq 1 .. stored'[p]
  OBVIOUS
<1> QED BY <1>1, <1>2, Zenon DEF EventHubsTypeOK

\* Type correctness of the Event Hubs binding is inductive by itself.
LEMMA HubTypeStep == EventHubsTypeOK /\ [EventHubsNext]_eventHubsVars => EventHubsTypeOK'
<1> SUFFICES ASSUME EventHubsTypeOK, [EventHubsNext]_eventHubsVars PROVE EventHubsTypeOK'
  OBVIOUS
<1>0. /\ stored \in [Partitions -> Nat] /\ linkPos \in [Partitions -> Nat]
      /\ taken \in [Partitions -> Nat] /\ held \in [Partitions -> Nat]
      /\ check \in [Partitions -> Nat] /\ from \in [Partitions -> Nat]
      /\ called \in [Partitions -> SUBSET Nat] /\ next \in Nat /\ early \subseteq Partitions
      /\ link \in [Partitions -> {"none", "up", "broken", "closed"}]
      /\ breaks \in 0 .. MaxBreaks
  BY Zenon DEF EventHubsTypeOK
<1>1. CASE UNCHANGED eventHubsVars
  BY <1>1, Zenon DEF EventHubsTypeOK, eventHubsVars
<1>2. CASE InitEventHubs \/ ReadEventHubs \/ ReceiveFails \/ WaitForSignal
           \/ WriteEventHubs \/ SendFails
  BY <1>2, Zenon DEF InitEventHubs, ReadEventHubs, ReceiveFails, WaitForSignal, WriteEventHubs,
              SendFails, EventHubsTypeOK, hubVars
<1>3. CASE SignalEventHubs
  BY <1>3, Zenon DEF SignalEventHubs, EventHubsTypeOK, hubVars
<1>4. CASE Receive
  <2>1. next \in Partitions /\ stored[next] \in Nat
    BY <1>0, <1>4, Zenon DEF Receive
  <2>2. UNCHANGED <<hub, writing, stored, breaks, taken, held, check, called, early>>
    BY <1>4 DEF Receive
  <2>3. /\ linkPos' \in [Partitions -> Nat] /\ from' \in [Partitions -> Nat]
        /\ link' \in [Partitions -> {"none", "up", "broken", "closed"}]
        /\ \A p \in Partitions : linkPos'[p] <= stored[p] /\ from'[p] <= stored[p]
    BY <1>0, <1>4, <2>1, HubFields, SMTT(20) DEF Receive
  <2>4. next' \in Nat
    BY <1>0, <1>4 DEF Receive
  <2>5. hub \in {"init", "failed", "idle", "open", "wait", "nil", "err", "killed"}
        /\ writing \in {"idle", "sending", "nil", "err"}
    BY DEF EventHubsTypeOK
  <2> QED BY <1>0, <2>2, <2>3, <2>4, <2>5, HubFields, HubFieldsNext, Zenon
<1>5. ASSUME NEW p \in Partitions, stored' = [stored EXCEPT ![p] = @ + 1],
             writing' \in {"idle", "sending", "nil", "err"},
             UNCHANGED <<hub, next, breaks, from, link, linkPos, taken, held, check, called, early>>
      PROVE  EventHubsTypeOK'
  <2>1. /\ stored' \in [Partitions -> Nat]
        /\ \A q \in Partitions : stored'[q] >= stored[q]
    BY <1>0, <1>5
  <2>2. \A q \in Partitions :
           /\ linkPos'[q] <= stored'[q] /\ taken'[q] <= stored'[q] /\ held'[q] <= stored'[q]
           /\ check'[q] <= stored'[q] /\ from'[q] <= stored'[q]
           /\ \A e \in called'[q] : 1 <= e /\ e <= stored'[q]
    BY <1>0, <1>5, <2>1, HubFields
  <2>3. hub \in {"init", "failed", "idle", "open", "wait", "nil", "err", "killed"}
    BY DEF EventHubsTypeOK
  <2> QED BY <1>0, <1>5, <2>1, <2>2, <2>3, HubFieldsNext, Zenon
<1>6. CASE SendEvent
  BY <1>5, <1>6, Zenon DEF SendEvent
<1>7. ASSUME NEW p \in Partitions, OthersWrite(p) PROVE EventHubsTypeOK'
  BY <1>5, <1>7, Zenon DEF OthersWrite, EventHubsTypeOK
<1>8. ASSUME NEW p \in Partitions,
             DeliverEvent(p) \/ HubCallback(p) \/ CallbackReturns(p) \/ Recover(p) \/ Break(p)
               \/ RecoverFails(p)
      PROVE  EventHubsTypeOK'
  <2>1. UNCHANGED <<hub, writing, next, stored, from>>
    BY <1>8, Zenon DEF DeliverEvent, HubCallback, CallbackReturns, Recover, Break, RecoverFails, hubVars
  <2>2. /\ hub \in {"init", "failed", "idle", "open", "wait", "nil", "err", "killed"}
        /\ writing \in {"idle", "sending", "nil", "err"}
    BY DEF EventHubsTypeOK
  <2>3. link' \in [Partitions -> {"none", "up", "broken", "closed"}] /\ breaks' \in 0 .. MaxBreaks
    BY <1>0, <1>8, EventHubsAssumption, SMTT(20)
    DEF DeliverEvent, HubCallback, CallbackReturns, Recover, Break, RecoverFails, hubVars
  <2>4. early' \subseteq Partitions
    BY <1>0, <1>8, SMTT(20)
    DEF DeliverEvent, HubCallback, CallbackReturns, Recover, Break, RecoverFails, hubVars
  <2>5. /\ linkPos' \in [Partitions -> Nat] /\ taken' \in [Partitions -> Nat]
        /\ held' \in [Partitions -> Nat] /\ check' \in [Partitions -> Nat]
        /\ called' \in [Partitions -> SUBSET Nat]
    BY <1>0, <1>8, SMTT(20)
    DEF DeliverEvent, HubCallback, CallbackReturns, Recover, Break, RecoverFails, hubVars
  <2>6. \A q \in Partitions :
           /\ linkPos'[q] <= stored[q] /\ taken'[q] <= stored[q]
           /\ held'[q] <= stored[q] /\ check'[q] <= stored[q]
    BY <1>0, <1>8, HubFields, SMTT(20)
    DEF DeliverEvent, HubCallback, CallbackReturns, Recover, Break, RecoverFails, hubVars
  <2>7. \A q \in Partitions : \A e \in called'[q] : 1 <= e /\ e <= stored[q]
    <3>1. CASE HubCallback(p)
      BY <1>0, <3>1, HubFields, SMTT(20) DEF HubCallback
    <3>2. CASE ~HubCallback(p)
      BY <1>0, <1>8, <3>2, HubFields, Zenon
      DEF DeliverEvent, CallbackReturns, Recover, Break, RecoverFails, hubVars
    <3> QED BY <3>1, <3>2
  <2> QED BY <1>0, <2>1, <2>2, <2>3, <2>4, <2>5, <2>6, <2>7, HubFields, HubFieldsNext, Zenon
<1> QED
  BY <1>1, <1>2, <1>3, <1>4, <1>6, <1>7, <1>8, SMTT(20) DEF EventHubsNext, HubStep, ReceiverStep

\* Every variable of the Event Hubs binding keeps its type; in particular no
\* receiver gets hold of an event that is not in its partition.
THEOREM EventHubsTypes == EventHubsSpec => []EventHubsTypeOK
<1>1. EventHubsInit => EventHubsTypeOK
  BY EventHubsAssumption DEF EventHubsInit, EventHubsTypeOK, latest
<1> QED BY <1>1, HubTypeStep, PTL DEF EventHubsSpec

\* The event that a receiver's checkpoint stands for, and the last one that the
\* binding was called for since the receiver, or its last new link, began.
Base(p) == IF check[p] = latest THEN from[p] ELSE check[p]
Front(p) == IF held[p] # 0 THEN held[p] ELSE Base(p)

\* Where a receiver is: the binding is at most one event ahead of the checkpoint,
\* has been called for all events up to there and no other, and the link is where
\* the next event for the binding is that one again or the one behind it.
InSequence(p) ==
  /\ check[p] # latest => check[p] > from[p]
  /\ held[p] # 0 => held[p] > from[p]
  /\ Base(p) <= Front(p) /\ Front(p) <= Base(p) + 1
  /\ called[p] = from[p] + 1 .. Front(p)
  /\ taken[p] = 0 => linkPos[p] <= Front(p) /\ Front(p) <= linkPos[p] + 1
  /\ taken[p] # 0 => taken[p] = linkPos[p] /\ Front(p) <= linkPos[p] /\ linkPos[p] <= Front(p) + 1
  /\ check[p] = latest => linkPos[p] = IF taken[p] = 0 THEN Front(p) ELSE Front(p) + 1

\* A receiver that Read has not opened.
Unopened(p) ==
  p >= next => /\ link[p] = "none" /\ linkPos[p] = 0 /\ taken[p] = 0 /\ held[p] = 0
               /\ check[p] = latest /\ from[p] = 0 /\ called[p] = {}

HubInv ==
  /\ EventHubsTypeOK
  /\ \A p \in Partitions : Unopened(p) /\ (p \notin early => InSequence(p))

\* A step as a receiver sees it that it leaves alone.
Untouched(p) ==
  /\ link'[p] = link[p] /\ linkPos'[p] = linkPos[p] /\ taken'[p] = taken[p] /\ held'[p] = held[p]
  /\ check'[p] = check[p] /\ from'[p] = from[p] /\ called'[p] = called[p]
  /\ p \in early' <=> p \in early

LEMMA UntouchedKeeps ==
  ASSUME NEW p \in Partitions, Untouched(p), InSequence(p)
  PROVE  InSequence(p)'
BY Zenon DEF Untouched, InSequence, Base, Front

\* The goroutines of a receiver keep its sequence.
LEMMA ReceiverKeeps ==
  ASSUME HubInv, NEW p \in Partitions, p \notin early', InSequence(p),
         ReceiverStep(p) \/ Break(p) \/ RecoverFails(p)
  PROVE  InSequence(p)'
<1>0. /\ stored[p] \in Nat /\ linkPos[p] \in Nat /\ taken[p] \in Nat /\ held[p] \in Nat
      /\ check[p] \in Nat /\ from[p] \in Nat /\ latest = 0
  BY HubFields, Zenon DEF HubInv, latest
<1>a. /\ linkPos \in [Partitions -> Nat] /\ taken \in [Partitions -> Nat]
      /\ held \in [Partitions -> Nat] /\ check \in [Partitions -> Nat]
      /\ called \in [Partitions -> SUBSET Nat]
  BY Zenon DEF HubInv, EventHubsTypeOK
<1>b. Base(p) \in Nat /\ Front(p) \in Nat
  BY <1>0 DEF Base, Front
<1>1. CASE DeliverEvent(p)
  <2>1. /\ taken[p] = 0 /\ taken'[p] = linkPos[p] + 1 /\ linkPos'[p] = linkPos[p] + 1
        /\ held'[p] = held[p] /\ check'[p] = check[p] /\ from'[p] = from[p]
        /\ called'[p] = called[p]
    BY <1>1, <1>a, Zenon DEF DeliverEvent, hubVars
  <2>2. Base(p)' = Base(p) /\ Front(p)' = Front(p)
    BY <2>1 DEF Base, Front
  <2> QED BY <1>0, <1>b, <2>1, <2>2, SMTT(20) DEF InSequence
<1>2. CASE HubCallback(p)
  <2>1. /\ taken[p] # 0 /\ held[p] = 0 /\ held'[p] = taken[p] /\ taken'[p] = 0
        /\ linkPos'[p] = linkPos[p] /\ check'[p] = check[p] /\ from'[p] = from[p]
        /\ called'[p] = called[p] \cup {taken[p]}
    BY <1>2, <1>a, Zenon DEF HubCallback, hubVars
  <2>2. /\ Base(p)' = Base(p) /\ Front(p)' = taken[p]
        /\ Front(p) = Base(p) /\ taken[p] = linkPos[p]
        /\ taken[p] = Base(p) \/ taken[p] = Base(p) + 1
        /\ taken[p] > from[p]
    BY <1>0, <1>b, <2>1, SMTT(20) DEF Base, Front, InSequence
  <2>3. called'[p] = from[p] + 1 .. taken[p]
    BY <1>0, <1>b, <2>1, <2>2, SMTT(20) DEF InSequence
  <2> QED BY <1>0, <1>b, <2>1, <2>2, <2>3, SMTT(20) DEF InSequence
<1>3. CASE CallbackReturns(p)
  <2>1. /\ held[p] # 0 /\ held'[p] = 0 /\ check'[p] = held[p]
        /\ taken'[p] = taken[p] /\ linkPos'[p] = linkPos[p] /\ from'[p] = from[p]
        /\ called'[p] = called[p]
    BY <1>3, <1>a DEF CallbackReturns, hubVars
  <2>2. Base(p)' = held[p] /\ Front(p)' = held[p] /\ Front(p) = held[p]
    BY <1>0, <2>1, Zenon DEF Base, Front
  <2> QED BY <1>0, <1>b, <2>1, <2>2, SMTT(20) DEF InSequence
<1>4. CASE Recover(p)
  <2>1. /\ check[p] # latest /\ taken[p] = 0 /\ linkPos'[p] = check[p]
        /\ taken'[p] = taken[p] /\ held'[p] = held[p] /\ check'[p] = check[p]
        /\ from'[p] = from[p] /\ called'[p] = called[p]
    BY <1>4, <1>a, Zenon DEF Recover, hubVars
  <2>2. Base(p)' = Base(p) /\ Front(p)' = Front(p) /\ Base(p) = check[p]
    BY <2>1, Zenon DEF Base, Front
  <2> QED BY <1>0, <1>b, <2>1, <2>2, Zenon DEF InSequence
<1>5. CASE Break(p) \/ RecoverFails(p)
  BY <1>5, Zenon DEF Break, RecoverFails, hubVars, InSequence, Base, Front
<1> QED BY <1>1, <1>2, <1>3, <1>4, <1>5 DEF ReceiverStep

\* No step of the hub, the reader or a receiver breaks the sequence of a receiver.
LEMMA HubStepKeeps == HubInv /\ [EventHubsNext]_eventHubsVars => HubInv'
<1> SUFFICES ASSUME HubInv, [EventHubsNext]_eventHubsVars PROVE HubInv'
  OBVIOUS
<1>0. EventHubsTypeOK /\ EventHubsTypeOK'
  BY HubTypeStep DEF HubInv
<1>a. /\ linkPos \in [Partitions -> Nat] /\ taken \in [Partitions -> Nat]
      /\ held \in [Partitions -> Nat] /\ check \in [Partitions -> Nat]
      /\ from \in [Partitions -> Nat] /\ stored \in [Partitions -> Nat]
      /\ called \in [Partitions -> SUBSET Nat] /\ next \in Nat /\ Partitions \subseteq Nat
      /\ link \in [Partitions -> {"none", "up", "broken", "closed"}]
  BY <1>0, EventHubsAssumption, Zenon DEF EventHubsTypeOK
<1> USE <1>0, <1>a
<1>1. ASSUME NEW q \in Partitions, Untouched(q), next' = next
      PROVE  Unopened(q)' /\ (q \notin early' => InSequence(q)')
  <2>1. Unopened(q)'
    BY <1>1, Zenon DEF Untouched, Unopened, HubInv
  <2> QED BY <1>1, <2>1, UntouchedKeeps, Zenon DEF HubInv, Untouched
<1>2. CASE UNCHANGED eventHubsVars
  BY <1>1, <1>2, Zenon DEF HubInv, eventHubsVars, Untouched
<1>3. CASE InitEventHubs \/ ReadEventHubs \/ ReceiveFails \/ WaitForSignal
           \/ WriteEventHubs \/ SendFails \/ SendEvent \/ \E p \in Partitions : OthersWrite(p)
  <2>1. UNCHANGED <<next, link, linkPos, taken, held, check, from, called, early>>
    BY <1>3, Zenon DEF InitEventHubs, ReadEventHubs, ReceiveFails, WaitForSignal, WriteEventHubs,
                SendFails, SendEvent, OthersWrite, hubVars
  <2> QED BY <1>1, <2>1, Zenon DEF HubInv, Untouched
<1>4. CASE SignalEventHubs
  <2>1. UNCHANGED <<next, linkPos, taken, held, check, from, called, early>>
    BY <1>4 DEF SignalEventHubs, hubVars
  <2>2. ASSUME NEW q \in Partitions PROVE Unopened(q)' /\ (q \notin early' => InSequence(q)')
    <3>1. link[q] = "none" => link'[q] = "none"
      BY <1>4 DEF SignalEventHubs
    <3> QED BY <2>1, <3>1, Zenon DEF HubInv, Unopened, InSequence, Base, Front
  <2> QED BY <2>2 DEF HubInv
<1>5. CASE Receive
  <2> SUFFICES ASSUME NEW q \in Partitions
               PROVE  Unopened(q)' /\ (q \notin early' => InSequence(q)')
    BY DEF HubInv
  <2>1. CASE q # next
    <3>1. Untouched(q)
      BY <1>5, <2>1, Zenon DEF Receive, Untouched
    <3>2. Unopened(q)'
      <4>1. q \in Nat /\ next' = next + 1 /\ (q >= next + 1 => q >= next)
        BY <1>5 DEF Receive
      <4> QED BY <3>1, <4>1, Zenon DEF Untouched, Unopened, HubInv
    <3> QED BY <3>1, <3>2, UntouchedKeeps, Zenon DEF HubInv, Untouched
  <2>2. CASE q = next
    <3>1. ~(q >= next')
      BY <1>5, <2>2 DEF Receive
    <3>2. /\ linkPos'[q] = stored[q] /\ from'[q] = stored[q] /\ taken'[q] = 0 /\ held'[q] = 0
          /\ check'[q] = latest /\ called'[q] = {} /\ stored[q] \in Nat
      BY <1>5, <2>2 DEF Receive, Unopened, HubInv
    <3>3. InSequence(q)'
      BY <3>2, SMTT(20) DEF InSequence, Base, Front, latest
    <3> QED BY <3>1, <3>3 DEF Unopened
  <2> QED BY <2>1, <2>2
<1>6. ASSUME NEW p \in Partitions, ReceiverStep(p) \/ Break(p) \/ RecoverFails(p)
      PROVE  HubInv'
  <2> SUFFICES ASSUME NEW q \in Partitions
               PROVE  Unopened(q)' /\ (q \notin early' => InSequence(q)')
    BY DEF HubInv
  <2>1. next' = next /\ early \subseteq early'
    BY <1>6, Zenon DEF ReceiverStep, DeliverEvent, HubCallback, CallbackReturns, Recover, Break,
                RecoverFails, hubVars
  <2>2. CASE q # p
    <3>1. Untouched(q)
      BY <1>6, <2>2, Zenon DEF ReceiverStep, DeliverEvent, HubCallback, CallbackReturns, Recover, Break,
                RecoverFails, hubVars, Untouched
    <3> QED BY <1>1, <2>1, <3>1
  <2>3. CASE q = p
    <3>1. ~(p >= next)
      BY <1>6, Zenon DEF ReceiverStep, DeliverEvent, HubCallback, CallbackReturns, Recover, Break,
                RecoverFails, HubInv, Unopened
    <3>2. p \notin early' => InSequence(p)'
      BY <1>6, <2>1, ReceiverKeeps, Zenon DEF HubInv
    <3> QED BY <2>1, <2>3, <3>1, <3>2 DEF Unopened
  <2> QED BY <2>2, <2>3
<1> QED
  BY <1>2, <1>3, <1>4, <1>5, <1>6, Zenon DEF EventHubsNext, HubStep

LEMMA HubInvHolds == EventHubsSpec => []HubInv
<1>1. EventHubsInit => HubInv
  <2> SUFFICES ASSUME EventHubsInit PROVE HubInv
    OBVIOUS
  <2>1. EventHubsTypeOK
    BY EventHubsAssumption DEF EventHubsInit, EventHubsTypeOK, latest
  <2>2. ASSUME NEW p \in Partitions PROVE Unopened(p) /\ InSequence(p)
    BY DEF EventHubsInit, Unopened, InSequence, Base, Front, latest
  <2> QED BY <2>1, <2>2 DEF HubInv
<1> QED BY <1>1, HubStepKeeps, PTL DEF EventHubsSpec

\* The binding is called for the events of a partition without a gap, however
\* often links break, as long as none broke before the first checkpoint.
THEOREM EventHubsPassOverNothing == EventHubsSpec => []NoEventPassedOver
<1>1. HubInv => NoEventPassedOver
  <2> SUFFICES ASSUME HubInv, NEW p \in Partitions \ early, NEW e \in called[p]
               PROVE  e > from[p] /\ (from[p] + 1) .. e \subseteq called[p]
    BY DEF NoEventPassedOver
  <2>1. from[p] \in Nat /\ Front(p) \in Nat /\ called[p] = from[p] + 1 .. Front(p)
    BY HubFields, Zenon DEF HubInv, InSequence, Front, Base
  <2> QED BY <2>1
<1> QED BY <1>1, HubInvHolds, PTL

\* The checkpoint of a receiver never goes back, over any number of broken links,
\* as long as none broke before the first checkpoint.
THEOREM EventHubsCheckpoint == EventHubsSpec => CheckpointNeverGoesBack
<1>1. HubInv /\ [EventHubsNext]_eventHubsVars =>
        [\A p \in Partitions \ early : check'[p] >= check[p]]_eventHubsVars
  <2> SUFFICES ASSUME HubInv, EventHubsNext, NEW p \in Partitions \ early
               PROVE  check'[p] >= check[p]
    OBVIOUS
  <2>0. check \in [Partitions -> Nat] /\ held \in [Partitions -> Nat] /\ check[p] \in Nat
    BY HubFields DEF HubInv
  <2>1. ASSUME NEW q \in Partitions, CallbackReturns(q) PROVE check'[p] >= check[p]
    <3>1. CASE q = p
      <4>1. check'[p] = held[p] /\ held[p] # 0 /\ held[p] \in Nat /\ from[p] \in Nat
        BY <2>0, <2>1, <3>1, HubFields, Zenon DEF CallbackReturns, HubInv
      <4>2. held[p] >= check[p]
        BY <2>0, <4>1, SMTT(20) DEF HubInv, InSequence, Front, Base, latest
      <4> QED BY <4>1, <4>2
    <3>2. CASE q # p
      BY <2>0, <2>1, <3>2 DEF CallbackReturns
    <3> QED BY <3>1, <3>2
  <2>2. CASE ~\E q \in Partitions : CallbackReturns(q)
    <3>1. check' = check
      BY <2>2, Zenon DEF EventHubsNext, HubStep, ReceiverStep, InitEventHubs, ReadEventHubs, Receive,
         ReceiveFails, WaitForSignal, SignalEventHubs, WriteEventHubs, SendEvent, SendFails,
         OthersWrite, DeliverEvent, HubCallback, Recover, Break, RecoverFails
    <3> QED BY <2>0, <3>1
  <2> QED BY <2>1, <2>2
<1> QED BY <1>1, HubInvHolds, PTL DEF EventHubsSpec, CheckpointNeverGoesBack

\* What StoredReachesBinding rests on: an event stored behind the end that Receive
\* found is never lost on the way.  The binding was called for it, or the first
\* goroutine has it, or the link has it still to deliver; a link that is made again
\* starts at a checkpoint the event is not behind.  The exception is again a link
\* that broke before the first checkpoint.
THEOREM EventHubsLoseNothing ==
  EventHubsSpec =>
    [](\A p \in Partitions \ early : \A e \in from[p] + 1 .. stored[p] :
         e \in called[p] \/ e = taken[p] \/ e > linkPos[p])
<1>1. HubInv => \A p \in Partitions \ early : \A e \in from[p] + 1 .. stored[p] :
                   e \in called[p] \/ e = taken[p] \/ e > linkPos[p]
  <2> SUFFICES ASSUME HubInv, NEW p \in Partitions \ early, NEW e \in from[p] + 1 .. stored[p],
                      e \notin called[p], e # taken[p]
               PROVE  e > linkPos[p]
    OBVIOUS
  <2>1. /\ from[p] \in Nat /\ stored[p] \in Nat /\ linkPos[p] \in Nat /\ taken[p] \in Nat
        /\ Front(p) \in Nat
    BY HubFields, Zenon DEF HubInv, Front, Base
  <2>2. e \in Nat /\ e > Front(p)
    BY <2>1 DEF HubInv, InSequence
  <2>3. CASE taken[p] = 0
    BY <2>1, <2>2, <2>3 DEF HubInv, InSequence
  <2>4. CASE taken[p] # 0
    BY <2>1, <2>2, <2>4 DEF HubInv, InSequence
  <2> QED BY <2>3, <2>4
<1> QED BY <1>1, HubInvHolds, PTL

-----------------------------------------------------------------------------
(***************************************************************************)
(* Kafka, for any number of writers, instances, retries and faults.        *)
(***************************************************************************)

\* The messages before n have been offered to a handler or skipped.
Passed(n) == \A e \in Nat : 0 < e /\ e < n => e \in offered \cup skipped

\* What the holder of the partition knows.  A member that has lost it may be
\* behind or ahead of this: nothing is said of it, since it cannot commit.
Holder(i) ==
  /\ loop[i] \in InSession =>
       committed <= mark[i] /\ Passed(mark[i])
  /\ loop[i] = "claim" => mark[i] = committed
  /\ loop[i] \in {"session", "handle"} => mark[i] <= pos[i] /\ Passed(pos[i])
  /\ loop[i] = "handle" => pos[i] \in offered

\* The inductive invariant.
Inv ==
  /\ TypeOK
  /\ Passed(committed)
  /\ \A i \in Instances : owner = i => Holder(i)

-----------------------------------------------------------------------------
\* Every variable keeps its type.
LEMMA TypeStep == TypeOK /\ [Next]_vars => TypeOK'
<1> SUFFICES ASSUME TypeOK, [Next]_vars PROVE TypeOK'
  OBVIOUS
<1> USE ConstantsAssumption DEF TypeOK, InSession, Stopped
<1>1. ASSUME NEW w \in Writes, Write(w) PROVE TypeOK'
  BY <1>1, Zenon DEF Write, readVars
<1>2. ASSUME NEW w \in Writes, SendMessage(w) PROVE TypeOK'
  BY <1>2, SMTT(20) DEF SendMessage, readVars
<1>2a. ASSUME NEW w \in Writes, SendRefused(w) PROVE TypeOK'
  BY <1>2a, Zenon DEF SendRefused, readVars
<1>3. ASSUME NEW w \in Writes, SendLost(w) PROVE TypeOK'
  <2>1. late' \in [Writes -> Nat]
    BY <1>3 DEF SendLost
  <2>2. tries[w] \in 0 .. MaxRetry
    OBVIOUS
  <2>3. CASE tries[w] < MaxRetry
    <3>1. tries[w] + 1 \in 0 .. MaxRetry
      BY <2>2, <2>3
    <3>2. tries' = [tries EXCEPT ![w] = tries[w] + 1]
      BY <1>3, <2>3 DEF SendLost
    <3>3. tries' \in [Writes -> 0 .. MaxRetry]
      BY <3>1, <3>2
    <3>4. QED
      BY <1>3, <2>1, <2>3, <3>3, Zenon DEF SendLost, readVars
  <2>4. CASE ~(tries[w] < MaxRetry)
    BY <1>3, <2>1, <2>4, Zenon DEF SendLost, readVars
  <2>5. QED
    BY <2>3, <2>4, Zenon
<1>4. ASSUME NEW w \in Writes, LateAppend(w) PROVE TypeOK'
  <2>1. late' \in [Writes -> Nat]
    BY <1>4 DEF LateAppend
  <2>2. log' \in Seq(Writes)
    BY <1>4 DEF LateAppend
  <2>3. QED
    BY <1>4, <2>1, <2>2, Zenon DEF LateAppend, readVars
<1> USE DEF brokerVars, writeVars, historyVars
<1>5. ASSUME NEW i \in Instances, InitBinding(i) PROVE TypeOK'
  BY <1>5, Zenon DEF InitBinding
<1>6. ASSUME NEW i \in Instances, Read(i) PROVE TypeOK'
  BY <1>6, Zenon DEF Read
<1>7. ASSUME NEW i \in Instances, ReadFails(i) PROVE TypeOK'
  BY <1>7, Zenon DEF ReadFails
<1>8. ASSUME NEW i \in Instances, Join(i) PROVE TypeOK'
  <2>1. loop' \in [Instances -> InSession \cup {"down", "consume", "sync", "spare",
                                                 "done"}]
    <3>1. ASSUME NEW j \in Instances
          PROVE  (CASE j = i -> "claim"
                  [] j # i /\ loop[j] = "consume" -> "sync"
                  [] OTHER -> loop[j])
                 \in InSession \cup {"down", "consume", "sync", "spare", "done"}
      BY <3>1
    <3>2. QED
      BY <1>8, <3>1 DEF Join
  <2>2. QED
    BY <1>8, <2>1, Zenon DEF Join, Setup
<1>9. ASSUME NEW i \in Instances, JoinSpare(i) PROVE TypeOK'
  BY <1>9, Zenon DEF JoinSpare, Setup
<1>10. ASSUME NEW i \in Instances, StartClaim(i) PROVE TypeOK'
  <2>1. Len(log) \in Nat /\ 1 .. Len(log) \subseteq Nat
    OBVIOUS
  <2>2. pos' \in [Instances -> Nat] /\ skipped' \subseteq Nat
    <3>1. CASE mark[i] = 0
      <4>1. /\ pos' = [pos EXCEPT ![i] = Len(log) + 1]
            /\ skipped' \in {skipped, skipped \cup 1 .. Len(log)}
        BY <1>10, <3>1, Zenon DEF StartClaim
      <4>2. QED
        BY <2>1, <4>1
    <3>2. CASE mark[i] # 0
      BY <1>10, <3>2, Zenon DEF StartClaim
    <3>3. QED
      BY <3>1, <3>2
  <2>3. QED
    BY <1>10, <2>2, Zenon DEF StartClaim
<1>11. ASSUME NEW i \in Instances, Callback(i) PROVE TypeOK'
  BY <1>11, Zenon DEF Callback
<1>12. ASSUME NEW i \in Instances, CallbackReturned(i) PROVE TypeOK'
  <2>1. pos' \in [Instances -> Nat] /\ mark' \in [Instances -> Nat]
    <3>1. pos[i] \in Nat /\ pos[i] + 1 \in Nat
      OBVIOUS
    <3>2. /\ pos' = [pos EXCEPT ![i] = pos[i] + 1]
          /\ mark' \in {mark, [mark EXCEPT ![i] = pos[i] + 1]}
      BY <1>12, Zenon DEF CallbackReturned
    <3>3. QED
      BY <3>1, <3>2, Zenon
  <2>2. QED
    BY <1>12, <2>1, Zenon DEF CallbackReturned
<1>13. ASSUME NEW i \in Instances, AutoCommit(i) PROVE TypeOK'
  BY <1>13, Zenon DEF AutoCommit, Commit
<1>14. ASSUME NEW i \in Instances, EndSession(i) PROVE TypeOK'
  <2>1. faults' \in Nat
    BY <1>14 DEF EndSession
  <2>2. QED
    BY <1>14, <2>1, Zenon DEF EndSession
<1>15. ASSUME NEW i \in Instances, Release(i) PROVE TypeOK'
  <2>1. /\ loop' \in [Instances -> InSession \cup {"down", "consume", "sync", "spare",
                                                 "done"}]
        /\ main' \in [Instances -> Stopped \cup {"eval", "await", "stuck", "notify",
                                                  "signal", "wait"}]
        /\ ready' \in [Instances -> BOOLEAN]
    BY <1>15, Zenon DEF Release, ConsumeReturned
  <2>2. committed' \in Nat /\ faults' \in Nat /\ cut' \subseteq Instances
    BY <1>15 DEF Release, Commit, CutOff
  <2>3. owner' \in Instances \cup {Nobody}
    BY <1>15 DEF Release
  <2>4. mark' \in [Instances -> Nat]
    BY <1>15 DEF Release
  <2>5. QED
    BY <1>15, <2>1, <2>2, <2>3, <2>4, Zenon DEF Release
<1>16. ASSUME NEW i \in Instances, EndSpare(i) PROVE TypeOK'
  BY <1>16, Zenon DEF EndSpare, ConsumeReturned
<1>17. ASSUME NEW i \in Instances, ConsumeFails(i) PROVE TypeOK'
  <2>1. /\ loop' \in [Instances -> InSession \cup {"down", "consume", "sync", "spare",
                                                 "done"}]
        /\ main' \in [Instances -> Stopped \cup {"eval", "await", "stuck", "notify",
                                                  "signal", "wait"}]
        /\ ready' \in [Instances -> BOOLEAN]
    BY <1>17, Zenon DEF ConsumeFails, ConsumeReturned
  <2>2. QED
    BY <1>17, <2>1, SMTT(20) DEF ConsumeFails
<1>18. ASSUME NEW i \in Instances, EvalReady(i) PROVE TypeOK'
  BY <1>18, Zenon DEF EvalReady
<1>19. ASSUME NEW i \in Instances, Notify(i) PROVE TypeOK'
  BY <1>19, Zenon DEF Notify
<1>20. ASSUME NEW i \in Instances, Sigterm(i) PROVE TypeOK'
  BY <1>20, Zenon DEF Sigterm
<1>21. ASSUME NEW i \in Instances, Close(i) PROVE TypeOK'
  BY <1>21, Zenon DEF Close
<1>22. ASSUME NEW i \in Instances, Crash(i) PROVE TypeOK'
  BY <1>22, SMTT(20) DEF Crash
<1>23. ASSUME NEW i \in Instances, Expire(i) PROVE TypeOK'
  BY <1>23, Zenon DEF Expire
<1>24. ASSUME NEW i \in Instances, Fence(i) PROVE TypeOK'
  BY <1>24 DEF Fence
<1>25. CASE UNCHANGED vars
  BY <1>25, Zenon DEF vars
<1>26. QED
  BY <1>1, <1>2, <1>2a, <1>3, <1>4, <1>5, <1>6, <1>7, <1>8, <1>9, <1>10, <1>11, <1>12,
     <1>13, <1>14, <1>15, <1>16, <1>17, <1>18, <1>19, <1>20, <1>21, <1>22, <1>23,
     <1>24, <1>25, Zenon DEF Next, WriterStep, LoopStep, MainStep

-----------------------------------------------------------------------------
\* A step of Next that touches neither the group's offset, its owner nor the
\* sessions keeps the invariant.
LEMMA QuietStep ==
  ASSUME Inv, TypeOK', UNCHANGED <<committed, owner, loop, pos, mark, offered, skipped>>
  PROVE  Inv'
BY DEF Inv, Passed, Holder

\* A step of the session of instance i changes its own variables only.
OthersStay(i) ==
  \A j \in Instances \ {i} :
     loop'[j] = loop[j] /\ pos'[j] = pos[j] /\ mark'[j] = mark[j]

\* A step of instance i that leaves it outside of a session, and changes only
\* its own variables, keeps the invariant.
LEMMA LeavingStep ==
  ASSUME Inv, TypeOK', NEW i \in Instances,
         UNCHANGED <<committed, offered, skipped>>,
         owner' \in {owner, Nobody},
         loop'[i] \notin InSession,
         OthersStay(i)
  PROVE  Inv'
<1> USE ConstantsAssumption
<1>1. Passed(committed)'
  BY DEF Inv, Passed
<1>2. ASSUME NEW j \in Instances, owner' = j PROVE Holder(j)'
  <2>1. owner = j
    BY <1>2
  <2>2. Holder(j)
    BY <2>1 DEF Inv
  <2>3. CASE j = i
    BY <2>3 DEF Holder, InSession
  <2>4. CASE j # i
    BY <2>2, <2>4, Zenon DEF Holder, Passed, InSession, OthersStay
  <2>5. QED
    BY <2>3, <2>4
<1>3. QED
  BY <1>1, <1>2 DEF Inv

\* A step of the session of instance i keeps the invariant if it keeps what is
\* known of i as the holder of the partition.
LEMMA SessionStep ==
  ASSUME Inv, TypeOK', NEW i \in Instances, OthersStay(i),
         owner' = owner, offered \subseteq offered', skipped \subseteq skipped',
         owner # i => committed' = committed,
         committed' = committed \/ Passed(committed)',
         owner = i => Holder(i)'
  PROVE  Inv'
<1>1. Passed(committed)'
  BY DEF Inv, Passed
<1>2. ASSUME NEW j \in Instances, owner' = j PROVE Holder(j)'
  BY <1>2, Zenon DEF Inv, Holder, Passed, OthersStay
<1>3. QED
  BY <1>1, <1>2 DEF Inv

\* The inductive invariant is preserved.
LEMMA InvStep == Inv /\ [Next]_vars => Inv'
<1> SUFFICES ASSUME Inv, [Next]_vars PROVE Inv'
  OBVIOUS
<1> USE ConstantsAssumption
<1>0. TypeOK /\ TypeOK'
  BY TypeStep DEF Inv
<1>1. ASSUME NEW w \in Writes, Write(w) \/ WriterStep(w) \/ LateAppend(w) PROVE Inv'
  BY <1>0, <1>1, QuietStep, Zenon
     DEF Write, WriterStep, SendMessage, SendLost, SendRefused, LateAppend, readVars
<1>2. ASSUME NEW i \in Instances,
             InitBinding(i) \/ ReadFails(i) \/ MainStep(i) \/ Sigterm(i)
      PROVE  Inv'
  BY <1>0, <1>2, QuietStep, Zenon
     DEF InitBinding, ReadFails, MainStep, EvalReady, Notify, Close, Sigterm,
         brokerVars, historyVars
<1>3. ASSUME NEW i \in Instances,
             Read(i) \/ JoinSpare(i) \/ EndSpare(i) \/ ConsumeFails(i)
             \/ Crash(i) \/ Expire(i)
      PROVE  Inv'
  <2> DEFINE Leaves ==
        /\ UNCHANGED <<committed, offered, skipped>>
        /\ owner' \in {owner, Nobody}
        /\ loop'[i] \notin InSession
        /\ OthersStay(i)
  <2> USE <1>0 DEF TypeOK, OthersStay, InSession, brokerVars, historyVars
  <2>1. CASE Read(i)
    <3>1. Leaves
      BY <2>1 DEF Read
    <3>2. QED
      BY <3>1, LeavingStep, Zenon
  <2>2. CASE JoinSpare(i)
    <3>1. Leaves
      BY <2>2 DEF JoinSpare
    <3>2. QED
      BY <3>1, LeavingStep, Zenon
  <2>3. CASE EndSpare(i)
    <3>1. Leaves
      BY <2>3, SMTT(20) DEF EndSpare, ConsumeReturned
    <3>2. QED
      BY <3>1, LeavingStep, Zenon
  <2>4. CASE ConsumeFails(i)
    <3>1. Leaves
      BY <2>4, SMTT(20) DEF ConsumeFails, ConsumeReturned
    <3>2. QED
      BY <3>1, LeavingStep, Zenon
  <2>5. CASE Crash(i)
    <3>1. Leaves
      BY <2>5, SMTT(20) DEF Crash
    <3>2. QED
      BY <3>1, LeavingStep, Zenon
  <2>6. CASE Expire(i)
    <3>1. Leaves
      BY <2>6, Zenon DEF Expire
    <3>2. QED
      BY <3>1, LeavingStep, Zenon
  <2>7. QED
    BY <1>3, <2>1, <2>2, <2>3, <2>4, <2>5, <2>6, Zenon
<1>4. ASSUME NEW i \in Instances, Fence(i) PROVE Inv'
  BY <1>0, <1>4 DEF Fence, Inv, Passed, historyVars
<1>5. ASSUME NEW i \in Instances, Join(i) PROVE Inv'
  <2>1. Passed(committed)'
    BY <1>5 DEF Join, Inv, Passed
  <2>2. ASSUME NEW j \in Instances, owner' = j PROVE Holder(j)'
    <3>1. j = i /\ loop'[i] = "claim" /\ mark'[i] = committed /\ committed' = committed
      BY <1>0, <1>5, <2>2, SMTT(20) DEF Join, TypeOK
    <3>2. committed' <= mark'[i] /\ Passed(mark[i])'
      BY <1>0, <2>1, <3>1, SMTT(20) DEF TypeOK
    <3>3. QED
      BY <3>1, <3>2 DEF Holder, InSession
  <2>3. QED
    BY <1>0, <2>1, <2>2 DEF Inv
<1>6. ASSUME NEW i \in Instances, StartClaim(i) PROVE Inv'
  <2>1. /\ UNCHANGED <<committed, owner, mark, offered>>
        /\ skipped \subseteq skipped' /\ OthersStay(i) /\ loop'[i] = "session"
    BY <1>0, <1>6, SMTT(20) DEF StartClaim, OthersStay, TypeOK, brokerVars
  <2>2. ASSUME owner = i PROVE Holder(i)'
    <3>1. committed <= mark[i] /\ Passed(mark[i])
      BY <1>6, <2>2, Zenon DEF StartClaim, Inv, Holder, InSession
    <3>2. mark[i] <= pos'[i] /\ Passed(pos[i])'
      <4>1. CASE mark[i] = 0
        <5>1. Len(log) \in Nat
          BY <1>0 DEF TypeOK
        <5>2. pos'[i] = Len(log) + 1 /\ skipped' = skipped \cup 1 .. Len(log)
          BY <1>0, <1>6, <2>2, <4>1, SMTT(20) DEF StartClaim, TypeOK
        <5>3. QED
          BY <4>1, <5>1, <5>2 DEF Passed
      <4>2. CASE mark[i] # 0
        <5>1. pos'[i] = mark[i] /\ skipped' = skipped
          BY <1>0, <1>6, <4>2, SMTT(20) DEF StartClaim, TypeOK
        <5>2. QED
          BY <1>0, <2>1, <3>1, <5>1, SMTT(20) DEF Passed, TypeOK
      <4>3. QED
        BY <4>1, <4>2
    <3>3. QED
      BY <2>1, <3>1, <3>2 DEF Holder, Passed
  <2>3. QED
    BY <1>0, <2>1, <2>2, SessionStep
<1>7. ASSUME NEW i \in Instances, Callback(i) PROVE Inv'
  <2>1. /\ UNCHANGED <<committed, owner, mark, pos, skipped>>
        /\ offered' = offered \cup {pos[i]} /\ OthersStay(i)
        /\ loop[i] = "session" /\ loop'[i] = "handle"
    BY <1>0, <1>7, SMTT(20) DEF Callback, OthersStay, TypeOK, brokerVars
  <2>2. ASSUME owner = i PROVE Holder(i)'
    BY <2>1, <2>2, Zenon DEF Inv, Holder, Passed, InSession
  <2>3. QED
    BY <1>0, <2>1, <2>2, SessionStep
<1>8. ASSUME NEW i \in Instances, CallbackReturned(i) PROVE Inv'
  <2>1. /\ UNCHANGED <<committed, owner, offered, skipped>> /\ OthersStay(i)
        /\ loop[i] = "handle" /\ loop'[i] = "session" /\ pos'[i] = pos[i] + 1
        /\ mark'[i] \in {mark[i], pos[i] + 1}
    BY <1>0, <1>8, SMTT(20) DEF CallbackReturned, OthersStay, TypeOK, brokerVars, historyVars
  <2>2. ASSUME owner = i PROVE Holder(i)'
    <3>1. /\ committed <= mark[i] /\ mark[i] <= pos[i] /\ Passed(pos[i]) /\ pos[i] \in offered
          /\ committed \in Nat /\ mark[i] \in Nat /\ pos[i] \in Nat
      BY <1>0, <2>1, <2>2, Zenon DEF Inv, Holder, InSession, TypeOK
    <3>2. Passed(pos[i])'
      BY <2>1, <3>1 DEF Passed
    <3>3. committed' <= mark'[i] /\ mark'[i] <= pos'[i]
      BY <2>1, <3>1
    <3>4. Passed(mark[i])'
      BY <1>0, <2>1, <3>1, <3>2, <3>3, SMTT(20) DEF Passed, TypeOK
    <3>5. QED
      BY <2>1, <3>2, <3>3, <3>4, Zenon DEF Holder
  <2>3. QED
    BY <1>0, <2>1, <2>2, SessionStep
<1>9. ASSUME NEW i \in Instances, AutoCommit(i) PROVE Inv'
  <2>1. /\ UNCHANGED <<owner, loop, pos, mark, offered, skipped>> /\ OthersStay(i)
        /\ owner = i /\ committed' = mark[i] /\ loop[i] \in InSession
    BY <1>9 DEF AutoCommit, Commit, OthersStay, historyVars
  <2>2. Holder(i) /\ Passed(mark[i])
    BY <2>1, Zenon DEF Inv, Holder
  <2>3. Holder(i)'
    BY <1>0, <2>1, <2>2, SMTT(20) DEF Holder, Passed, TypeOK
  <2>4. QED
    BY <1>0, <2>1, <2>3, SessionStep, Zenon DEF Holder
<1>10. ASSUME NEW i \in Instances, EndSession(i) PROVE Inv'
  <2>1. /\ UNCHANGED <<committed, owner, mark, offered, skipped>> /\ OthersStay(i)
        /\ loop[i] \in InSession /\ loop'[i] = "release"
    BY <1>0, <1>10, SMTT(20) DEF EndSession, OthersStay, TypeOK, InSession, brokerVars, historyVars
  <2>2. ASSUME owner = i PROVE Holder(i)'
    BY <2>1, <2>2, Zenon DEF Inv, Holder, Passed
  <2>3. QED
    BY <1>0, <2>1, <2>2, SessionStep
<1>11. ASSUME NEW i \in Instances, Release(i) PROVE Inv'
  <2>1. /\ UNCHANGED <<pos, offered, skipped>> /\ loop[i] = "release"
        /\ mark' = [mark EXCEPT ![i] = IF Cancelled(i) THEN mark[i] ELSE 0]
        /\ loop' = [loop EXCEPT ![i] = IF Cancelled(i) THEN "done" ELSE "consume"]
        /\ owner' = IF owner = i THEN Nobody ELSE owner
        /\ committed' = committed \/ (owner = i /\ committed' = mark[i])
    BY <1>11, Zenon DEF Release, Commit, ConsumeReturned
  <2>2. Passed(committed)'
    BY <2>1, Zenon DEF Inv, Holder, Passed, InSession
  <2>3. ASSUME NEW j \in Instances, owner' = j PROVE Holder(j)'
    <3>1. owner = j /\ j # i
      BY <2>1, <2>3
    <3>2. committed' = committed /\ loop'[j] = loop[j] /\ mark'[j] = mark[j]
      BY <1>0, <2>1, <3>1, Zenon DEF TypeOK
    <3>3. QED
      BY <2>1, <3>1, <3>2, Zenon DEF Inv, Holder, Passed
  <2>4. QED
    BY <1>0, <2>2, <2>3 DEF Inv
<1>12. CASE UNCHANGED vars
  BY <1>0, <1>12, QuietStep DEF vars
<1>13. QED
  BY <1>1, <1>2, <1>3, <1>4, <1>5, <1>6, <1>7, <1>8, <1>9, <1>10, <1>11, <1>12, Zenon
     DEF Next, LoopStep

\* The invariant holds initially.
LEMMA InvInit == Init => Inv
BY ConstantsAssumption DEF Init, Inv, TypeOK, Passed, InSession, Stopped

-----------------------------------------------------------------------------
\* The group's offset passes no message that no handler was given, except
\* those before the group's first position, for any instances and faults.
THEOREM OffsetPassesOnlyOffered == Spec => []OfferedBeforeCommitted
<1>1. Inv => OfferedBeforeCommitted
  BY DEF Inv, TypeOK, Passed, OfferedBeforeCommitted
<1>2. QED
  BY <1>1, InvInit, InvStep, PTL DEF Spec

\* A commit never lowers the group's offset: only the holder of the partition
\* commits, and its mark is not below the offset.
LEMMA OffsetStep ==
  ASSUME Inv, [Next]_vars
  PROVE  committed' = committed \/ committed' >= committed
<1>1. ASSUME NEW i \in Instances, AutoCommit(i) \/ Release(i)
      PROVE  committed' = committed \/ committed' >= committed
  <2>1. committed' = committed \/ (owner = i /\ loop[i] \in InSession /\ committed' = mark[i])
    BY <1>1 DEF AutoCommit, Release, Commit, InSession
  <2>2. owner = i /\ loop[i] \in InSession => committed <= mark[i]
    BY DEF Inv, Holder
  <2>3. QED
    BY <2>1, <2>2 DEF Inv, TypeOK
<1>2. ASSUME NEW w \in Writes, Write(w) \/ WriterStep(w) \/ LateAppend(w)
      PROVE  committed' = committed
  BY <1>2, Zenon DEF WriterStep, Write, SendMessage, SendLost, SendRefused, LateAppend, readVars, brokerVars
<1>3. ASSUME NEW i \in Instances,
             InitBinding(i) \/ Read(i) \/ ReadFails(i) \/ MainStep(i) \/ Sigterm(i) \/ Crash(i)
      PROVE  committed' = committed
  BY <1>3, Zenon DEF InitBinding, Read, ReadFails, MainStep, EvalReady, Notify, Close, Sigterm,
     Crash, brokerVars
<1>4. ASSUME NEW i \in Instances, Join(i) \/ JoinSpare(i) \/ StartClaim(i) \/ Callback(i)
                                   \/ CallbackReturned(i) \/ EndSpare(i)
      PROVE  committed' = committed
  BY <1>4, Zenon DEF Join, JoinSpare, StartClaim, Callback, CallbackReturned, EndSpare, brokerVars
<1>5. ASSUME NEW i \in Instances, EndSession(i) \/ ConsumeFails(i) \/ Expire(i) \/ Fence(i)
      PROVE  committed' = committed
  BY <1>5, Zenon DEF EndSession, ConsumeFails, Expire, Fence, brokerVars
<1>6. CASE UNCHANGED vars
  BY <1>6, Zenon DEF vars, brokerVars
<1>7. QED
  BY <1>1, <1>2, <1>3, <1>4, <1>5, <1>6, Zenon DEF Next, LoopStep

\* The group's offset never goes back.
THEOREM OffsetNeverGoesBack == Spec => CommitNeverGoesBack
<1>1. Inv /\ [Next]_vars => [committed' >= committed]_committed
  BY OffsetStep
<1>2. QED
  BY <1>1, InvInit, InvStep, PTL DEF Spec, CommitNeverGoesBack

\* A Write that returned nil has stored its message.
THEOREM WrittenIsStored == Spec => []WriteIsReal
<1>1. Init => WriteIsReal
  BY DEF Init, WriteIsReal
<1>2. TypeOK /\ WriteIsReal /\ [Next]_vars => WriteIsReal'
  <2> SUFFICES ASSUME TypeOK, WriteIsReal, [Next]_vars, NEW w \in Writes, wr'[w] = "ok"
               PROVE  \E e \in DOMAIN log' : log'[e] = w
    BY DEF WriteIsReal
  <2>1. ASSUME NEW v \in Writes, log' = Append(log, v)
        PROVE  /\ \A e \in DOMAIN log : e \in DOMAIN log' /\ log'[e] = log[e]
               /\ Len(log) + 1 \in DOMAIN log' /\ log'[Len(log) + 1] = v
    <3>1. log \in Seq(Writes) /\ Len(log) \in Nat /\ DOMAIN log = 1 .. Len(log)
      BY DEF TypeOK
    <3>2. /\ DOMAIN log' = 1 .. Len(log) + 1
          /\ \A e \in 1 .. Len(log) : log'[e] = log[e]
          /\ log'[Len(log) + 1] = v
      BY <2>1, <3>1, AppendProperties
    <3>3. QED
      BY <3>1, <3>2
  <2>2. CASE wr[w] = "ok" /\ (log' = log \/ \E v \in Writes : log' = Append(log, v))
    BY <2>1, <2>2 DEF WriteIsReal
  <2>3. CASE SendMessage(w)
    BY <2>1, <2>3 DEF SendMessage
  <2>4. ASSUME NEW v \in Writes, Write(v) \/ SendLost(v) \/ SendRefused(v) \/ LateAppend(v)
                             \/ SendMessage(v)
        PROVE  \E e \in DOMAIN log' : log'[e] = w
    <3>1. CASE Write(v)
      BY <2>2, <3>1 DEF Write, TypeOK
    <3>2. CASE SendLost(v)
      <4>1. log' = log /\ wr[w] = "ok"
        BY <3>2 DEF SendLost, TypeOK
      <4>2. QED
        BY <2>2, <4>1
    <3>3. CASE LateAppend(v)
      BY <2>2, <3>3 DEF LateAppend
    <3>4. CASE SendMessage(v)
      <4>1. CASE v = w
        BY <2>3, <3>4, <4>1
      <4>2. CASE v # w
        BY <2>2, <3>4, <4>2, Zenon DEF SendMessage, TypeOK
      <4>3. QED
        BY <4>1, <4>2
    <3>5. CASE SendRefused(v)
      <4>1. log' = log /\ wr[w] = "ok"
        BY <3>5 DEF SendRefused, TypeOK
      <4>2. QED
        BY <2>2, <4>1
    <3>6. QED
      BY <2>4, <3>1, <3>2, <3>3, <3>4, <3>5
  <2>5. CASE UNCHANGED <<log, wr>>
    BY <2>2, <2>5
  <2>6. ASSUME NEW i \in Instances,
               InitBinding(i) \/ Read(i) \/ ReadFails(i) \/ MainStep(i) \/ Sigterm(i) \/ Crash(i)
        PROVE  UNCHANGED <<log, wr>>
    BY <2>6, Zenon DEF InitBinding, Read, ReadFails, MainStep, EvalReady, Notify, Close, Sigterm,
       Crash, brokerVars, writeVars
  <2>7. ASSUME NEW i \in Instances, Join(i) \/ JoinSpare(i) \/ StartClaim(i) \/ Callback(i)
                                     \/ CallbackReturned(i) \/ EndSpare(i)
        PROVE  UNCHANGED <<log, wr>>
    BY <2>7, Zenon DEF Join, JoinSpare, StartClaim, Callback, CallbackReturned, EndSpare,
       brokerVars, writeVars
  <2>8. ASSUME NEW i \in Instances, AutoCommit(i) \/ EndSession(i) \/ Release(i)
                                     \/ ConsumeFails(i) \/ Expire(i) \/ Fence(i)
        PROVE  UNCHANGED <<log, wr>>
    BY <2>8, Zenon DEF AutoCommit, EndSession, Release, ConsumeFails, Expire, Fence, brokerVars,
       writeVars
  <2>9. CASE UNCHANGED vars
    BY <2>5, <2>9, Zenon DEF vars, brokerVars, writeVars
  <2>10. QED
    BY <2>4, <2>5, <2>6, <2>7, <2>8, <2>9, Zenon DEF Next, WriterStep, LoopStep
<1>3. Inv => TypeOK
  BY DEF Inv
<1>4. QED
  BY <1>1, <1>2, <1>3, InvInit, InvStep, PTL DEF Spec

-----------------------------------------------------------------------------
\* Outside of a session nothing that is marked waits for its commit, and Read
\* has returned only if its loop has ended.
Idle(i) ==
  /\ loop[i] \notin InSession /\ i \notin cut => mark[i] <= committed
  /\ main[i] \in Stopped => loop[i] \in {"down", "done"}
  /\ loop[i] \in {"consume", "sync"} => ~ready[i]

\* When Consume returns to a loop whose marks are committed or cut off, Idle
\* holds: the loop ends only if Read waits for it, and c.ready is new.
LEMMA ReturnedIdle ==
  ASSUME TypeOK, NEW i \in Instances, ConsumeReturned(i),
         loop[i] \notin {"down", "done"}, Idle(i),
         i \in cut' \/ mark'[i] <= committed'
  PROVE  Idle(i)'
<1>1. main[i] \notin Stopped
  BY DEF Idle
<1>2. main'[i] \notin Stopped
  BY <1>1 DEF ConsumeReturned, TypeOK, Stopped
<1>3. loop'[i] \in {"consume", "sync"} => ~ready'[i]
  <2>1. CASE Cancelled(i)
    BY <2>1 DEF ConsumeReturned, TypeOK
  <2>2. CASE ~Cancelled(i)
    BY <2>2 DEF ConsumeReturned, TypeOK
  <2>3. QED
    BY <2>1, <2>2
<1>4. QED
  BY <1>2, <1>3 DEF Idle

\* The return of Consume in one instance is no concern of another.
LEMMA ReturnedElsewhere ==
  ASSUME TypeOK, NEW i \in Instances, NEW j \in Instances, i # j, ConsumeReturned(j)
  PROVE  loop'[i] = loop[i] /\ main'[i] = main[i] /\ ready'[i] = ready[i]
BY DEF ConsumeReturned, TypeOK

\* The steps of instance j keep Idle(i), by what they do to the variables of i.
LEMMA IdleStep ==
  ASSUME Inv, [Next]_vars, NEW i \in Instances, Idle(i)
  PROVE  Idle(i)'
<1>0. /\ TypeOK /\ TypeOK' /\ committed <= committed'
      /\ committed \in Nat /\ committed' \in Nat /\ mark[i] \in Nat
  <2>1. TypeOK /\ TypeOK'
    BY TypeStep DEF Inv
  <2>2. committed' = committed \/ committed' >= committed
    BY OffsetStep
  <2>3. committed \in Nat /\ committed' \in Nat /\ mark[i] \in Nat
    BY <2>1, Zenon DEF TypeOK
  <2>4. committed <= committed'
    BY <2>2, <2>3
  <2>5. QED
    BY <2>1, <2>3, <2>4
<1> DEFINE Same == /\ loop'[i] = loop[i] /\ main'[i] = main[i] /\ mark'[i] = mark[i]
                   /\ ready'[i] = ready[i] /\ (i \in cut => i \in cut')
<1>1. ASSUME Same PROVE Idle(i)'
  <2>1. mark[i] <= committed => mark'[i] <= committed'
    <3>1. mark[i] <= committed => mark[i] <= committed'
      BY <1>0
    <3>2. QED
      BY <3>1, <1>1
  <2>2. (loop[i] \notin InSession /\ i \notin cut => mark[i] <= committed)
        => (loop'[i] \notin InSession /\ i \notin cut' => mark'[i] <= committed')
    BY <2>1, <1>1
  <2>3. /\ main'[i] \in Stopped => loop'[i] \in {"down", "done"}
        /\ loop'[i] \in {"consume", "sync"} => ~ready'[i]
    BY <1>1 DEF Idle
  <2>4. QED
    BY <2>2, <2>3 DEF Idle
<1>2. ASSUME NEW w \in Writes, Write(w) \/ WriterStep(w) \/ LateAppend(w) PROVE Same
  BY <1>2, Zenon DEF Write, WriterStep, SendMessage, SendLost, SendRefused, LateAppend, readVars
<1> USE <1>0 DEF TypeOK, InSession, Stopped, brokerVars, historyVars
<1>3. ASSUME NEW j \in Instances,
             InitBinding(j) \/ ReadFails(j) \/ EvalReady(j) \/ Notify(j) \/ Sigterm(j)
      PROVE  Idle(i)'
  BY <1>3, SMTT(20) DEF Idle, InitBinding, ReadFails, EvalReady, Notify, Sigterm
<1>4. ASSUME NEW j \in Instances, Close(j) \/ Crash(j) \/ Read(j) PROVE Idle(i)'
  BY <1>4, SMTT(20) DEF Idle, Close, Crash, Read
<1>5. ASSUME NEW j \in Instances, Join(j) PROVE Idle(i)'
  <2>1. loop[j] = "consume" /\ loop'[j] = "claim" /\ committed' = committed
    BY <1>5 DEF Join
  <2>2. CASE j = i
    <3>1. main[i] \notin Stopped
      BY <2>1, <2>2 DEF Idle
    <3>2. main'[i] \notin Stopped
      BY <1>5, <2>2, <3>1 DEF Join, Setup
    <3>3. QED
      BY <2>1, <2>2, <3>2 DEF Idle
  <2>3. CASE j # i
    <3>1. /\ main'[i] = main[i] /\ ready'[i] = ready[i] /\ mark'[i] = mark[i]
          /\ (i \in cut => i \in cut')
      <4>1. main'[i] = main[i] /\ ready'[i] = ready[i]
        BY <1>5, <2>3, Zenon DEF Join, Setup
      <4>2. mark'[i] = mark[i] /\ (i \in cut => i \in cut')
        BY <1>5, <2>3, Zenon DEF Join
      <4>3. QED
        BY <4>1, <4>2, Zenon
    <3>2. loop'[i] = IF loop[i] = "consume" THEN "sync" ELSE loop[i]
      BY <1>5, <2>3, SMTT(20) DEF Join
    <3>3. QED
      BY <2>1, <3>1, <3>2, SMTT(20) DEF Idle
  <2>4. QED
    BY <2>2, <2>3, Zenon
<1>6. ASSUME NEW j \in Instances, JoinSpare(j) PROVE Idle(i)'
  BY <1>6, SMTT(20) DEF Idle, JoinSpare, Setup
<1>7. ASSUME NEW j \in Instances, StartClaim(j) \/ Callback(j) \/ EndSession(j) PROVE Idle(i)'
  BY <1>7, SMTT(20) DEF Idle, StartClaim, Callback, EndSession
<1>8. ASSUME NEW j \in Instances, CallbackReturned(j) PROVE Idle(i)'
  BY <1>8, SMTT(20) DEF Idle, CallbackReturned
<1>9. ASSUME NEW j \in Instances, AutoCommit(j) \/ Expire(j) \/ Fence(j) PROVE Same
  BY <1>9, Zenon DEF AutoCommit, Expire, Fence
<1>10. ASSUME NEW j \in Instances, EndSpare(j) \/ ConsumeFails(j) PROVE Idle(i)'
  <2>1. /\ ConsumeReturned(j) /\ loop[j] \notin InSession /\ loop[j] \notin {"down", "done"}
        /\ mark' = mark /\ cut' = cut
    BY <1>10, Zenon DEF EndSpare, ConsumeFails
  <2>2. CASE j # i
    <3>1. loop'[i] = loop[i] /\ main'[i] = main[i] /\ ready'[i] = ready[i]
      BY <2>1, <2>2, ReturnedElsewhere, Zenon
    <3>2. QED
      BY <1>1, <2>1, <3>1, Zenon
  <2>3. CASE j = i
    <3>1. mark'[i] = mark[i] /\ (i \in cut => i \in cut') /\ loop[i] \notin InSession
      BY <2>1, <2>3, Zenon
    <3>2. i \in cut' \/ mark'[i] <= committed'
      BY <3>1 DEF Idle
    <3>3. ConsumeReturned(i) /\ loop[i] \notin {"down", "done"}
      BY <2>1, <2>3, Zenon
    <3>4. QED
      BY <3>2, <3>3, ReturnedIdle, Zenon
  <2>4. QED
    BY <2>2, <2>3, Zenon
<1>11. ASSUME NEW j \in Instances, Release(j) PROVE Idle(i)'
  <2>1. /\ ConsumeReturned(j) /\ loop[j] = "release"
        /\ mark' = [mark EXCEPT ![j] = IF Cancelled(j) THEN mark[j] ELSE 0]
        /\ CutOff(j) \/ (cut' = cut /\ committed' = mark[j])
    BY <1>11, Zenon DEF Release, Commit
  <2>2. CASE j # i
    <3>1. mark'[i] = mark[i] /\ (i \in cut => i \in cut')
      BY <2>1, <2>2, Zenon DEF CutOff
    <3>2. Same
      BY <2>1, <2>2, <3>1, ReturnedElsewhere, Zenon
    <3>3. QED
      BY <1>1, <3>2, Zenon
  <2>3. CASE j = i
    <3>1. mark'[i] = 0 \/ (mark'[i] = mark[i] /\ (i \in cut' \/ committed' = mark[i]))
      BY <2>1, <2>3, Zenon DEF CutOff
    <3>2. i \in cut' \/ mark'[i] <= committed'
      BY <3>1
    <3>3. ConsumeReturned(i) /\ loop[i] \notin {"down", "done"}
      BY <2>1, <2>3, Zenon
    <3>4. QED
      BY <3>2, <3>3, ReturnedIdle, Zenon
  <2>4. QED
    BY <2>2, <2>3, Zenon
<1>12. CASE UNCHANGED vars
  BY <1>1, <1>12, Zenon DEF vars
<1>13. QED
  BY <1>1, <1>2, <1>3, <1>4, <1>5, <1>6, <1>7, <1>8, <1>9, <1>10, <1>11, <1>12, Zenon
     DEF Next, LoopStep, MainStep

\* When Read has returned, what it marked is committed, unless its last session
\* was cut off; and Setup never closes a closed channel.
THEOREM StopIsClean == Spec => [](StopCommits /\ ReadyIsClosedOnce)
<1> DEFINE AllIdle == \A i \in Instances : Idle(i)
<1>1. Init => AllIdle
  BY DEF Init, Idle, Stopped
<1>2. Inv /\ AllIdle /\ [Next]_vars => AllIdle'
  BY IdleStep
<1>3. AllIdle => StopCommits /\ ReadyIsClosedOnce
  BY DEF Idle, StopCommits, ReadyIsClosedOnce, Stopped, InSession
<1> HIDE DEF AllIdle
<1>4. QED
  BY <1>1, <1>2, <1>3, InvInit, InvStep, PTL DEF Spec

=============================================================================
