------------------------- MODULE LockedQueuesProofs -------------------------
(***************************************************************************)
(* That the components whose broker locks messages implement AtLeastOnce,  *)
(* that Publish stores what it reports as stored, and that a reader has a  *)
(* subscription to read from, for any number of messages, readers,         *)
(* deliveries and faults.                                                  *)
(*                                                                         *)
(* A message is settled with the reader's hand or by a late command; the   *)
(* invariant Held ties both to a handler that has accepted it.  Entities   *)
(* says that topic and subscription, once they exist, stay, and in which   *)
(* steps an actor may rely on them.                                        *)
(***************************************************************************)
EXTENDS LockedQueues, SequenceTheorems, TLAPS

USE ConstantsAssumption

Statuses == {"queued", "delivered", "settled", "buried"}

\* A reader at work holds a stored message, and settles it, at once or with a
\* late command, only if a handler has accepted it.
Held ==
  /\ \A i \in Instances :
       /\ pc[i] \in {"handle", "settle", "abandon"} => hand[i].entry \in 1 .. Len(stored)
       /\ pc[i] = "settle" => hand[i].entry \in accepted
  /\ \A x \in late : x.op = "settle" => x.held.entry \in accepted

IInv == TypeOK /\ Held

\* What a step does to the stored messages.
StatusStep ==
  \/ UNCHANGED <<stored, status, count>>
  \/ \E m \in Messages : /\ stored' = Append(stored, m)
                         /\ status' = Append(status, "queued")
                         /\ count' = Append(count, 0)
  \/ \E e \in 1 .. Len(stored), s \in Statuses :
       /\ status' = [status EXCEPT ![e] = s]
       /\ stored' = stored
       /\ count' = count \/ count' = [count EXCEPT ![e] = @ + 1]

\* Each kind of change to the messages keeps their types.
LEMMA StatusTypes ==
  ASSUME TypeOK, StatusStep
  PROVE  /\ stored' \in Seq(Messages) /\ status' \in Seq(Statuses) /\ count' \in Seq(Nat)
         /\ Len(status') = Len(stored') /\ Len(count') = Len(stored')
         /\ Len(stored') >= Len(stored)
         /\ \A e \in 1 .. Len(stored) : stored'[e] = stored[e]
<1>1. CASE UNCHANGED <<stored, status, count>>
  BY <1>1 DEF TypeOK, Statuses
<1>2. ASSUME NEW m \in Messages, stored' = Append(stored, m),
             status' = Append(status, "queued"), count' = Append(count, 0)
      PROVE  /\ stored' \in Seq(Messages) /\ status' \in Seq(Statuses) /\ count' \in Seq(Nat)
             /\ Len(status') = Len(stored') /\ Len(count') = Len(stored')
             /\ Len(stored') >= Len(stored)
             /\ \A e \in 1 .. Len(stored) : stored'[e] = stored[e]
  BY <1>2 DEF TypeOK, Statuses
<1>3. ASSUME NEW e \in 1 .. Len(stored), NEW s \in Statuses,
             status' = [status EXCEPT ![e] = s], stored' = stored,
             count' = count \/ count' = [count EXCEPT ![e] = @ + 1]
      PROVE  /\ status' \in Seq(Statuses) /\ count' \in Seq(Nat)
             /\ Len(status') = Len(stored') /\ Len(count') = Len(stored')
  <2>1. status \in Seq(Statuses) /\ e \in 1 .. Len(status)
    BY DEF TypeOK, Statuses
  <2>2. status' \in Seq(Statuses) /\ Len(status') = Len(status)
    BY <1>3, <2>1, ExceptSeq
  <2>3. count \in Seq(Nat) /\ e \in 1 .. Len(count) /\ count[e] + 1 \in Nat
    BY SMTT(20) DEF TypeOK
  <2>4. count' \in Seq(Nat) /\ Len(count') = Len(count)
    BY <1>3, <2>3, ExceptSeq
  <2> QED BY <1>3, <2>2, <2>4, SMTT(20) DEF TypeOK
<1>4. stored' = stored => /\ stored' \in Seq(Messages) /\ Len(stored') >= Len(stored)
                          /\ \A e \in 1 .. Len(stored) : stored'[e] = stored[e]
  BY DEF TypeOK
<1> QED BY <1>1, <1>2, <1>3, <1>4, Zenon DEF StatusStep

\* The broker's messages change in one of these ways in every step.
LEMMA EveryStepIsAStatusStep ==
  ASSUME IInv, [Next]_vars
  PROVE  StatusStep
<1> USE DEF IInv
<1>0. DOMAIN status = 1 .. Len(stored) /\ DOMAIN stored = 1 .. Len(stored)
  BY DEF TypeOK
<1>1. ASSUME NEW m \in Messages, Store(m) PROVE StatusStep
  BY <1>1 DEF Store, StatusStep
<1>2. ASSUME NEW e \in 1 .. Len(stored), Requeue(e), UNCHANGED <<stored, count>>
      PROVE  StatusStep
  <2>1. PICK s \in {"buried", "queued"} : status' = [status EXCEPT ![e] = s]
    BY <1>2, Zenon DEF Requeue, Is
  <2> QED BY <1>2, <2>1, Zenon DEF StatusStep, Statuses
<1>3. CASE UNCHANGED <<stored, status, count>>
  BY <1>3 DEF StatusStep
<1>4. ASSUME NEW e \in DOMAIN status, LockExpires(e) PROVE StatusStep
  BY <1>0, <1>2, <1>4 DEF LockExpires
<1>5. ASSUME NEW i \in Instances, NEW e \in DOMAIN status, Receive(i, e) PROVE StatusStep
  BY <1>0, <1>5, Zenon DEF Receive, Is, StatusStep, Statuses
<1>6. ASSUME NEW i \in Instances, Settle(i) PROVE StatusStep
  <2>1. hand[i].entry \in 1 .. Len(stored)
    BY <1>6 DEF Settle, Held
  <2> QED BY <1>6, <2>1, Zenon DEF Settle, Is, StatusStep, Statuses
<1>7. ASSUME NEW i \in Instances, Abandon(i) PROVE StatusStep
  <2>1. hand[i].entry \in 1 .. Len(stored)
    BY <1>7 DEF Abandon, Held
  <2> QED BY <1>2, <1>3, <1>7, <2>1 DEF Abandon
<1>8. ASSUME NEW x \in late, LateExecuted(x) PROVE StatusStep
  <2>1. CASE x.op = "send" /\ Store(x.msg)
    <3>1. x.msg \in Messages
      BY <2>1, Zenon DEF TypeOK, Commands
    <3> QED BY <1>1, <2>1, <3>1
  <2>2. CASE x.op = "settle" /\ Is(x.held.entry, "settled") /\ UNCHANGED <<stored, count>>
    <3>1. x.held.entry \in 1 .. Len(stored)
      BY <1>0, <2>2, Zenon DEF TypeOK, Held
    <3> QED BY <2>2, <3>1, Zenon DEF Is, StatusStep, Statuses
  <2>3. CASE x.op = "abandon" /\ HasLock(x.held) /\ Requeue(x.held.entry)
             /\ UNCHANGED <<stored, count>>
    <3>1. CASE x.held.entry \in 1 .. Len(stored)
      BY <1>2, <2>3, <3>1
    <3>2. CASE x.held.entry \notin 1 .. Len(stored)
      BY <1>0, <1>3, <2>3, <3>2 DEF Requeue, Is, TypeOK
    <3> QED BY <3>1, <3>2
  <2> QED BY <1>3, <1>8, <2>1, <2>2, <2>3, Zenon DEF LateExecuted
<1>9. ASSUME NEW m \in Messages, Send(m) PROVE StatusStep
  BY <1>1, <1>3, <1>9 DEF Send
<1>10. CASE UNCHANGED vars
  BY <1>3, <1>10 DEF vars
<1>11. ASSUME NEW a \in Actors, GetTopic(a) \/ PutTopic(a) \/ EnsureLost(a)
       PROVE  StatusStep
  BY <1>3, <1>11, Zenon DEF GetTopic, PutTopic, EnsureLost, serverVars
<1>12. ASSUME NEW m \in Messages, Publish(m) \/ SendLost(m) PROVE StatusStep
  BY <1>3, <1>12 DEF Publish, SendLost, serverVars
<1>13. ASSUME NEW i \in Instances,
              \/ Subscribe(i) \/ GetSub(i) \/ PutSub(i) \/ ReceiveFromNothing(i)
              \/ ReceiveFails(i) \/ HandlerAccepts(i)
       PROVE  StatusStep
  BY <1>3, <1>13, Zenon DEF Subscribe, GetSub, PutSub, ReceiveFromNothing, ReceiveFails,
                     HandlerAccepts, serverVars
<1>14. ASSUME NEW i \in Instances, HandlerFails(i) \/ SettlementLost(i) \/ Crash(i)
       PROVE  StatusStep
  BY <1>3, <1>14, Zenon DEF HandlerFails, SettlementLost, Crash, serverVars
<1> QED
  BY <1>4, <1>5, <1>6, <1>7, <1>8, <1>9, <1>10, <1>11, <1>12, <1>13, <1>14, Zenon
  DEF Next, PublisherStep, ReaderStep, Actors

Points == {"idle", "down", "send", "ok", "err", "failed", "ended"} \cup Ensuring \cup Reading

\* The part of the invariant about actors and commands on their way.
Actives ==
  /\ which \in Kinds /\ topic \in BOOLEAN /\ sub \in BOOLEAN
  /\ pc \in [Actors -> Points]
  /\ hand \in [Instances -> Hands] /\ unacked \in [Instances -> Nat]
  /\ \A i \in Instances : hand[i] # Nothing <=> pc[i] \in {"handle", "settle", "abandon"}
  /\ late \subseteq Commands
  /\ faults \in 0 .. MaxFaults
  /\ accepted \subseteq 1 .. Len(stored)
  /\ expected \subseteq Messages
  /\ Held

\* The invariant, as the entities' and actors' part and the types of the messages.
LEMMA IInvIsActives ==
  IInv <=> /\ Actives
           /\ stored \in Seq(Messages) /\ status \in Seq(Statuses) /\ count \in Seq(Nat)
           /\ Len(status) = Len(stored) /\ Len(count) = Len(stored)
<1>1. stored \in Seq(Messages) => DOMAIN stored = 1 .. Len(stored)
  OBVIOUS
<1> QED BY <1>1, Zenon DEF IInv, TypeOK, Actives, Points, Statuses

\* Steps of an actor that holds nothing before or after it.
LEMMA ActivesGoto ==
  ASSUME Actives, Len(stored) \in Nat, Len(stored)' \in Nat, Len(stored') >= Len(stored),
         NEW a \in Actors, NEW at \in Points \ {"handle", "settle", "abandon"}, Goto(a, at),
         pc[a] \notin {"handle", "settle", "abandon"},
         topic' \in BOOLEAN, sub' \in BOOLEAN,
         late' \subseteq Commands, \A x \in late' \ late : x.op # "settle",
         faults' \in 0 .. MaxFaults, expected' \subseteq Messages,
         UNCHANGED <<which, hand, unacked, accepted>>
  PROVE  Actives'
<1>1. pc' = [pc EXCEPT ![a] = at]
  BY DEF Goto
<1>2. pc' \in [Actors -> Points]
  BY <1>1 DEF Actives
<1>3. \A i \in Instances :
        pc'[i] \in {"handle", "settle", "abandon"} => pc'[i] = pc[i]
  BY <1>1 DEF Actives, Actors
<1>4. \A i \in Instances :
        pc[i] \in {"handle", "settle", "abandon"} => pc'[i] = pc[i]
  BY <1>1 DEF Actives, Actors
<1>5. Held'
  BY <1>3 DEF Actives, Held
<1> QED BY <1>2, <1>3, <1>4, <1>5 DEF Actives

\* Steps of a reader that puts down what it holds.
LEMMA ActivesRelease ==
  ASSUME Actives, Len(stored) \in Nat, Len(stored') = Len(stored),
         NEW i \in Instances, NEW at \in {"receive", "ended", "down"}, Release(i, at),
         late' \subseteq Commands,
         \A x \in late' \ late : x.op = "settle" => x.held.entry \in accepted,
         faults' \in 0 .. MaxFaults, unacked' \in [Instances -> Nat],
         UNCHANGED <<which, topic, sub, accepted, expected>>
  PROVE  Actives'
<1>1. pc' = [pc EXCEPT ![i] = at] /\ hand' = [hand EXCEPT ![i] = Nothing]
  BY DEF Release, Goto
<1>2. pc' \in [Actors -> Points] /\ hand' \in [Instances -> Hands]
  BY <1>1, Zenon DEF Actives, Points, Reading, Nothing, Hands
<1>3. pc'[i] = at /\ hand'[i] = Nothing
  BY <1>1 DEF Actives, Actors
<1>4. \A j \in Instances \ {i} : pc'[j] = pc[j] /\ hand'[j] = hand[j]
  BY <1>1 DEF Actives, Actors
<1>5. Held'
  BY <1>3, <1>4, Zenon DEF Actives, Held
<1>6. \A j \in Instances : hand'[j] # Nothing <=> pc'[j] \in {"handle", "settle", "abandon"}
  BY <1>3, <1>4 DEF Actives
<1> QED BY <1>2, <1>5, <1>6, Zenon DEF Actives

\* Every step keeps the entities' and actors' part.
LEMMA ActivesStep ==
  ASSUME IInv, [Next]_vars
  PROVE  Actives'
<1>0. /\ Actives /\ Len(stored) \in Nat /\ Len(stored)' \in Nat /\ Len(stored') >= Len(stored)
  BY IInvIsActives, EveryStepIsAStatusStep, StatusTypes DEF IInv
<1>f. Fault => faults' \in 0 .. MaxFaults
  BY <1>0 DEF Fault, Actives
<1>b. topic \in BOOLEAN /\ sub \in BOOLEAN /\ late \subseteq Commands /\ which \in Kinds
      /\ faults \in 0 .. MaxFaults /\ expected \subseteq Messages
      /\ unacked \in [Instances -> Nat]
  BY <1>0 DEF Actives
<1> USE DEF Points, Ensuring, Reading
<1>1. CASE UNCHANGED vars
  BY <1>0, <1>1, Zenon DEF vars, Actives, Held
<1>2. ASSUME NEW a \in Actors, GetTopic(a) \/ PutTopic(a) PROVE Actives'
  <2>1. PICK at \in {"send", "getSub", "err", "failed", "putTopic"} : Goto(a, at)
    BY <1>2 DEF GetTopic, PutTopic, Ensured, Failed
  <2>2. /\ pc[a] \in {"getTopic", "putTopic"} /\ topic' \in BOOLEAN
        /\ UNCHANGED <<which, sub, hand, unacked, late, faults, accepted, expected>>
    BY <1>b, <1>2, Zenon DEF GetTopic, PutTopic, serverVars
  <2> QED BY <1>0, <1>b, <2>1, <2>2, ActivesGoto
<1>3. ASSUME NEW a \in Actors, EnsureLost(a) PROVE Actives'
  <2>1. PICK at \in {"err", "failed"} : Goto(a, at)
    BY <1>3 DEF EnsureLost, Failed
  <2>2. /\ pc[a] \in Ensuring /\ Fault
        /\ UNCHANGED <<which, topic, sub, hand, unacked, accepted, expected>>
    BY <1>3 DEF EnsureLost, serverVars
  <2>3. late' \subseteq late \cup {[op |-> "topic"], [op |-> "sub"]}
    BY <1>3 DEF EnsureLost
  <2>4. late' \subseteq Commands /\ \A x \in late' \ late : x.op # "settle"
    BY <1>b, <2>3 DEF Commands
  <2> QED BY <1>0, <1>b, <1>f, <2>1, <2>2, <2>4, ActivesGoto, SMTT(20)
<1>4. ASSUME NEW m \in Messages, Publish(m) PROVE Actives'
  <2>1. PICK at \in {"getTopic", "send"} : Goto(m, at)
    BY <1>4 DEF Publish
  <2>2. pc[m] = "idle" /\ m \in Actors /\ expected' \subseteq Messages
        /\ UNCHANGED <<which, topic, sub, hand, unacked, late, faults, accepted>>
    BY <1>4, <1>b DEF Publish, serverVars, Actors
  <2> QED BY <1>0, <1>b, <2>1, <2>2, ActivesGoto, SMTT(20)
<1>5. ASSUME NEW m \in Messages, Send(m) PROVE Actives'
  <2>1. PICK at \in {"ok", "err"} : Goto(m, at)
    BY <1>5 DEF Send
  <2>2. pc[m] = "send" /\ m \in Actors
        /\ UNCHANGED <<which, topic, sub, hand, unacked, late, faults, accepted, expected>>
    BY <1>5 DEF Send, Actors
  <2> QED BY <1>0, <1>b, <2>1, <2>2, ActivesGoto
<1>6. ASSUME NEW m \in Messages, SendLost(m) PROVE Actives'
  <2>1. PICK at \in {"send", "err"} : Goto(m, at)
    BY <1>6 DEF SendLost
  <2>2. pc[m] = "send" /\ m \in Actors /\ Fault
        /\ UNCHANGED <<which, topic, sub, hand, unacked, accepted, expected>>
    BY <1>6 DEF SendLost, serverVars, Actors
  <2>3. late' = late \cup {[op |-> "send", msg |-> m]}
    BY <1>6 DEF SendLost
  <2>4. late' \subseteq Commands /\ \A x \in late' \ late : x.op # "settle"
    BY <1>b, <2>3 DEF Commands
  <2> QED BY <1>0, <1>b, <1>f, <2>1, <2>2, <2>4, ActivesGoto, SMTT(20)
<1>7. ASSUME NEW i \in Instances,
             Subscribe(i) \/ GetSub(i) \/ PutSub(i) \/ ReceiveFromNothing(i) \/ ReceiveFails(i)
      PROVE  Actives'
  <2>1. PICK at \in {"getTopic", "receive", "putSub", "failed", "ended"} : Goto(i, at)
    BY <1>7, Zenon DEF Subscribe, GetSub, PutSub, ReceiveFromNothing, ReceiveFails
  <2>2. /\ pc[i] \in {"down", "getSub", "putSub", "receive"} /\ i \in Actors
        /\ sub' \in BOOLEAN /\ faults' \in 0 .. MaxFaults
        /\ UNCHANGED <<which, topic, hand, unacked, late, accepted, expected>>
    BY <1>b, <1>f, <1>7, Zenon DEF Subscribe, GetSub, PutSub, ReceiveFromNothing, ReceiveFails,
                            serverVars, Actors
  <2> QED BY <1>0, <1>b, <2>1, <2>2, ActivesGoto, SMTT(20)
<1>8. ASSUME NEW i \in Instances, Settle(i) \/ Abandon(i) PROVE Actives'
  <2>1. PICK at \in {"receive", "ended"} : Release(i, at)
    BY <1>8 DEF Settle, Abandon, AfterFailure
  <2>2. UNCHANGED <<which, topic, sub, stored, unacked, late, faults, accepted, expected>>
    BY <1>8 DEF Settle, Abandon
  <2> QED BY <1>0, <1>b, <2>1, <2>2, ActivesRelease
<1>9. ASSUME NEW i \in Instances, SettlementLost(i) PROVE Actives'
  <2>1. PICK at \in {"receive", "ended"} : Release(i, at)
    BY <1>9 DEF SettlementLost, AfterFailure
  <2>2. /\ pc[i] \in {"settle", "abandon"} /\ Fault
        /\ late' = late \cup {[op |-> pc[i], held |-> hand[i]]}
        /\ UNCHANGED <<which, topic, sub, stored, unacked, accepted, expected>>
    BY <1>9 DEF SettlementLost, serverVars
  <2>3. late' \subseteq Commands
    BY <1>0, <1>b, <2>2 DEF Actives, Commands
  <2>4. \A x \in late' \ late : x.op = "settle" => x.held.entry \in accepted
    BY <1>0, <2>2 DEF Actives, Held
  <2> QED BY <1>0, <1>b, <1>f, <2>1, <2>2, <2>3, <2>4, ActivesRelease, Zenon
<1>10. ASSUME NEW i \in Instances, Crash(i) PROVE Actives'
  <2>1. Release(i, "down") /\ Fault /\ UNCHANGED <<which, topic, sub, stored, late, accepted, expected>>
    BY <1>10 DEF Crash, serverVars
  <2>2. unacked' \in [Instances -> Nat]
    BY <1>b, <1>10 DEF Crash
  <2> QED BY <1>0, <1>b, <1>f, <2>1, <2>2, ActivesRelease
<1>11. ASSUME NEW i \in Instances, HandlerFails(i) PROVE Actives'
  <2>0. unacked' \in [Instances -> Nat]
    BY <1>b, <1>11 DEF HandlerFails
  <2>1. CASE Profile.abandons
    <3>1. /\ pc' = [pc EXCEPT ![i] = "abandon"] /\ pc[i] = "handle" /\ Fault
          /\ UNCHANGED <<which, topic, sub, stored, hand, late, accepted, expected>>
      BY <1>11, <2>1 DEF HandlerFails, Goto, serverVars
    <3> QED BY <1>0, <1>f, <2>0, <3>1, Zenon DEF Actives, Held, Actors
  <2>2. CASE ~Profile.abandons
    <3>1. /\ Release(i, "receive") /\ Fault
          /\ UNCHANGED <<which, topic, sub, stored, late, accepted, expected>>
      BY <1>11, <2>2 DEF HandlerFails, serverVars
    <3> QED BY <1>0, <1>b, <1>f, <2>0, <3>1, ActivesRelease
  <2> QED BY <2>1, <2>2, SMTT(20)
<1>12. ASSUME NEW i \in Instances, HandlerAccepts(i) PROVE Actives'
  <2>1. /\ pc' = [pc EXCEPT ![i] = "settle"] /\ pc[i] = "handle"
        /\ accepted' = accepted \cup {hand[i].entry}
        /\ UNCHANGED <<which, topic, sub, stored, hand, unacked, late, faults, expected>>
    BY <1>12 DEF HandlerAccepts, Goto, serverVars
  <2>2. hand[i].entry \in 1 .. Len(stored)
    BY <1>0, <2>1, Zenon DEF Actives, Held
  <2>3. Held'
    BY <1>0, <2>1, <2>2, Zenon DEF Actives, Held, Actors
  <2> QED BY <1>0, <2>1, <2>2, <2>3, Zenon DEF Actives, Actors
<1>13. ASSUME NEW i \in Instances, NEW e \in DOMAIN status, Receive(i, e) PROVE Actives'
  <2>1. /\ pc' = [pc EXCEPT ![i] = "handle"] /\ pc[i] = "receive"
        /\ hand' = [hand EXCEPT ![i] = [entry |-> e, lock |-> count[e] + 1]]
        /\ UNCHANGED <<which, topic, sub, stored, unacked, late, faults, accepted, expected>>
    BY <1>13 DEF Receive, Goto
  <2>2. e \in 1 .. Len(stored) /\ count[e] + 1 \in Nat
    BY DEF IInv, TypeOK
  <2>3. [entry |-> e, lock |-> count[e] + 1] \in Hands
        /\ [entry |-> e, lock |-> count[e] + 1] # Nothing
        /\ [entry |-> e, lock |-> count[e] + 1].entry = e
    BY <2>2 DEF Hands, Nothing
  <2>4. pc' \in [Actors -> Points] /\ hand' \in [Instances -> Hands]
    BY <1>0, <2>1, <2>3, Zenon DEF Actives
  <2>5. pc'[i] = "handle" /\ hand'[i] # Nothing /\ hand'[i].entry = e
    BY <1>0, <2>1, <2>3, Zenon DEF Actives, Actors
  <2>6. \A j \in Instances \ {i} : pc'[j] = pc[j] /\ hand'[j] = hand[j]
    BY <1>0, <2>1, Zenon DEF Actives, Actors
  <2>7. Held'
    BY <1>0, <2>1, <2>2, <2>5, <2>6 DEF Actives, Held
  <2>8. \A j \in Instances : hand'[j] # Nothing <=> pc'[j] \in {"handle", "settle", "abandon"}
    BY <1>0, <2>5, <2>6 DEF Actives
  <2> QED BY <1>0, <2>1, <2>4, <2>7, <2>8, Zenon DEF Actives
<1>14. ASSUME NEW e \in DOMAIN status, LockExpires(e) PROVE Actives'
  <2>1. /\ faults' \in 0 .. MaxFaults
        /\ UNCHANGED <<which, topic, sub, stored, pc, hand, unacked, late, accepted, expected>>
    BY <1>b, <1>f, <1>14 DEF LockExpires
  <2> QED BY <1>0, <2>1, Zenon DEF Actives, Held
<1>15. ASSUME NEW x \in late, LateExecuted(x) PROVE Actives'
  <2>1. /\ late' \subseteq late /\ topic' \in BOOLEAN /\ sub' \in BOOLEAN
        /\ UNCHANGED <<which, pc, hand, unacked, faults, accepted, expected>>
    BY <1>b, <1>15, Zenon DEF LateExecuted
  <2> QED BY <1>0, <2>1 DEF Actives, Held
<1> QED
  BY <1>1, <1>2, <1>3, <1>4, <1>5, <1>6, <1>7, <1>8, <1>9, <1>10, <1>11, <1>12, <1>13,
     <1>14, <1>15, Zenon
  DEF Next, PublisherStep, ReaderStep, Actors

\* The invariant holds in every reachable state.
LEMMA IInvHolds == Spec => []IInv
<1>1. Init => IInv
  <2> SUFFICES ASSUME Init PROVE IInv
    OBVIOUS
  <2>1. stored = <<>> /\ status = <<>> /\ count = <<>>
    BY DEF Init
  <2>2. /\ stored \in Seq(Messages) /\ status \in Seq(Statuses) /\ count \in Seq(Nat)
        /\ Len(stored) = 0 /\ Len(status) = 0 /\ Len(count) = 0
    BY <2>1
  <2>3. Nothing \in Hands
    BY DEF Nothing, Hands
  <2>4. \A i \in Instances : i \in Actors /\ pc[i] = "down" /\ hand[i] = Nothing
    BY DEF Init, Actors
  <2>5. Held
    BY <2>4 DEF Init, Held
  <2>6. pc \in [Actors -> Points] /\ hand \in [Instances -> Hands]
        /\ unacked \in [Instances -> Nat]
    BY <2>3 DEF Init, Points
  <2>7. topic \in BOOLEAN /\ sub \in BOOLEAN
    BY Zenon DEF Init
  <2>8. Actives
    BY <2>4, <2>5, <2>6, <2>7 DEF Init, Actives
  <2> QED BY <2>2, <2>8, IInvIsActives
<1>2. IInv /\ [Next]_vars => IInv'
  <2> SUFFICES ASSUME IInv, [Next]_vars PROVE IInv'
    OBVIOUS
  <2>1. /\ Actives'
        /\ stored' \in Seq(Messages) /\ status' \in Seq(Statuses) /\ count' \in Seq(Nat)
        /\ Len(status') = Len(stored') /\ Len(count') = Len(stored')
    BY ActivesStep, EveryStepIsAStatusStep, StatusTypes DEF IInv
  <2>2. DOMAIN stored' = 1 .. Len(stored')
    BY <2>1
  <2> QED BY <2>1, <2>2, Zenon DEF IInv, TypeOK, Actives, Points, Statuses
<1> QED BY <1>1, <1>2, PTL DEF Spec

\* State and history keep their types, and a reader that handles or settles a
\* message holds one.
THEOREM LockedTypes == Spec => []TypeOK
BY IInvHolds, PTL DEF IInv

-----------------------------------------------------------------------------
\* What actors may rely on: a subscription belongs to a topic; a reader looks
\* for a subscription when there is a topic, and a managed one reads when there
\* is a subscription; a Publish that expects one has it, and has stored its
\* message when it is done.
Entities ==
  /\ sub => topic
  /\ expected # {} => sub
  /\ \A i \in Instances :
       /\ pc[i] \in {"getSub", "putSub"} => topic
       /\ Profile.manages /\ pc[i] \in Reading => sub
  /\ PublishIsReal

\* Topic and subscription, once they exist, stay.
LEMMA EntitiesStay ==
  ASSUME IInv, Entities, [Next]_vars
  PROVE  which' = which /\ (topic => topic') /\ (sub => sub') /\ (sub' => topic')
<1>1. ASSUME NEW a \in Actors, GetTopic(a) \/ PutTopic(a) \/ EnsureLost(a)
      PROVE  which' = which /\ sub' = sub /\ (topic' = topic \/ topic' = TRUE)
  BY <1>1, Zenon DEF GetTopic, PutTopic, EnsureLost, serverVars
<1>2. ASSUME NEW m \in Messages, Publish(m) \/ Send(m) \/ SendLost(m)
      PROVE  UNCHANGED <<which, topic, sub>>
  BY <1>2, Zenon DEF Publish, Send, SendLost, serverVars
<1>3. ASSUME NEW i \in Instances, Subscribe(i) \/ GetSub(i) \/ ReceiveFromNothing(i)
             \/ ReceiveFails(i) \/ HandlerAccepts(i) \/ HandlerFails(i)
      PROVE  UNCHANGED <<which, topic, sub>>
  BY <1>3, Zenon DEF Subscribe, GetSub, ReceiveFromNothing, ReceiveFails, HandlerAccepts,
              HandlerFails, serverVars
<1>4. ASSUME NEW i \in Instances, Settle(i) \/ Abandon(i) \/ SettlementLost(i) \/ Crash(i)
      PROVE  UNCHANGED <<which, topic, sub>>
  BY <1>4, Zenon DEF Settle, Abandon, SettlementLost, Crash, serverVars
<1>5. ASSUME NEW i \in Instances, NEW e \in DOMAIN status, Receive(i, e)
      PROVE  UNCHANGED <<which, topic, sub>>
  BY <1>5 DEF Receive
<1>6. ASSUME NEW e \in DOMAIN status, LockExpires(e) PROVE UNCHANGED <<which, topic, sub>>
  BY <1>6 DEF LockExpires
<1>7. ASSUME NEW x \in late, LateExecuted(x)
      PROVE  which' = which /\ (topic => topic') /\ (sub => sub') /\ (sub' => topic')
  BY <1>7 DEF LateExecuted, Entities
<1>8. ASSUME NEW i \in Instances, PutSub(i)
      PROVE  which' = which /\ topic /\ topic' = topic /\ sub' = TRUE
  BY <1>8 DEF PutSub, Entities
<1>9. CASE UNCHANGED vars
  BY <1>9 DEF vars, Entities
<1> QED
  BY <1>1, <1>2, <1>3, <1>4, <1>5, <1>6, <1>7, <1>8, <1>9, Zenon
  DEF Entities, Next, PublisherStep, ReaderStep, Actors

\* A reader's step that does not start reading, or starts with a subscription,
\* and in which no Publish ends.
LEMMA EntitiesReader ==
  ASSUME IInv, IInv', Entities, [Next]_vars,
         NEW a \in Instances, NEW at, Goto(a, at), UNCHANGED <<stored, expected>>,
         at \in {"getSub", "putSub"} => topic',
         Profile.manages /\ at \in Reading => sub'
  PROVE  Entities'
<1>1. pc' = [pc EXCEPT ![a] = at] /\ pc \in [Actors -> Points] /\ a \in Actors
  BY Zenon DEF Goto, IInv, TypeOK, Points, Actors
<1>2. which' = which /\ (topic => topic') /\ (sub => sub') /\ (sub' => topic')
  BY EntitiesStay
<1>3. pc'[a] = at /\ \A b \in Actors \ {a} : pc'[b] = pc[b]
  BY <1>1
<1>4. Messages \subseteq Actors \ {a} /\ Instances \subseteq Actors
  BY DEF Actors
<1>5. Profile' = Profile
  BY <1>2 DEF Profile
<1>6. PublishIsReal'
  BY <1>3, <1>4, SMTT(20) DEF Entities, PublishIsReal, IInv, TypeOK
<1> QED BY <1>2, <1>3, <1>4, <1>5, <1>6 DEF Entities

\* A Publish that goes to a step, and stores its message if that ends it well.
LEMMA EntitiesPublisher ==
  ASSUME IInv, IInv', Entities, [Next]_vars,
         NEW m \in Messages, NEW at, Goto(m, at),
         expected' \subseteq expected \cup {m}, expected' # {} => sub',
         \A e \in DOMAIN stored : e \in DOMAIN stored' /\ stored'[e] = stored[e],
         at = "ok" /\ m \in expected' => \E e \in DOMAIN stored' : stored'[e] = m
  PROVE  Entities'
<1>1. pc' = [pc EXCEPT ![m] = at] /\ pc \in [Actors -> Points] /\ m \in Actors
  BY Zenon DEF Goto, IInv, TypeOK, Points, Actors
<1>2. which' = which /\ (topic => topic') /\ (sub => sub') /\ (sub' => topic')
  BY EntitiesStay
<1>3. pc'[m] = at /\ \A b \in Actors \ {m} : pc'[b] = pc[b]
  BY <1>1
<1>4. Instances \subseteq Actors \ {m} /\ Messages \subseteq Actors
  BY DEF Actors
<1>5. Profile' = Profile
  BY <1>2 DEF Profile
<1>6. PublishIsReal'
  BY <1>3, <1>4, SMTT(20) DEF Entities, PublishIsReal, IInv, TypeOK
<1> QED BY <1>2, <1>3, <1>4, <1>5, <1>6, Zenon DEF Entities

\* What is known of topics and subscriptions holds in every reachable state.
LEMMA EntitiesHold == Spec => []Entities
<1>1. Init => Entities
  <2> SUFFICES ASSUME Init PROVE Entities
    OBVIOUS
  <2>1. sub => topic
    BY Zenon DEF Init
  <2>2. \A i \in Instances : pc[i] = "down"
    BY DEF Init, Actors
  <2>3. expected = {} /\ PublishIsReal
    BY DEF Init, PublishIsReal
  <2> QED BY <2>1, <2>2, <2>3 DEF Entities, Reading
<1>2. IInv /\ IInv' /\ Entities /\ [Next]_vars => Entities'
  <2> SUFFICES ASSUME IInv, IInv', Entities, [Next]_vars PROVE Entities'
    OBVIOUS
  <2>0. which' = which /\ (topic => topic') /\ (sub => sub') /\ (sub' => topic')
    BY EntitiesStay
  <2>g. \A e \in DOMAIN stored : e \in DOMAIN stored' /\ stored'[e] = stored[e]
    <3>1. TypeOK /\ StatusStep
      BY EveryStepIsAStatusStep, Zenon DEF IInv
    <3>2. /\ stored' \in Seq(Messages) /\ Len(stored') >= Len(stored)
          /\ \A e \in 1 .. Len(stored) : stored'[e] = stored[e]
      BY <3>1, StatusTypes, Zenon
    <3>3. stored \in Seq(Messages)
      BY <3>1, Zenon DEF TypeOK
    <3> QED BY <3>2, <3>3
  <2>1. CASE UNCHANGED <<pc, expected>>
    <3>1. Profile' = Profile
      BY <2>0 DEF Profile
    <3>2. PublishIsReal'
      BY <2>1, <2>g DEF Entities, PublishIsReal
    <3> QED BY <2>0, <2>1, <3>1, <3>2 DEF Entities
  <2>2. ASSUME NEW i \in Instances, GetTopic(i) \/ PutTopic(i) PROVE Entities'
    <3>1. PICK at \in {"getSub", "putTopic", "failed"} :
            Goto(i, at) /\ (at = "getSub" => topic')
      BY <2>2 DEF GetTopic, PutTopic, Ensured, Failed, serverVars
    <3>2. UNCHANGED <<stored, expected>>
      BY <2>2 DEF GetTopic, PutTopic, serverVars
    <3> QED BY <3>1, <3>2, EntitiesReader DEF Reading
  <2>3. ASSUME NEW m \in Messages, GetTopic(m) \/ PutTopic(m) \/ SendLost(m) \/ EnsureLost(m)
        PROVE  Entities'
    <3>1. PICK at \in {"send", "putTopic", "err"} : Goto(m, at)
      BY <2>3, Zenon DEF GetTopic, PutTopic, SendLost, EnsureLost, Ensured, Failed
    <3>2. expected' = expected
      BY <2>3, Zenon DEF GetTopic, PutTopic, SendLost, EnsureLost, serverVars
    <3> QED BY <2>0, <2>g, <3>1, <3>2, EntitiesPublisher, Zenon DEF Entities
  <2>4. ASSUME NEW i \in Instances, EnsureLost(i) PROVE Entities'
    BY <2>4, EntitiesReader DEF EnsureLost, Failed, Reading, serverVars
  <2>5. ASSUME NEW m \in Messages, Publish(m) PROVE Entities'
    <3>1. PICK at \in {"getTopic", "send"} : Goto(m, at)
      BY <2>5 DEF Publish
    <3>2. expected' \subseteq expected \cup {m} /\ (expected' # {} => sub)
      BY <2>5 DEF Publish, Entities
    <3> QED BY <2>0, <2>g, <3>1, <3>2, EntitiesPublisher
  <2>6. ASSUME NEW m \in Messages, Send(m) PROVE Entities'
    <3>1. PICK at \in {"ok", "err"} : Goto(m, at) /\ (at = "ok" => Store(m))
      BY <2>6 DEF Send
    <3>2. expected' = expected
      BY <2>6 DEF Send
    <3>3. at = "ok" /\ m \in expected' => \E e \in DOMAIN stored' : stored'[e] = m
      <4> SUFFICES ASSUME at = "ok", m \in expected' PROVE \E e \in DOMAIN stored' : stored'[e] = m
        OBVIOUS
      <4>1. stored' = Append(stored, m)
        BY <3>1, <3>2 DEF Store, Entities
      <4>2. stored'[Len(stored) + 1] = m /\ Len(stored) + 1 \in DOMAIN stored'
        BY <4>1 DEF IInv, TypeOK
      <4> QED BY <4>2
    <3> QED BY <2>0, <2>g, <3>1, <3>2, <3>3, EntitiesPublisher, Zenon DEF Entities
  <2>7. ASSUME NEW i \in Instances, Subscribe(i) PROVE Entities'
    BY <2>7, EntitiesReader DEF Subscribe, Reading, serverVars
  <2>8. ASSUME NEW i \in Instances, GetSub(i) PROVE Entities'
    BY <2>8, EntitiesReader, Zenon DEF GetSub, Entities, Reading, serverVars
  <2>9. ASSUME NEW i \in Instances, PutSub(i) PROVE Entities'
    BY <2>9, EntitiesReader DEF PutSub, Reading
  <2>10. ASSUME NEW i \in Instances, ReceiveFromNothing(i) \/ ReceiveFails(i)
         PROVE  Entities'
    BY <2>10, EntitiesReader DEF ReceiveFromNothing, ReceiveFails, Reading, serverVars
  <2>11. ASSUME NEW i \in Instances, pc[i] \in Reading, UNCHANGED <<stored, expected>>,
                NEW at \in {"receive", "ended", "handle", "settle", "abandon", "down"},
                Goto(i, at)
         PROVE  Entities'
    <3>1. Profile.manages => sub'
      BY <2>0, <2>11 DEF Entities
    <3> QED BY <2>11, <3>1, EntitiesReader
  <2>12. ASSUME NEW i \in Instances, NEW e \in DOMAIN status, Receive(i, e) PROVE Entities'
    BY <2>11, <2>12 DEF Receive, Reading
  <2>13. ASSUME NEW i \in Instances, HandlerAccepts(i) \/ HandlerFails(i) PROVE Entities'
    <3>1. pc[i] \in Reading /\ UNCHANGED <<stored, expected>>
      BY <2>13 DEF HandlerAccepts, HandlerFails, Reading, serverVars
    <3>2. PICK at \in {"settle", "abandon", "receive"} : Goto(i, at)
      BY <2>13 DEF HandlerAccepts, HandlerFails, Release
    <3> QED BY <2>11, <3>1, <3>2
  <2>14. ASSUME NEW i \in Instances, Settle(i) \/ Abandon(i) \/ SettlementLost(i)
         PROVE  Entities'
    <3>1. pc[i] \in Reading /\ UNCHANGED <<stored, expected>>
      BY <2>14, Zenon DEF Settle, Abandon, SettlementLost, Reading, serverVars
    <3>2. PICK at \in {"receive", "ended"} : Goto(i, at)
      BY <2>14, Zenon DEF Settle, Abandon, SettlementLost, Release, AfterFailure
    <3> QED BY <2>11, <3>1, <3>2
  <2>15. ASSUME NEW i \in Instances, Crash(i) PROVE Entities'
    BY <2>15, EntitiesReader DEF Crash, Release, Reading, serverVars
  <2>16. ASSUME NEW e \in DOMAIN status, LockExpires(e) PROVE Entities'
    BY <2>1, <2>16 DEF LockExpires
  <2>17. ASSUME NEW x \in late, LateExecuted(x) PROVE Entities'
    BY <2>1, <2>17 DEF LateExecuted
  <2>18. CASE UNCHANGED vars
    BY <2>1, <2>18 DEF vars
  <2> QED
    BY <2>2, <2>3, <2>4, <2>5, <2>6, <2>7, <2>8, <2>9, <2>10, <2>12, <2>13, <2>14, <2>15,
       <2>16, <2>17, <2>18, Zenon
    DEF Next, PublisherStep, ReaderStep, Actors
<1> QED BY <1>1, <1>2, IInvHolds, PTL DEF Spec

\* A Publish or Write that returns nil has stored its message for the
\* subscription there was when it began, whatever was lost and sent again.
THEOREM LockedPublishIsReal == Spec => []PublishIsReal
<1>1. Entities => PublishIsReal
  BY DEF Entities
<1> QED BY <1>1, EntitiesHold, PTL

\* A reader that Subscribe has started reads from a subscription that exists,
\* however the actors that look for topic and subscription and create them
\* interleave.
THEOREM LockedSubscribedIsReal == Spec => []SubscribedIsReal
<1>1. Entities => SubscribedIsReal
  BY DEF Entities, SubscribedIsReal
<1> QED BY <1>1, EntitiesHold, PTL

-----------------------------------------------------------------------------
\* A message is settled only after a handler has accepted it: every step of a
\* component whose broker locks messages is a step of AtLeastOnce or changes no
\* message.
THEOREM LockedImplementsAtLeastOnce == Spec => ImplementsAtLeastOnce
<1>1. Init => ALO!Init
  BY DEF Init, ALO!Init
<1>2. IInv /\ [Next]_vars => [ALO!Next]_(ALO!vars)
  <2> SUFFICES ASSUME IInv, [Next]_vars PROVE ALO!Next \/ UNCHANGED <<status, accepted>>
    BY DEF ALO!vars
  <2>0. DOMAIN status = 1 .. Len(stored) /\ status \in [DOMAIN status -> Statuses]
    BY DEF IInv, TypeOK, Statuses
  <2>1. ASSUME NEW m, Store(m), accepted' = accepted
        PROVE  ALO!Next \/ UNCHANGED <<status, accepted>>
    BY <2>1 DEF Store, ALO!Next, ALO!Store
  <2>2. ASSUME NEW e \in DOMAIN status, NEW to \in Statuses, Is(e, to)
        PROVE  ALO!Move({e}, status[e], to)
    BY <2>0, <2>2, Zenon DEF Is, ALO!Move
  <2>3. ASSUME NEW e \in DOMAIN status, status[e] = "delivered", Requeue(e),
               accepted' = accepted
        PROVE  ALO!Next
    <3>1. PICK to \in {"buried", "queued"} : Is(e, to)
      BY <2>3 DEF Requeue
    <3>2. ALO!Move({e}, "delivered", to)
      BY <2>2, <2>3, <3>1 DEF Statuses
    <3>3. ALO!Requeue({e}) \/ ALO!Bury({e})
      BY <2>3, <3>2 DEF ALO!Requeue, ALO!Bury
    <3> QED BY <3>3 DEF ALO!Next
  <2>4. ASSUME NEW e \in accepted, e \in DOMAIN status, Is(e, "settled"), status[e] # "buried",
               accepted' = accepted
        PROVE  ALO!Next \/ UNCHANGED <<status, accepted>>
    <3>1. CASE status[e] = "settled"
      BY <2>0, <2>4, <3>1 DEF Is
    <3>2. CASE status[e] \in {"delivered", "queued"}
      <4>1. ALO!Settle({e})
        BY <2>2, <2>4, <3>2 DEF ALO!Settle, Statuses
      <4> QED BY <2>4, <4>1 DEF ALO!Next
    <3> QED BY <2>0, <2>4, <3>1, <3>2 DEF Statuses
  <2>5. ASSUME NEW i \in Instances, NEW e \in DOMAIN status, Receive(i, e) PROVE ALO!Next
    <3>1. ALO!Deliver({e})
      BY <2>2, <2>5 DEF Receive, ALO!Deliver, Statuses
    <3> QED BY <3>1 DEF ALO!Next
  <2>6. ASSUME NEW i \in Instances, HandlerAccepts(i) PROVE ALO!Next
    <3>1. hand[i].entry \in DOMAIN status
      BY <2>0, <2>6 DEF HandlerAccepts, IInv, Held
    <3>2. ALO!Accept(hand[i].entry)
      BY <2>6 DEF HandlerAccepts, serverVars, ALO!Accept
    <3> QED BY <3>1, <3>2 DEF ALO!Next
  <2>7. ASSUME NEW i \in Instances, Settle(i)
        PROVE  ALO!Next \/ UNCHANGED <<status, accepted>>
    <3>1. hand[i].entry \in accepted /\ hand[i].entry \in DOMAIN status /\ accepted' = accepted
      BY <2>0, <2>7, Zenon DEF Settle, IInv, Held
    <3>2. CASE status' = status
      BY <3>1, <3>2
    <3>3. CASE CanSettle(hand[i]) /\ Is(hand[i].entry, "settled")
      <4>1. status[hand[i].entry] # "buried"
        BY <3>3 DEF CanSettle, HasLock
      <4> QED BY <2>4, <3>1, <3>3, <4>1
    <3> QED BY <2>7, <3>2, <3>3 DEF Settle
  <2>8. ASSUME NEW i \in Instances, Abandon(i)
        PROVE  ALO!Next \/ UNCHANGED <<status, accepted>>
    <3>1. hand[i].entry \in DOMAIN status /\ accepted' = accepted
      BY <2>0, <2>8 DEF Abandon, IInv, Held
    <3> QED BY <2>3, <2>8, <3>1 DEF Abandon, HasLock
  <2>9. ASSUME NEW e \in DOMAIN status, LockExpires(e) PROVE ALO!Next
    BY <2>3, <2>9 DEF LockExpires
  <2>10. ASSUME NEW x \in late, LateExecuted(x)
         PROVE  ALO!Next \/ UNCHANGED <<status, accepted>>
    <3>1. accepted' = accepted
      BY <2>10 DEF LateExecuted
    <3>2. CASE x.op = "settle" /\ CanSettle(x.held) /\ Is(x.held.entry, "settled")
      <4>1. x.held.entry \in accepted /\ x.held.entry \in DOMAIN status
        BY <3>2 DEF IInv, TypeOK, Held
      <4>2. status[x.held.entry] # "buried"
        BY <3>2 DEF CanSettle, HasLock
      <4> QED BY <2>4, <3>1, <3>2, <4>1, <4>2
    <3>3. CASE HasLock(x.held) /\ Requeue(x.held.entry)
      <4>1. CASE x.held.entry \in DOMAIN status
        BY <2>3, <3>1, <3>3, <4>1 DEF HasLock
      <4>2. CASE x.held.entry \notin DOMAIN status
        BY <2>0, <3>1, <3>3, <4>2, Zenon DEF Requeue, Is
      <4> QED BY <4>1, <4>2
    <3> QED BY <2>1, <2>10, <3>1, <3>2, <3>3, Zenon DEF LateExecuted
  <2>11. ASSUME NEW m \in Messages, Send(m)
         PROVE  ALO!Next \/ UNCHANGED <<status, accepted>>
    BY <2>1, <2>11 DEF Send
  <2>12. ASSUME NEW a \in Actors, GetTopic(a) \/ PutTopic(a) \/ EnsureLost(a)
         PROVE  UNCHANGED <<status, accepted>>
    BY <2>12, Zenon DEF GetTopic, PutTopic, EnsureLost, serverVars
  <2>13. ASSUME NEW m \in Messages, Publish(m) \/ SendLost(m)
         PROVE  UNCHANGED <<status, accepted>>
    BY <2>13 DEF Publish, SendLost, serverVars
  <2>14. ASSUME NEW i \in Instances,
                \/ Subscribe(i) \/ GetSub(i) \/ PutSub(i) \/ ReceiveFromNothing(i)
                \/ ReceiveFails(i) \/ HandlerFails(i) \/ SettlementLost(i) \/ Crash(i)
         PROVE  UNCHANGED <<status, accepted>>
    BY <2>14, Zenon DEF Subscribe, GetSub, PutSub, ReceiveFromNothing, ReceiveFails, HandlerFails,
                 SettlementLost, Crash, serverVars
  <2>15. CASE UNCHANGED vars
    BY <2>15 DEF vars
  <2> QED
    BY <2>5, <2>6, <2>7, <2>8, <2>9, <2>10, <2>11, <2>12, <2>13, <2>14, <2>15, Zenon
    DEF Next, PublisherStep, ReaderStep, Actors
<1> QED BY <1>1, <1>2, IInvHolds, PTL DEF Spec, ImplementsAtLeastOnce, ALO!Spec
=============================================================================
