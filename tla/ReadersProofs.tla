--------------------------- MODULE ReadersProofs ----------------------------
(***************************************************************************)
(* The components whose reader is called by goroutines of a client         *)
(* library, for any number of instances, messages and faults: those to     *)
(* which a broker pushes messages, then Kubernetes events and the mDNS     *)
(* lookup, each with an invariant that says what is on its way through the *)
(* goroutines.                                                             *)
(***************************************************************************)
EXTENDS PushedReaders, KubernetesEvents, MDNS, TLAPS

-----------------------------------------------------------------------------
(***************************************************************************)
(* NATS, RabbitMQ and MQTT implement AtMostOnce, and the first Write of an *)
(* MQTT binding ends its client.  The inductive invariant says where a     *)
(* message can be: it moves from a client's buffer to the broker's queue,  *)
(* to a reader's inbox, to a handler, and is never in two of these places  *)
(* that lead to the same handler.                                          *)
(***************************************************************************)
USE ConstantsAssumption

\* The steps in which a channel or connection is closed for good.
Closes(i) ==
  \/ AckRefused(i) \/ ConnectionClosed(i) \/ GiveUp(i) \/ ReadRabbitMQRefused(i)
  \/ \E m \in Messages : WriteRabbitMQRefused(i, m)

\* State and history keep their types, whatever the component does.
THEOREM PushedTypes == Spec => []TypeOK
<1>0. {"none", "up", "lost", "gap", "undone", "closed"} \subseteq Connections
  BY Zenon DEF Connections
<1>1. Init => TypeOK
  BY <1>0 DEF Init, TypeOK
<1>2. TypeOK /\ [Next]_vars => TypeOK'
  <2> SUFFICES ASSUME TypeOK, [Next]_vars PROVE TypeOK'
    OBVIOUS
  <2>1. CASE UNCHANGED vars
    BY <2>1, Zenon DEF TypeOK, vars
  <2>2. ASSUME NEW i \in Instances, InitNATS(i) \/ InitRabbitMQ(i) \/ InitMQTT(i)
        PROVE  TypeOK'
    <3>1. /\ run' \in [Instances -> {"new", "ready", "reading", "returned", "failed", "panicked"}]
          /\ conn' \in [Instances -> Connections]
      <4>1. PICK tried : Connect(i, tried)
        BY <2>2 DEF InitNATS, InitRabbitMQ, InitMQTT
      <4>2. \/ /\ run' = [run EXCEPT ![i] = "ready"] /\ conn' = [conn EXCEPT ![i] = "up"]
            \/ run' = [run EXCEPT ![i] = "failed"] /\ conn' = conn
        BY <4>1, Zenon DEF Connect
      <4>3. /\ run \in [Instances -> {"new", "ready", "reading", "returned", "failed", "panicked"}]
            /\ conn \in [Instances -> Connections]
        BY DEF TypeOK
      <4> QED BY <1>0, <4>2, <4>3
    <3> QED BY <2>2, <3>1 DEF TypeOK, InitNATS, InitRabbitMQ, InitMQTT, InitUnchanged
  <2>3. ASSUME NEW i \in Instances, NEW m \in Messages,
               PublishNATS(i, m) \/ WriteRabbitMQ(i, m)
        PROVE  TypeOK'
    <3>1. Takes(i, m) \/ Fails(m)
      BY <2>3, Zenon DEF PublishNATS, WriteRabbitMQ
    <3>2. /\ outbuf' \in [Instances -> SUBSET Messages]
          /\ wr' \in [Messages -> {"idle", "sending", "ok", "err"}]
      <4>1. CASE Takes(i, m)
        BY <4>1 DEF TypeOK, Takes
      <4>2. CASE Fails(m)
        BY <4>2, Zenon DEF TypeOK, Fails
      <4> QED BY <3>1, <4>1, <4>2
    <3>3. UNCHANGED <<comp, queue, conn, sub, inbox, procVars, histVars>>
      BY <2>3, Zenon DEF PublishNATS, WriteRabbitMQ
    <3> QED BY <3>2, <3>3, Zenon DEF TypeOK, procVars, histVars
  <2>4. ASSUME NEW i \in Instances, NEW m \in Messages, WriteMQTT(i, m)
        PROVE  TypeOK'
    BY <2>4 DEF TypeOK, WriteMQTT
  <2>5. ASSUME NEW i \in Instances, SubscribeNATS(i) \/ ReadRabbitMQ(i) \/ ReadMQTT(i)
        PROVE  TypeOK'
    <3>1. /\ run' \in [Instances -> {"new", "ready", "reading", "returned", "failed", "panicked"}]
          /\ sub' \in [Instances -> {"no", "asked", "yes", "deaf"}]
      <4>1. PICK r \in {"reading", "panicked", "returned"} : run' = [run EXCEPT ![i] = r]
        BY <2>5, Zenon DEF SubscribeNATS, ReadRabbitMQ, ReadMQTT
      <4>2. \/ sub' = sub
            \/ \E t \in {"no", "asked", "yes", "deaf"} : sub' = [sub EXCEPT ![i] = t]
        <5>1. CASE SubscribeNATS(i) \/ ReadRabbitMQ(i)
          BY <5>1, Zenon DEF SubscribeNATS, ReadRabbitMQ
        <5>2. CASE ReadMQTT(i)
          <6>1. sub[i] \in {"no", "asked", "yes", "deaf"}
            BY Zenon DEF TypeOK
          <6>2. sub' = [sub EXCEPT ![i] = IF conn[i] = "closed" \/ sub[i] = "deaf"
                                          THEN sub[i] ELSE "asked"]
            BY <5>2, Zenon DEF ReadMQTT
          <6> QED BY <6>1, <6>2, Zenon
        <5> QED BY <2>5, <5>1, <5>2, Zenon
      <4>3. run' \in [Instances -> {"new", "ready", "reading", "returned", "failed", "panicked"}]
        BY <4>1 DEF TypeOK
      <4>4. sub' \in [Instances -> {"no", "asked", "yes", "deaf"}]
        BY <4>2, Zenon DEF TypeOK
      <4> QED BY <4>3, <4>4
    <3>2. UNCHANGED readUnchanged
      BY <2>5, Zenon DEF SubscribeNATS, ReadRabbitMQ, ReadMQTT
    <3> QED BY <3>1, <3>2, Zenon DEF TypeOK, readUnchanged, histVars
  <2>6. ASSUME NEW i \in Instances,
               Signal(i) \/ Subscribed(i) \/ Reconnecting(i) \/ Reconnect(i)
        PROVE  TypeOK'
    <3>1. CASE Signal(i)
      BY <3>1, Zenon DEF TypeOK, Signal, netVars, histVars
    <3>2. CASE Subscribed(i)
      BY <3>2, Zenon DEF TypeOK, Subscribed, procVars, histVars
    <3>3. CASE Reconnect(i)
      BY <1>0, <3>3, Zenon DEF TypeOK, Reconnect, procVars, histVars
    <3>4. CASE Reconnecting(i)
      <4>1. PICK at \in Connections : conn' = [conn EXCEPT ![i] = at]
        BY <1>0, <3>4, Zenon DEF Reconnecting
      <4>2. conn' \in [Instances -> Connections]
        BY <4>1, Zenon DEF TypeOK
      <4> QED BY <3>4, <4>2, Zenon DEF TypeOK, Reconnecting, procVars, histVars
    <3> QED BY <2>6, <3>1, <3>2, <3>3, <3>4
  <2>7. ASSUME NEW i \in Instances, HandlerReturned(i) PROVE TypeOK'
    <3>1. /\ doomed' \in [Instances -> BOOLEAN] /\ accepted' \in [Instances -> BOOLEAN]
      <4>1. /\ doomed' = doomed \/ doomed' = [doomed EXCEPT ![i] = TRUE]
            /\ accepted' = accepted \/ accepted' = [accepted EXCEPT ![i] = TRUE]
        BY <2>7, Zenon DEF HandlerReturned, Ack
      <4>2. doomed \in [Instances -> BOOLEAN] /\ accepted \in [Instances -> BOOLEAN]
        BY Zenon DEF TypeOK
      <4> QED BY <4>1, <4>2, Zenon
    <3>2. busy' \in [Instances -> Messages \cup {None}]
      BY <2>7, Zenon DEF TypeOK, HandlerReturned
    <3> QED BY <2>7, <3>1, <3>2, Zenon DEF TypeOK, HandlerReturned, netVars, histVars
  <2>8. ASSUME NEW i \in Instances, NEW m \in Messages, Disconnect(i, m) PROVE TypeOK'
    <3>1. /\ \E at \in Connections : conn' = [conn EXCEPT ![i] = at]
          /\ outbuf' = outbuf \/ outbuf' = [outbuf EXCEPT ![i] = {}]
      BY <1>0, <2>8, Zenon DEF Disconnect, HangUp
    <3>2. conn' \in [Instances -> Connections] /\ outbuf' \in [Instances -> SUBSET Messages]
      BY <3>1, SMTT(20) DEF TypeOK
    <3>3. PICK kept \in SUBSET inbox[i] : inbox' = [inbox EXCEPT ![i] = kept]
      BY <2>8, Zenon DEF Disconnect, HangUp
    <3>4. inbox' \in [Instances -> SUBSET Messages]
      BY <3>3, SMTT(20) DEF TypeOK
    <3>5. /\ sub' \in [Instances -> {"no", "asked", "yes", "deaf"}]
          /\ hang' \in [Instances -> SUBSET Messages]
          /\ wr' \in [Messages -> {"idle", "sending", "ok", "err"}]
      BY <2>8, SMTT(20) DEF TypeOK, Disconnect, HangUp
    <3> QED BY <2>8, <3>2, <3>4, <3>5, Zenon DEF TypeOK, Disconnect, histVars
  <2>9. ASSUME NEW i \in Instances, NEW m \in Messages, Handle(i, m) PROVE TypeOK'
    BY <2>9, SMTT(20) DEF TypeOK, Handle
  <2>10. ASSUME NEW i \in Instances, NEW m \in Messages, Flush(i, m) PROVE TypeOK'
    <3>1. inbox' \in [Instances -> SUBSET Messages] /\ queue' \subseteq Messages
      BY <2>10 DEF TypeOK, Flush
    <3> QED BY <2>10, <3>1, Zenon DEF TypeOK, Flush, procVars, histVars
  <2>11. ASSUME NEW i \in Instances, NEW m \in Messages, Deliver(i, m) PROVE TypeOK'
    BY <2>11 DEF TypeOK, Deliver, AutoAck, procVars, histVars
  <2>12. ASSUME NEW i \in Instances, Closes(i) PROVE TypeOK'
    <3>1. CloseChannel(i) /\ faults' \in Nat
      BY <2>12, SMTT(20)
      DEF TypeOK, Closes, AckRefused, ConnectionClosed, GiveUp, ReadRabbitMQRefused,
          WriteRabbitMQRefused, Fault
    <3>2. queue' \subseteq Messages
      BY <3>1, Zenon DEF TypeOK, CloseChannel, ReaderGone
    <3>3. /\ run' = run \/ run' = [run EXCEPT ![i] = "returned"]
          /\ wr' = wr \/ \E m \in Messages : wr' = [wr EXCEPT ![m] = "err"]
      BY <2>12, Zenon DEF Closes, AckRefused, ConnectionClosed, GiveUp,
                          ReadRabbitMQRefused, WriteRabbitMQRefused
    <3>4. /\ run' \in [Instances -> {"new", "ready", "reading", "returned", "failed", "panicked"}]
          /\ wr' \in [Messages -> {"idle", "sending", "ok", "err"}]
      <4>1. run' \in [Instances -> {"new", "ready", "reading", "returned", "failed", "panicked"}]
        BY <3>3, SMTT(20) DEF TypeOK
      <4>2. wr' \in [Messages -> {"idle", "sending", "ok", "err"}]
        BY <3>3, SMTT(20) DEF TypeOK
      <4> QED BY <4>1, <4>2
    <3>5. PICK kept \in SUBSET inbox[i] : inbox' = [inbox EXCEPT ![i] = kept]
      BY <3>1, Zenon DEF CloseChannel
    <3>6. inbox' \in [Instances -> SUBSET Messages]
      BY <3>5, SMTT(20) DEF TypeOK
    <3> QED BY <1>0, <3>1, <3>2, <3>4, <3>6, Zenon DEF TypeOK, CloseChannel
  <2>13. ASSUME NEW i \in Instances, ConnectionLost(i) PROVE TypeOK'
    BY <1>0, <2>13, SMTT(20) DEF TypeOK, ConnectionLost, AfterLoss, Fault, procVars
  <2>14. ASSUME NEW i \in Instances, Crash(i) PROVE TypeOK'
    BY <1>0, <2>14, SMTT(20) DEF TypeOK, Crash, ReaderGone, Fault
  <2> QED
    BY <2>1, <2>2, <2>3, <2>4, <2>5, <2>6, <2>7, <2>8, <2>9, <2>10, <2>11, <2>12, <2>13,
       <2>14, Zenon DEF Next, ProcessStep, NetworkStep, Closes
<1> QED BY <1>1, <1>2, PTL DEF Spec

-----------------------------------------------------------------------------
\* Where a message can be.  What is still with its writer is nowhere else and
\* was handed to nobody; what the broker keeps, or a reader has received, is
\* not handed yet to a handler that this copy can reach.
Once ==
  \A m \in Messages : \A i \in Instances :
    /\ wr[m] = "idle" => m \notin queue \cup outbuf[i] \cup inbox[i] /\ handed[i][m] = 0
    /\ m \in queue => m \notin inbox[i] /\ handed[i][m] = 0
    /\ m \in inbox[i] => handed[i][m] = 0
    /\ handed[i][m] \in {0, 1}
    /\ \A j \in Instances :
         /\ m \in outbuf[i] =>
              m \notin queue \cup inbox[j] /\ handed[j][m] = 0 /\ (j # i => m \notin outbuf[j])
         /\ P.shared /\ j # i /\ (m \in inbox[i] \/ handed[i][m] = 1) =>
              m \notin inbox[j] /\ handed[j][m] = 0

\* A step that neither writes nor hands on: messages stay where they are, or
\* are lost.
Loses ==
  /\ comp' = comp /\ handed' = handed
  /\ queue' \subseteq queue
  /\ \A i \in Instances : outbuf'[i] \subseteq outbuf[i] /\ inbox'[i] \subseteq inbox[i]
  /\ \A m \in Messages : wr'[m] = "idle" => wr[m] = "idle"

\* A step in which a client library takes the message of a Write.
Enters(i, m) ==
  /\ UNCHANGED <<comp, handed, queue, inbox>>
  /\ wr[m] = "idle" /\ wr'[m] # "idle"
  /\ \A n \in Messages \ {m} : wr'[n] = wr[n]
  /\ outbuf' = [outbuf EXCEPT ![i] = @ \cup {m}]

\* Every step loses messages or does nothing to them, or moves one.
LEMMA StepsMoveOneMessage ==
  ASSUME TypeOK, [Next]_vars
  PROVE  \/ Loses
         \/ \E i \in Instances : \E m \in Messages :
              Enters(i, m) \/ Flush(i, m) \/ Deliver(i, m) \/ Handle(i, m)
<1>1. CASE UNCHANGED vars
  BY <1>1, Zenon DEF vars, Loses
<1>2. ASSUME NEW i \in Instances, InitNATS(i) \/ InitRabbitMQ(i) \/ InitMQTT(i)
      PROVE  Loses
  BY <1>2, Zenon DEF Loses, InitNATS, InitRabbitMQ, InitMQTT, InitUnchanged
<1>3. ASSUME NEW i \in Instances, NEW m \in Messages,
             PublishNATS(i, m) \/ WriteRabbitMQ(i, m)
      PROVE  Loses \/ Enters(i, m)
  <2>1. CASE Takes(i, m)
    BY <1>3, <2>1, SMTT(20) DEF TypeOK, Enters, PublishNATS, WriteRabbitMQ, Takes, histVars
  <2>2. CASE Fails(m)
    BY <1>3, <2>2 DEF TypeOK, Loses, PublishNATS, WriteRabbitMQ, Fails, histVars
  <2> QED BY <1>3, <2>1, <2>2, Zenon DEF PublishNATS, WriteRabbitMQ
<1>4. ASSUME NEW i \in Instances, NEW m \in Messages, WriteMQTT(i, m)
      PROVE  Loses \/ Enters(i, m)
  <2>1. CASE conn[i] \in {"up", "lost"}
    BY <1>4, <2>1, SMTT(20) DEF TypeOK, Enters, WriteMQTT
  <2>2. CASE conn[i] \notin {"up", "lost"}
    BY <1>4, <2>2, SMTT(20) DEF TypeOK, Loses, WriteMQTT
  <2> QED BY <2>1, <2>2
<1>5. ASSUME NEW i \in Instances, SubscribeNATS(i) \/ ReadRabbitMQ(i) \/ ReadMQTT(i)
      PROVE  Loses
  BY <1>5, Zenon DEF Loses, SubscribeNATS, ReadRabbitMQ, ReadMQTT, readUnchanged, histVars
<1>6. ASSUME NEW i \in Instances,
             Signal(i) \/ Subscribed(i) \/ Reconnecting(i) \/ Reconnect(i)
      PROVE  Loses
  BY <1>6, Zenon DEF Loses, Signal, Subscribed, Reconnecting, Reconnect, netVars, histVars
<1>7. ASSUME NEW i \in Instances, HandlerReturned(i) PROVE Loses
  BY <1>7, Zenon DEF Loses, HandlerReturned, netVars, histVars
<1>8. ASSUME NEW i \in Instances, NEW m \in Messages, Disconnect(i, m) PROVE Loses
  BY <1>8, SMTT(20) DEF TypeOK, Loses, Disconnect, HangUp, histVars
<1>9. ASSUME NEW i \in Instances, Closes(i) PROVE Loses
  <2>1. CloseChannel(i)
    BY <1>9, Zenon DEF Closes, AckRefused, ConnectionClosed, GiveUp, ReadRabbitMQRefused,
                       WriteRabbitMQRefused
  <2>2. queue' \subseteq queue
    BY <2>1, Zenon DEF CloseChannel, ReaderGone
  <2>3. wr' = wr \/ \E m \in Messages : wr' = [wr EXCEPT ![m] = "err"]
    BY <1>9, Zenon DEF Closes, AckRefused, ConnectionClosed, GiveUp, ReadRabbitMQRefused,
                       WriteRabbitMQRefused
  <2>4. \A m \in Messages : wr'[m] = "idle" => wr[m] = "idle"
    BY <2>3, SMTT(20) DEF TypeOK
  <2>5. PICK kept \in SUBSET inbox[i] : inbox' = [inbox EXCEPT ![i] = kept]
    BY <2>1, Zenon DEF CloseChannel
  <2>6. /\ outbuf' = [outbuf EXCEPT ![i] = {}] /\ comp' = comp /\ handed' = handed
    BY <2>1, Zenon DEF CloseChannel
  <2> QED BY <2>2, <2>4, <2>5, <2>6, SMTT(20) DEF TypeOK, Loses
<1>10. ASSUME NEW i \in Instances, ConnectionLost(i) PROVE Loses
  BY <1>10 DEF TypeOK, Loses, ConnectionLost
<1>11. ASSUME NEW i \in Instances, Crash(i) PROVE Loses
  BY <1>11, SMTT(20) DEF TypeOK, Loses, Crash, ReaderGone
<1> QED
  BY <1>1, <1>2, <1>3, <1>4, <1>5, <1>6, <1>7, <1>8, <1>9, <1>10, <1>11, Zenon
  DEF Next, ProcessStep, NetworkStep, Closes

\* In every reachable state no copy of a message is in two places.
LEMMA OnceHolds == Spec => []Once
<1>1. Init => Once
  BY DEF Init, Once
<1>2. TypeOK /\ TypeOK' /\ Once /\ [Next]_vars => Once'
  <2> SUFFICES ASSUME TypeOK, TypeOK', Once, [Next]_vars PROVE Once'
    OBVIOUS
  <2>1. CASE Loses
    BY <2>1, SMTT(20) DEF TypeOK, Once, Loses, P
  <2>2. ASSUME NEW i \in Instances, NEW m \in Messages, Enters(i, m) PROVE Once'
    BY <2>2, SMTT(20) DEF TypeOK, Once, Enters, P
  <2>3. ASSUME NEW i \in Instances, NEW m \in Messages, Flush(i, m) PROVE Once'
    <3>1. CASE P.keeps
      BY <2>3, <3>1, SMTT(20) DEF TypeOK, Once, Flush, P, histVars
    <3>2. CASE ~P.keeps
      <4>1. PICK R \in Routes :
              inbox' = [j \in Instances |-> IF j \in R THEN inbox[j] \cup {m} ELSE inbox[j]]
        BY <2>3, <3>2, Zenon DEF Flush
      <4>2. P.shared => \A j, k \in R : j = k
        BY DEF Routes
      <4> QED BY <2>3, <3>2, <4>1, <4>2 DEF TypeOK, Once, Flush, P, histVars
    <3> QED BY <3>1, <3>2
  <2>4. ASSUME NEW i \in Instances, NEW m \in Messages, Deliver(i, m) PROVE Once'
    BY <2>4 DEF TypeOK, Once, Deliver, AutoAck, P, histVars
  <2>5. ASSUME NEW i \in Instances, NEW m \in Messages, Handle(i, m) PROVE Once'
    BY <2>5 DEF TypeOK, Once, Handle, P
  <2> QED BY <2>1, <2>2, <2>3, <2>4, <2>5, StepsMoveOneMessage, Zenon
<1> QED BY <1>1, <1>2, PushedTypes, PTL DEF Spec

-----------------------------------------------------------------------------
\* No copy is in its handler's hands twice, and a copy that is under way has
\* been written.
FateIs ==
  \A c \in Copies :
    /\ ~HandedTwice(c)
    /\ Readers(c) # {} /\ Underway(c) => wr[c[2]] # "idle"

\* A copy in one place has one fate.
LEMMA FateOf == TypeOK /\ Once => FateIs
<1> SUFFICES ASSUME TypeOK, Once, NEW c \in Copies
             PROVE  /\ ~HandedTwice(c)
                    /\ Readers(c) # {} /\ Underway(c) => wr[c[2]] # "idle"
  BY DEF FateIs
<1>1. c[2] \in Messages /\ Readers(c) \subseteq Instances
  BY DEF Copies, Readers
<1>2. ~HandedTwice(c)
  <2>1. ~P.shared => \A i, j \in Readers(c) : i = j
    BY DEF Readers
  <2> QED BY <1>1, <2>1, SMTT(20) DEF HandedTwice, Hands, Once, TypeOK
<1>3. Readers(c) # {} /\ Underway(c) => wr[c[2]] # "idle"
  BY <1>1 DEF Once, TypeOK, Underway
<1> QED BY <1>2, <1>3

\* A step in which no handler is given a message, and none comes under way
\* except from a Write that was not made before, moves every copy forward.
LEMMA MoveForward ==
  ASSUME FateIs, FateIs', comp' = comp, handed' = handed,
         \A m \in Messages : wr'[m] = "idle" => wr[m] = "idle",
         \A c \in Copies : Underway(c)' => Underway(c) \/ wr[c[2]] = "idle"
  PROVE  \A c \in Copies : Fate(c)' \in AMO!After(Fate(c))
<1> TAKE c \in Copies
<1>1. Readers(c)' = Readers(c)
  BY DEF Readers, P
<1>2. Hands(c)' = Hands(c)
  BY <1>1 DEF Hands
<1>3. c[2] \in Messages
  BY DEF Copies
<1>4. ~HandedTwice(c) /\ ~HandedTwice(c)'
  BY Zenon DEF FateIs, Copies
<1>5. Readers(c) # {} /\ Underway(c) => wr[c[2]] # "idle"
  BY Zenon DEF FateIs
<1> QED BY <1>1, <1>2, <1>3, <1>4, <1>5, Zenon DEF Fate, AMO!After

\* A reader's copies: of the group, or its own.
CopyOf(i, m) == <<IF P.shared THEN Group ELSE i, m>>

\* A handler is given a copy that was under way, and no other copy changes.
LEMMA HandleHandsOne ==
  ASSUME TypeOK, TypeOK', Once, FateIs, FateIs',
         NEW i \in Instances, NEW m \in Messages, Handle(i, m)
  PROVE  /\ CopyOf(i, m) \in Copies
         /\ Fate(CopyOf(i, m)) = "underway" /\ Fate(CopyOf(i, m))' = "handed"
         /\ \A d \in Copies \ {CopyOf(i, m)} : Fate(d)' = Fate(d)
<1> DEFINE c == CopyOf(i, m)
<1>1. c \in Copies /\ c[2] = m /\ c[1] = IF P.shared THEN Group ELSE i
  BY DEF CopyOf, Copies
<1>2. i \in Readers(c) /\ Readers(c) \subseteq Instances
  BY <1>1, Zenon DEF Readers
<1>3. comp' = comp /\ \A d : Readers(d)' = Readers(d)
  BY Zenon DEF Handle, Readers, P
<1>4. Fate(c) = "underway"
  <2>1. Hands(c) = {}
    <3>1. \A j \in Readers(c) : handed[j][m] = 0
      <4>1. ~P.shared => Readers(c) = {i}
        BY <1>1 DEF Readers
      <4> QED BY <1>2, <4>1, SMTT(20) DEF Handle, Once, TypeOK
    <3> QED BY <1>1, <3>1 DEF Hands
  <2>2. Underway(c) /\ ~HandedTwice(c)
    BY <1>1, <1>2, Zenon DEF Underway, Handle, FateIs
  <2> QED BY <1>2, <2>1, <2>2, Zenon DEF Fate
<1>5. Fate(CopyOf(i, m))' = "handed"
  <2>1. CopyOf(i, m)' = c
    BY <1>3 DEF CopyOf, P
  <2>2. handed'[i][m] > 0
    BY SMTT(20) DEF Handle, TypeOK
  <2>3. i \in Hands(c)'
    BY <1>1, <1>2, <1>3, <2>1, <2>2, Zenon DEF Hands
  <2>4. ~HandedTwice(c)'
    BY <1>1, <2>1, Zenon DEF FateIs, Copies
  <2> QED BY <1>2, <1>3, <2>1, <2>3, <2>4, Zenon DEF Fate
<1>6. ASSUME NEW d \in Copies \ {c} PROVE Fate(d)' = Fate(d)
  <2>1. d[2] \in Messages /\ d = <<d[1], d[2]>> /\ Readers(d) \subseteq Instances
    BY DEF Copies, Readers
  <2>2. ASSUME NEW j \in Readers(d)
        PROVE  /\ handed'[j][d[2]] = handed[j][d[2]]
               /\ d[2] \in inbox'[j] <=> d[2] \in inbox[j]
    <3>1. CASE d[2] # m
      BY <2>1, <3>1, SMTT(20) DEF Handle, TypeOK
    <3>2. CASE d[2] = m
      <4>1. j # i
        BY <1>6, <2>1, <3>2, Zenon DEF Readers, CopyOf
      <4> QED BY <2>1, <4>1 DEF Handle, TypeOK
    <3> QED BY <3>1, <3>2, Zenon
  <2>3. Hands(d)' = Hands(d)
    BY <1>3, <2>2, Zenon DEF Hands
  <2>4. Underway(d)' <=> Underway(d)
    BY <1>3, <2>2, Zenon DEF Underway, Handle
  <2>5. ~HandedTwice(d) /\ ~HandedTwice(d)'
    BY Zenon DEF FateIs, Copies
  <2>6. wr' = wr
    BY Zenon DEF Handle
  <2> QED BY <1>3, <2>3, <2>4, <2>5, <2>6, Zenon DEF Fate
<1> QED BY <1>1, <1>4, <1>5, <1>6, Zenon

\* NATS, RabbitMQ and MQTT hand a message to a group's handlers, or to a
\* reader's, at most once, whatever connections fail and processes crash:
\* every step of a component is a step of AtMostOnce or changes no copy.
THEOREM PushedImplementsAtMostOnce == Spec => ImplementsAtMostOnce
<1> DEFINE F == [c \in Copies |-> Fate(c)]
<1>1. Init => AMO!Init
  <2> SUFFICES ASSUME Init, NEW c \in Copies PROVE Fate(c) = "unsent"
    BY DEF AMO!Init
  <2>1. c[2] \in Messages /\ Readers(c) \subseteq Instances
    BY DEF Copies, Readers
  <2>2. Hands(c) = {} /\ ~Underway(c)
    BY <2>1 DEF Init, Hands, Underway
  <2> QED BY <2>1, <2>2, Zenon DEF Init, Fate, HandedTwice
<1>2. TypeOK /\ TypeOK' /\ Once /\ Once' /\ FateIs /\ FateIs' /\ [Next]_vars => [AMO!Next]_F
  <2> SUFFICES ASSUME TypeOK, TypeOK', Once, Once', FateIs, FateIs', [Next]_vars
               PROVE  AMO!Next
    OBVIOUS
  <2> USE DEF AMO!Next
  <2>1. ASSUME comp' = comp, handed' = handed,
               \A m \in Messages : wr'[m] = "idle" => wr[m] = "idle",
               \A c \in Copies : Underway(c)' => Underway(c) \/ wr[c[2]] = "idle"
        PROVE  AMO!Next
    <3>1. \A c \in Copies : Fate(c)' \in AMO!After(Fate(c))
      BY <2>1, MoveForward, Zenon
    <3>2. AMO!Move
      BY <3>1 DEF AMO!Move, Copies
    <3> QED BY <3>2
  <2>2. CASE Loses
    <3>1. ASSUME NEW c \in Copies, Underway(c)' PROVE Underway(c)
      <4>1. Readers(c)' = Readers(c) /\ Readers(c) \subseteq Instances
        BY <2>2, Zenon DEF Loses, Readers, P
      <4> QED BY <2>2, <3>1, <4>1, Zenon DEF Loses, Underway
    <3> QED BY <2>1, <2>2, <3>1, Zenon DEF Loses
  <2>3. ASSUME NEW i \in Instances, NEW m \in Messages, Enters(i, m) PROVE AMO!Next
    <3>1. ASSUME NEW c \in Copies, Underway(c)', c[2] # m PROVE Underway(c)
      <4>1. Readers(c)' = Readers(c)
        BY <2>3, Zenon DEF Enters, Readers, P
      <4> QED BY <2>3, <3>1, <4>1 DEF Enters, Underway, TypeOK
    <3> QED BY <2>1, <2>3, <3>1, Zenon DEF Enters
  <2>4. ASSUME NEW i \in Instances, NEW m \in Messages, Flush(i, m) \/ Deliver(i, m)
        PROVE  AMO!Next
    <3>1. comp' = comp /\ handed' = handed /\ wr' = wr
      BY <2>4, Zenon DEF Flush, Deliver, histVars
    <3>2. ASSUME NEW c \in Copies, Underway(c)' PROVE Underway(c)
      <4>1. Readers(c)' = Readers(c) /\ Readers(c) \subseteq Instances
        BY <3>1 DEF Readers, P
      <4>2. CASE c[2] = m
        BY <2>4, <4>2, Zenon DEF Flush, Deliver, Underway
      <4>3. CASE c[2] # m
        <5>1. c[2] \in queue' => c[2] \in queue
          BY <2>4, <4>3, Zenon DEF Flush, Deliver, AutoAck
        <5>2. \A j \in Instances : c[2] \in outbuf'[j] => c[2] \in outbuf[j]
          <6>1. CASE Flush(i, m)
            BY <6>1, <4>3 DEF Flush, TypeOK
          <6>2. CASE Deliver(i, m)
            BY <6>2, Zenon DEF Deliver
          <6> QED BY <2>4, <6>1, <6>2, Zenon
        <5>3. \A j \in Instances : c[2] \in inbox'[j] => c[2] \in inbox[j]
          <6>1. CASE Flush(i, m)
            <7>1. CASE P.keeps
              BY <6>1, <7>1, Zenon DEF Flush
            <7>2. CASE ~P.keeps
              <8>1. PICK R \in Routes :
                      inbox' = [j \in Instances |->
                                  IF j \in R THEN inbox[j] \cup {m} ELSE inbox[j]]
                BY <6>1, <7>2, Zenon DEF Flush
              <8> QED BY <8>1, <4>3
            <7> QED BY <7>1, <7>2, Zenon
          <6>2. CASE Deliver(i, m)
            BY <6>2, <4>3 DEF Deliver, TypeOK
          <6> QED BY <2>4, <6>1, <6>2, Zenon
        <5> QED BY <3>2, <4>1, <5>1, <5>2, <5>3, Zenon DEF Underway
      <4> QED BY <4>2, <4>3
    <3> QED BY <2>1, <3>1, <3>2, Zenon
  <2>5. ASSUME NEW i \in Instances, NEW m \in Messages, Handle(i, m) PROVE AMO!Next
    <3>1. CopyOf(i, m)' = CopyOf(i, m)
      BY <2>5, Zenon DEF Handle, CopyOf, P
    <3>2. AMO!Hand(CopyOf(i, m))
      BY <2>5, <3>1, HandleHandsOne DEF AMO!Hand, Copies
    <3> QED BY <2>5, <3>2, HandleHandsOne, Zenon
  <2> QED BY <2>2, <2>3, <2>4, <2>5, StepsMoveOneMessage, Zenon
<1> QED BY <1>1, <1>2, PushedTypes, OnceHolds, FateOf, PTL DEF Spec, ImplementsAtMostOnce, AMO!Spec

-----------------------------------------------------------------------------
\* What a finished Write of an MQTT binding leaves, until the process ends; a
\* closed client has nothing to send.
Ended(m, i) ==
  /\ by[m] = i =>
       /\ comp = "mqtt" /\ run[i] # "new"
       /\ wr[m] # "idle"
       /\ wr[m] = "ok" => sub[i] = "deaf"
  /\ m \in hang[i] => by[m] = i

Quiet(i) ==
  /\ conn[i] = "closed" => outbuf[i] = {}
  /\ doomed[i] => comp = "rabbitmq"

ClientEnded ==
  /\ \A m \in Messages : \A i \in Instances : Ended(m, i)
  /\ \A i \in Instances : Quiet(i)

\* The first Write of an MQTT binding ends its client: afterwards it is no
\* hearer of its subscription and, closed, later Writes send nothing.
THEOREM MQTTWriteEndsTheClient == Spec => []WriteEndsTheClient
<1>1. Init => ClientEnded
  BY DEF Init, ClientEnded, Ended, Quiet
<1>2. TypeOK /\ ClientEnded /\ [Next]_vars => ClientEnded'
  <2> SUFFICES ASSUME TypeOK, ClientEnded, [Next]_vars PROVE ClientEnded'
    OBVIOUS
  <2>1. CASE UNCHANGED vars
    BY <2>1, Zenon DEF ClientEnded, Ended, Quiet, vars
  <2>2. ASSUME NEW i \in Instances, InitNATS(i) \/ InitRabbitMQ(i) \/ InitMQTT(i)
        PROVE  ClientEnded'
    <3>1. PICK tried : Connect(i, tried)
      BY <2>2 DEF InitNATS, InitRabbitMQ, InitMQTT
    <3>2. run[i] = "new" /\ InitUnchanged
      BY <2>2 DEF InitNATS, InitRabbitMQ, InitMQTT
    <3>3. /\ \A j \in Instances : run[j] # "new" => run'[j] = run[j]
          /\ \A j \in Instances : conn'[j] = "closed" => conn[j] = "closed"
      <4>1. \/ /\ run' = [run EXCEPT ![i] = "ready"] /\ conn' = [conn EXCEPT ![i] = "up"]
            \/ run' = [run EXCEPT ![i] = "failed"] /\ conn' = conn
        BY <3>1, Zenon DEF Connect
      <4>2. run \in [Instances -> {"new", "ready", "reading", "returned", "failed", "panicked"}]
            /\ conn \in [Instances -> Connections]
        BY Zenon DEF TypeOK
      <4> QED BY <3>2, <4>1, <4>2, SMTT(20)
    <3>4. ASSUME NEW n \in Messages, NEW j \in Instances PROVE Ended(n, j)'
      BY <3>2, <3>3, Zenon DEF ClientEnded, Ended, InitUnchanged
    <3>5. ASSUME NEW j \in Instances PROVE Quiet(j)'
      BY <3>2, <3>3, Zenon DEF ClientEnded, Quiet, InitUnchanged
    <3> QED BY <3>4, <3>5, Zenon DEF ClientEnded
  <2>3. ASSUME NEW i \in Instances, NEW m \in Messages,
               PublishNATS(i, m) \/ WriteRabbitMQ(i, m)
        PROVE  ClientEnded'
    <3>1. \A n \in Messages : by[n] \notin Instances
      BY <2>3, Zenon DEF TypeOK, ClientEnded, Ended, Quiet, PublishNATS, WriteRabbitMQ
    <3>2. UNCHANGED <<comp, conn, by, hang, doomed>>
      BY <2>3, Zenon DEF PublishNATS, WriteRabbitMQ, procVars, histVars
    <3>3. outbuf' = outbuf \/ (conn[i] # "closed" /\ outbuf' = [outbuf EXCEPT ![i] = @ \cup {m}])
      BY <2>3, SMTT(20) DEF PublishNATS, WriteRabbitMQ, Takes, Fails
    <3>4. \A j \in Instances : conn[j] = "closed" => outbuf'[j] = outbuf[j]
      BY <3>3, SMTT(20) DEF TypeOK
    <3>5. ASSUME NEW n \in Messages, NEW j \in Instances PROVE Ended(n, j)'
      BY <3>1, <3>2, Zenon DEF ClientEnded, Ended
    <3>6. ASSUME NEW j \in Instances PROVE Quiet(j)'
      BY <3>2, <3>4, Zenon DEF ClientEnded, Quiet
    <3> QED BY <3>5, <3>6, Zenon DEF ClientEnded
  <2>4. ASSUME NEW i \in Instances, NEW m \in Messages, WriteMQTT(i, m)
        PROVE  ClientEnded'
    <3>1. UNCHANGED <<comp, conn, run, sub, doomed>> /\ comp = "mqtt" /\ run[i] # "new"
      BY <2>4 DEF WriteMQTT, CanWrite, Running
    <3>2. \A j \in Instances : conn[j] = "closed" => outbuf'[j] = outbuf[j]
      BY <2>4, SMTT(20) DEF TypeOK, WriteMQTT
    <3>3. /\ \A n \in Messages : by'[n] = IF n = m THEN i ELSE by[n]
          /\ \A n \in Messages : wr'[n] = IF n = m THEN "sending" ELSE wr[n]
          /\ \A j \in Instances : hang'[j] = IF j = i THEN hang[j] \cup {m} ELSE hang[j]
      <4>1. /\ by' = [by EXCEPT ![m] = i] /\ wr' = [wr EXCEPT ![m] = "sending"]
            /\ hang' = [hang EXCEPT ![i] = hang[i] \cup {m}]
        BY <2>4, Zenon DEF WriteMQTT
      <4>2. /\ by \in [Messages -> Instances \cup {None}]
            /\ hang \in [Instances -> SUBSET Messages]
            /\ wr \in [Messages -> {"idle", "sending", "ok", "err"}]
        BY Zenon DEF TypeOK
      <4> QED BY <4>1, <4>2, Zenon
    <3>4. \A j \in Instances : m \notin hang[j]
      BY <2>4, Zenon DEF ClientEnded, Ended, WriteMQTT, TypeOK
    <3>5. ASSUME NEW n \in Messages, NEW j \in Instances PROVE Ended(n, j)'
      <4>1. Ended(n, j)
        BY Zenon DEF ClientEnded
      <4>2. CASE n = m
        <5>1. by'[n] = i /\ wr'[n] = "sending" /\ (n \in hang'[j] => j = i)
          BY <3>3, <3>4, <4>2, Zenon
        <5> QED BY <3>1, <5>1 DEF Ended
      <4>3. CASE n # m
        <5>1. by'[n] = by[n] /\ wr'[n] = wr[n] /\ (n \in hang'[j] => n \in hang[j])
          BY <3>3, <4>3, Zenon
        <5> QED BY <3>1, <4>1, <5>1, Zenon DEF Ended
      <4> QED BY <4>2, <4>3
    <3>6. ASSUME NEW j \in Instances PROVE Quiet(j)'
      BY <3>1, <3>2, Zenon DEF ClientEnded, Quiet
    <3> QED BY <3>5, <3>6, Zenon DEF ClientEnded
  <2>5. ASSUME NEW i \in Instances, SubscribeNATS(i) \/ ReadRabbitMQ(i) \/ ReadMQTT(i)
        PROVE  ClientEnded'
    BY <2>5, SMTT(20) DEF TypeOK, ClientEnded, Ended, Quiet, SubscribeNATS, ReadRabbitMQ, ReadMQTT, readUnchanged,
                histVars
  <2>6. ASSUME NEW i \in Instances, Signal(i) \/ Subscribed(i) PROVE ClientEnded'
    BY <2>6, SMTT(20) DEF TypeOK, ClientEnded, Ended, Quiet, Signal, Subscribed, netVars, procVars, histVars
  <2>7. ASSUME NEW i \in Instances, Reconnect(i) \/ Reconnecting(i) \/ ConnectionLost(i)
        PROVE  ClientEnded'
    <3>1. UNCHANGED <<comp, run, hang, doomed, wr, by>>
      BY <2>7, Zenon DEF Reconnect, Reconnecting, ConnectionLost, procVars, histVars
    <3>2. \A j \in Instances : conn'[j] = "closed" => conn[j] = "closed"
      <4>1. PICK at \in Connections \ {"closed"} : conn' = [conn EXCEPT ![i] = at]
        BY <2>7, Zenon DEF Reconnect, Reconnecting, ConnectionLost, Connections
      <4> QED BY <4>1, SMTT(20) DEF TypeOK
    <3>3. \A j \in Instances : outbuf[j] = {} => outbuf'[j] = {}
      <4>1. outbuf' = outbuf \/ \E kept \in SUBSET outbuf[i] : outbuf' = [outbuf EXCEPT ![i] = kept]
        BY <2>7, Zenon DEF Reconnect, Reconnecting, ConnectionLost
      <4>2. outbuf \in [Instances -> SUBSET Messages]
        BY Zenon DEF TypeOK
      <4> QED BY <4>1, <4>2, SMTT(20)
    <3>4. \A j \in Instances : sub[j] = "deaf" => sub'[j] = "deaf"
      <4>1. sub' = sub \/ sub' = [sub EXCEPT ![i] = AfterLoss(sub[i])]
        BY <2>7, Zenon DEF Reconnect, Reconnecting, ConnectionLost
      <4>2. sub \in [Instances -> {"no", "asked", "yes", "deaf"}]
        BY Zenon DEF TypeOK
      <4>3. AfterLoss("deaf") = "deaf"
        BY DEF AfterLoss
      <4> QED BY <4>1, <4>2, <4>3, SMTT(20)
    <3>5. ASSUME NEW n \in Messages, NEW j \in Instances PROVE Ended(n, j)'
      BY <3>1, <3>4, Zenon DEF ClientEnded, Ended
    <3>6. ASSUME NEW j \in Instances PROVE Quiet(j)'
      BY <3>1, <3>2, <3>3, Zenon DEF ClientEnded, Quiet
    <3> QED BY <3>5, <3>6, Zenon DEF ClientEnded
  <2>8. ASSUME NEW i \in Instances, HandlerReturned(i) PROVE ClientEnded'
    <3>1. UNCHANGED <<comp, conn, sub, outbuf, run, hang, wr, by>>
      BY <2>8, Zenon DEF HandlerReturned, netVars, histVars
    <3>2. \A j \in Instances : doomed'[j] => doomed[j] \/ P.acks
      BY <2>8, Zenon DEF HandlerReturned
    <3>3. P.acks => comp = "rabbitmq"
      BY Zenon DEF P, Profile
    <3> QED BY <3>1, <3>2, <3>3, Zenon DEF ClientEnded, Ended, Quiet
  <2>9. ASSUME NEW i \in Instances, NEW m \in Messages, Disconnect(i, m)
        PROVE  ClientEnded'
    <3>1. UNCHANGED <<comp, run, doomed, by>>
      BY <2>9, Zenon DEF Disconnect, histVars
    <3>2. /\ m \in hang[i] /\ by[m] = i
          /\ \A j \in Instances : hang'[j] \subseteq hang[j]
          /\ \A n \in Messages : wr'[n] = IF n = m THEN "ok" ELSE wr[n]
      BY <2>9, SMTT(20) DEF TypeOK, Disconnect, ClientEnded, Ended, Quiet
    <3>3. \A j \in Instances : sub'[j] = IF j = i THEN "deaf" ELSE sub[j]
      BY <2>9, SMTT(20) DEF TypeOK, Disconnect, HangUp
    <3>4. \A j \in Instances : conn'[j] = "closed" => outbuf'[j] = {}
      BY <2>9, SMTT(20) DEF TypeOK, Disconnect, HangUp, ClientEnded, Ended, Quiet
    <3>5. ASSUME NEW n \in Messages, NEW j \in Instances PROVE Ended(n, j)'
      <4>1. Ended(n, j)
        BY Zenon DEF ClientEnded
      <4> QED BY <3>1, <3>2, <3>3, <4>1 DEF Ended
    <3>6. ASSUME NEW j \in Instances PROVE Quiet(j)'
      BY <3>1, <3>4, Zenon DEF ClientEnded, Quiet
    <3> QED BY <3>5, <3>6, Zenon DEF ClientEnded
  <2>10. ASSUME NEW i \in Instances, NEW m \in Messages,
                Handle(i, m) \/ Flush(i, m) \/ Deliver(i, m)
         PROVE  ClientEnded'
    <3>1. UNCHANGED <<comp, conn, sub, run, hang, doomed, wr, by>>
      BY <2>10, Zenon DEF Handle, Flush, Deliver, procVars, histVars
    <3>2. \A j \in Instances : outbuf[j] = {} => outbuf'[j] = {}
      <4>1. CASE Flush(i, m)
        BY <4>1 DEF Flush, TypeOK
      <4>2. CASE Handle(i, m) \/ Deliver(i, m)
        BY <4>2, Zenon DEF Handle, Deliver
      <4> QED BY <2>10, <4>1, <4>2
    <3> QED BY <3>1, <3>2, Zenon DEF ClientEnded, Ended, Quiet
  <2>11. ASSUME NEW i \in Instances, Closes(i) PROVE ClientEnded'
    <3>1. CloseChannel(i)
      BY <2>11, Zenon DEF Closes, AckRefused, ConnectionClosed, GiveUp, ReadRabbitMQRefused,
                          WriteRabbitMQRefused
    <3>2. comp # "mqtt"
      <4>1. CASE AckRefused(i)
        BY <4>1, SMTT(20) DEF AckRefused, ClientEnded, Quiet
      <4>2. CASE ConnectionClosed(i)
        BY <4>2, Zenon DEF ConnectionClosed, P, Profile
      <4>3. CASE ~AckRefused(i) /\ ~ConnectionClosed(i)
        BY <2>11, <4>3 DEF Closes, GiveUp, ReadRabbitMQRefused, WriteRabbitMQRefused
      <4> QED BY <4>1, <4>2, <4>3
    <3>3. \A n \in Messages : by[n] \notin Instances
      BY <3>2, Zenon DEF ClientEnded, Ended, Quiet
    <3>4. UNCHANGED <<comp, hang, by>>
      BY <3>1, Zenon DEF CloseChannel
    <3>5. \A j \in Instances : /\ conn'[j] = "closed" => outbuf'[j] = {}
                               /\ doomed'[j] => doomed[j]
      BY <3>1, SMTT(20) DEF TypeOK, ClientEnded, Ended, Quiet, CloseChannel
    <3>6. ASSUME NEW n \in Messages, NEW j \in Instances PROVE Ended(n, j)'
      BY <3>3, <3>4, Zenon DEF ClientEnded, Ended
    <3>7. ASSUME NEW j \in Instances PROVE Quiet(j)'
      BY <3>4, <3>5, Zenon DEF ClientEnded, Quiet
    <3> QED BY <3>6, <3>7, Zenon DEF ClientEnded
  <2>12. ASSUME NEW i \in Instances, Crash(i) PROVE ClientEnded'
    BY <2>12, SMTT(20) DEF TypeOK, ClientEnded, Ended, Quiet, Crash
  <2> QED
    BY <2>1, <2>2, <2>3, <2>4, <2>5, <2>6, <2>7, <2>8, <2>9, <2>10, <2>11, <2>12, Zenon
    DEF Next, ProcessStep, NetworkStep, Closes
<1>3. ClientEnded => WriteEndsTheClient
  BY DEF ClientEnded, Ended, Quiet, WriteEndsTheClient, Hearers
<1> QED BY <1>1, <1>2, <1>3, PushedTypes, PTL DEF Spec

HIDE ConstantsAssumption

-----------------------------------------------------------------------------
(***************************************************************************)
(* Kubernetes events, for any number of results.                           *)
(***************************************************************************)

\* A sequence over a set is one over a larger set.
LEMMA SeqOfMore ==
  ASSUME NEW S, NEW T, S \subseteq T, NEW s \in Seq(S)
  PROVE  s \in Seq(T)
<1>1. Len(s) \in Nat /\ s \in [1 .. Len(s) -> S]
  OBVIOUS
<1>2. s \in [1 .. Len(s) -> T]
  BY <1>1
<1> QED BY <1>1, <1>2

\* The result between the channel and the handler, and the one that is decoded
\* and not yet in the channel.
InHand == IF reading = "handle" THEN 1 ELSE 0
Unsent == IF watch = "send" THEN 1 ELSE 0

\* The goroutine of the watch takes no more lines.
Ending == {"closeerr", "closeresult", "ended"}

\* Of the results that were decoded the handler was given the first ones, in
\* order, one may be with Read, one in the channel and one with the goroutine;
\* and there is an end for Read to see only when the goroutine has none.
WatchInv ==
  /\ KubernetesTypeOK
  /\ \A j \in 1 .. Len(shown) : shown[j] = j
  /\ Len(shown) + InHand + Len(results) + Unsent = decoded
  /\ reading = "handle" => handling = Len(shown) + 1
  /\ results # <<>> => results = <<Len(shown) + InHand + 1>>
  /\ reading \in {"init", "idle"} => watch = "none"
  /\ reading \in {"nil", "err"} => watch \in Ending \cup {"none"}
  /\ errors > 0 \/ closed # {} => watch \in Ending

\* The goroutine of the watch keeps the invariant.
LEMMA WatchKeeps == WatchInv /\ WatchStep => WatchInv'
<1> SUFFICES ASSUME WatchInv, WatchStep PROVE WatchInv'
  OBVIOUS
<1>0. /\ decoded \in Nat /\ MaxResults \in Nat /\ decoded <= MaxResults
      /\ shown \in Seq(1 .. decoded) /\ results \in Seq(1 .. decoded) /\ Len(results) <= 1
      /\ errors \in 0 .. 1 /\ Len(shown) \in Nat /\ Len(results) \in Nat
  BY KubernetesAssumption DEF WatchInv, KubernetesTypeOK
<1>1. CASE ScanLine
  <2>1. UNCHANGED <<reading, results, errors, closed, handling, shown>> /\ watch = "scan"
    BY <1>1 DEF ScanLine
  <2>2. CASE decoded < MaxResults /\ decoded' = decoded + 1 /\ watch' = "send"
    <3>1. 1 .. decoded \subseteq 1 .. decoded'
      BY <1>0, <2>2
    <3>2. shown' \in Seq(1 .. decoded') /\ results' \in Seq(1 .. decoded')
      BY <1>0, <2>1, <3>1, SeqOfMore, Zenon
    <3>3. KubernetesTypeOK'
      <4>1. decoded' \in 0 .. MaxResults /\ handling' \in 0 .. decoded'
        BY <1>0, <2>1, <2>2 DEF WatchInv, KubernetesTypeOK
      <4> QED BY <2>1, <2>2, <3>2, <4>1, Zenon DEF WatchInv, KubernetesTypeOK
    <3>4. Unsent = 0 /\ Unsent' = 1 /\ InHand' = InHand /\ InHand \in Nat
      BY <2>1, <2>2 DEF Unsent, InHand
    <3>5. errors' = 0 /\ closed' = {} /\ reading \notin {"nil", "err", "init", "idle"}
      BY <1>0, <2>1 DEF WatchInv, Ending
    <3> QED BY <1>0, <2>1, <2>2, <3>3, <3>4, <3>5 DEF WatchInv
  <2>3. CASE watch' \in {"fail", "closeerr"} /\ decoded' = decoded
    <3>1. KubernetesTypeOK'
      BY <2>1, <2>3 DEF WatchInv, KubernetesTypeOK
    <3>2. Unsent' = Unsent /\ InHand' = InHand
      BY <2>1, <2>3 DEF Unsent, InHand
    <3>3. errors' = 0 /\ closed' = {} /\ reading \notin {"nil", "err", "init", "idle"}
      BY <1>0, <2>1 DEF WatchInv, Ending
    <3> QED BY <2>1, <2>3, <3>1, <3>2, <3>3 DEF WatchInv
  <2> QED BY <1>1, <2>2, <2>3 DEF ScanLine
<1>2. CASE SendResult
  <2>1. /\ UNCHANGED <<reading, decoded, errors, closed, handling, shown>>
        /\ watch = "send" /\ watch' = "scan" /\ results = <<>> /\ results' = <<decoded>>
    BY <1>2 DEF SendResult
  <2>2. Unsent = 1 /\ Unsent' = 0 /\ InHand' = InHand /\ InHand \in Nat /\ Len(results) = 0
    BY <2>1 DEF Unsent, InHand
  <2>3. decoded = Len(shown) + InHand + 1
    BY <1>0, <2>2 DEF WatchInv
  <2>4. results' \in Seq(1 .. decoded) /\ Len(results') = 1
    BY <1>0, <2>1, <2>2, <2>3
  <2>5. KubernetesTypeOK'
    BY <2>1, <2>4 DEF WatchInv, KubernetesTypeOK
  <2>6. errors' = 0 /\ closed' = {} /\ reading \notin {"nil", "err", "init", "idle"}
    BY <1>0, <2>1 DEF WatchInv, Ending
  <2> QED BY <1>0, <2>1, <2>2, <2>3, <2>4, <2>5, <2>6 DEF WatchInv
<1>3. CASE SendError \/ CloseChannels
  <2>1. /\ UNCHANGED <<reading, decoded, results, handling, shown>>
        /\ watch' \in Ending /\ watch \in Ending \cup {"fail"}
    BY <1>3 DEF SendError, CloseChannels, Ending
  <2>2. KubernetesTypeOK'
    BY <1>3, <2>1 DEF SendError, CloseChannels, WatchInv, KubernetesTypeOK, Ending
  <2>3. Unsent' = Unsent /\ InHand' = InHand
    BY <2>1 DEF Unsent, InHand, Ending
  <2>4. reading \notin {"init", "idle"}
    BY <2>1 DEF WatchInv, Ending
  <2> QED BY <2>1, <2>2, <2>3, <2>4 DEF WatchInv
<1> QED BY <1>1, <1>2, <1>3 DEF WatchStep

\* So do Init, Read and its loop.
LEMMA ReadKeeps ==
  WatchInv /\ (InitKubernetes \/ ReadKubernetes \/ ReadStep) => WatchInv'
<1> SUFFICES ASSUME WatchInv, InitKubernetes \/ ReadKubernetes \/ ReadStep PROVE WatchInv'
  OBVIOUS
<1>0. /\ decoded \in Nat /\ shown \in Seq(1 .. decoded) /\ results \in Seq(1 .. decoded)
      /\ Len(results) <= 1 /\ errors \in 0 .. 1 /\ Len(shown) \in Nat /\ Len(results) \in Nat
  BY KubernetesAssumption DEF WatchInv, KubernetesTypeOK
<1>1. CASE InitKubernetes
  <2>1. /\ UNCHANGED <<watch, decoded, results, errors, closed, handling, shown>>
        /\ reading = "init" /\ reading' \in {"idle", "err"}
    BY <1>1 DEF InitKubernetes
  <2>2. KubernetesTypeOK' /\ Unsent' = Unsent /\ InHand' = InHand
    BY <2>1 DEF WatchInv, KubernetesTypeOK, Unsent, InHand
  <2> QED BY <2>1, <2>2 DEF WatchInv
<1>2. CASE ReadKubernetes
  <2>1. /\ UNCHANGED <<decoded, results, errors, closed, handling, shown>>
        /\ reading = "idle" /\ watch = "none"
        /\ \/ reading' = "select" /\ watch' = "scan"
           \/ reading' = "err" /\ watch' = watch
    BY <1>2 DEF ReadKubernetes, WatchInv
  <2>2. KubernetesTypeOK' /\ Unsent' = Unsent /\ InHand' = InHand
    BY <2>1 DEF WatchInv, KubernetesTypeOK, Unsent, InHand
  <2>3. errors' = 0 /\ closed' = {}
    BY <1>0, <2>1 DEF WatchInv, Ending
  <2> QED BY <2>1, <2>2, <2>3 DEF WatchInv
<1>3. CASE TakeResult
  <2>1. /\ UNCHANGED <<watch, decoded, errors, closed, shown>>
        /\ reading = "select" /\ reading' = "handle" /\ results # <<>>
        /\ handling' = Head(results) /\ results' = Tail(results)
    BY <1>3 DEF TakeResult
  <2>2. InHand = 0 /\ InHand' = 1 /\ Unsent' = Unsent /\ Unsent \in Nat
    BY <2>1 DEF Unsent, InHand
  <2>3. results = <<Len(shown) + 1>>
    BY <1>0, <2>1, <2>2 DEF WatchInv
  <2>4. handling' = Len(shown) + 1 /\ results' = <<>> /\ Len(results) = 1
    BY <2>1, <2>3
  <2>5. Len(shown) + 1 <= decoded
    BY <1>0, <2>2, <2>4 DEF WatchInv
  <2>6. results' \in Seq(1 .. decoded) /\ Len(results') = 0 /\ handling' \in 0 .. decoded
    BY <1>0, <2>4, <2>5
  <2>7. KubernetesTypeOK'
    BY <2>1, <2>6 DEF WatchInv, KubernetesTypeOK
  <2>8. Len(shown) + InHand' + Len(results') + Unsent' = decoded
    BY <1>0, <2>2, <2>4, <2>6 DEF WatchInv
  <2> QED BY <2>1, <2>2, <2>4, <2>7, <2>8, Zenon DEF WatchInv
<1>4. CASE HandleResult
  <2>1. /\ UNCHANGED <<watch, decoded, results, errors, closed, handling>>
        /\ reading = "handle" /\ reading' = "select" /\ shown' = Append(shown, handling)
    BY <1>4 DEF HandleResult
  <2>2. InHand = 1 /\ InHand' = 0 /\ Unsent' = Unsent /\ Unsent \in Nat
    BY <2>1 DEF Unsent, InHand
  <2>3. handling = Len(shown) + 1 /\ handling <= decoded
    BY <1>0, <2>1, <2>2 DEF WatchInv
  <2>4. /\ shown' \in Seq(1 .. decoded) /\ Len(shown') = Len(shown) + 1
        /\ \A j \in 1 .. Len(shown') : shown'[j] = IF j = Len(shown) + 1 THEN handling ELSE shown[j]
    BY <1>0, <2>1, <2>3
  <2>5. ASSUME NEW j \in 1 .. Len(shown') PROVE shown'[j] = j
    <3>1. CASE j = Len(shown) + 1
      BY <2>3, <2>4, <3>1
    <3>2. CASE j # Len(shown) + 1
      <4>1. j \in 1 .. Len(shown) /\ shown'[j] = shown[j]
        BY <1>0, <2>4, <3>2
      <4> QED BY <4>1 DEF WatchInv
    <3> QED BY <3>1, <3>2
  <2>6. KubernetesTypeOK'
    BY <2>1, <2>4, Zenon DEF WatchInv, KubernetesTypeOK
  <2>7. results # <<>> => results = <<Len(shown') + InHand' + 1>>
    <3>1. Len(shown) + InHand + 1 = Len(shown') + InHand' + 1
      BY <1>0, <2>2, <2>4
    <3> QED BY <3>1 DEF WatchInv
  <2> QED BY <1>0, <2>1, <2>2, <2>4, <2>5, <2>6, <2>7, SMTT(20) DEF WatchInv
<1>5. CASE LeaveLoop
  <2>1. /\ UNCHANGED <<watch, decoded, results, closed, handling, shown>>
        /\ reading = "select" /\ reading' \in {"nil", "err"}
        /\ errors' \in 0 .. 1 /\ (errors' > 0 => errors > 0)
        /\ errors > 0 \/ closed # {}
    BY <1>0, <1>5 DEF LeaveLoop
  <2>2. KubernetesTypeOK' /\ Unsent' = Unsent /\ InHand' = InHand
    BY <2>1 DEF WatchInv, KubernetesTypeOK, Unsent, InHand
  <2> QED BY <2>1, <2>2, Zenon DEF WatchInv
<1> QED BY <1>1, <1>2, <1>3, <1>4, <1>5 DEF ReadStep

LEMMA WatchInvHolds == KubernetesSpec => []WatchInv
<1>1. KubernetesInit => WatchInv
  <2> SUFFICES ASSUME KubernetesInit PROVE WatchInv
    OBVIOUS
  <2>1. shown = <<>> /\ results = <<>> /\ Len(shown) = 0 /\ Len(results) = 0
    BY DEF KubernetesInit
  <2>2. KubernetesTypeOK
    BY <2>1, KubernetesAssumption DEF KubernetesInit, KubernetesTypeOK
  <2> QED BY <2>1, <2>2 DEF KubernetesInit, WatchInv, InHand, Unsent
<1>2. WatchInv /\ [KubernetesNext]_kubernetesVars => WatchInv'
  <2>1. WatchInv /\ UNCHANGED kubernetesVars => WatchInv'
    BY Zenon DEF kubernetesVars, WatchInv, KubernetesTypeOK, InHand, Unsent
  <2> QED BY <2>1, WatchKeeps, ReadKeeps DEF KubernetesNext
<1> QED BY <1>1, <1>2, PTL DEF KubernetesSpec

\* Every variable of the Kubernetes binding keeps its type: neither channel holds
\* more than the one element it has room for.
THEOREM KubernetesTypes == KubernetesSpec => []KubernetesTypeOK
BY WatchInvHolds, PTL DEF WatchInv

\* The handler is given the results of a watch in order and without a gap, and
\* at most the last one is missing when Read returns.
THEOREM KubernetesShowsAllButTheLast == KubernetesSpec => []AllButTheLastIsShown
<1>1. WatchInv => AllButTheLastIsShown
  <2> SUFFICES ASSUME WatchInv PROVE AllButTheLastIsShown
    OBVIOUS
  <2>1. /\ DOMAIN shown = 1 .. Len(shown) /\ Len(shown) \in Nat
        /\ Len(results) \in Nat /\ Len(results) <= 1
    BY DEF WatchInv, KubernetesTypeOK
  <2>2. ASSUME reading \in {"nil", "err"} PROVE decoded <= Len(shown) + 1
    <3>1. InHand = 0 /\ Unsent = 0
      BY <2>2 DEF WatchInv, InHand, Unsent, Ending
    <3> QED BY <2>1, <3>1 DEF WatchInv
  <2> QED BY <2>1, <2>2 DEF WatchInv, AllButTheLastIsShown
<1> QED BY <1>1, WatchInvHolds, PTL

\* What EndTogether rests on: when Read has returned, the goroutine of the watch has
\* nothing more to send, so that it cannot block on a channel nobody reads; and the
\* error it sends always finds room.
THEOREM KubernetesNeverBlocks ==
  KubernetesSpec => [](/\ reading \in {"nil", "err"} => watch \notin {"scan", "send", "fail"}
                       /\ watch = "fail" => errors = 0)
<1>1. WatchInv => /\ reading \in {"nil", "err"} => watch \notin {"scan", "send", "fail"}
                  /\ watch = "fail" => errors = 0
  BY DEF WatchInv, KubernetesTypeOK, Ending
<1> QED BY <1>1, WatchInvHolds, PTL

-----------------------------------------------------------------------------
(***************************************************************************)
(* The mDNS lookup, for any set of replicas and any number of entries.     *)
(***************************************************************************)

\* None of the first n entries carries the id.
NoMatchIn(n) == \A j \in 1 .. n : ~given[j].id

\* The first entry that does is one of r.
IsFirstMatch(r) ==
  \E n \in 1 .. Len(given) :
    /\ given[n].of = r /\ given[n].id
    /\ \A j \in 1 .. Len(given) : given[j].id => n <= j

\* While the goroutine reads entries none has matched; the port is written once,
\* by a goroutine that has received its last entry.
LookupInv ==
  /\ MDNSTypeOK
  /\ port # NoPort => reader = "returned" /\ IsFirstMatch(port)
  /\ reader \in {"none", "range"} => NoMatchIn(Len(given))
  /\ reader = "entry" => /\ given # <<>> /\ entry = given[Len(given)]
                         /\ NoMatchIn(Len(given) - 1)
  /\ lookup = "start" => reader = "none"
  /\ lookup = "found" => answer = port /\ port # NoPort

\* Every step of the lookup, its goroutine and the browser keeps the invariant.
LEMMA LookupKeeps == LookupInv /\ [MDNSNext]_mdnsVars => LookupInv'
<1> SUFFICES ASSUME LookupInv, [MDNSNext]_mdnsVars PROVE LookupInv'
  OBVIOUS
<1>0. given \in Seq(Entries) /\ Len(given) \in Nat /\ MDNSTypeOK
  BY DEF LookupInv, MDNSTypeOK
<1>1. ASSUME UNCHANGED <<reader, entry, port, given>>, MDNSTypeOK',
             lookup' = "start" => lookup = "start",
             lookup' = "found" => answer' = port /\ port # NoPort
      PROVE  LookupInv'
  BY <1>1, Zenon DEF LookupInv, IsFirstMatch, NoMatchIn
<1>2. CASE UNCHANGED mdnsVars
  BY <1>1, <1>2, SMTT(20) DEF LookupInv, MDNSTypeOK, mdnsVars
<1>3. CASE LookupPortMDNS
  <2>1. /\ UNCHANGED <<entry, port, answer, given>> /\ lookup' \notin {"start", "found"}
        /\ reader' = reader \/ reader' = "range"
    BY <1>3 DEF LookupPortMDNS
  <2>2. MDNSTypeOK'
    BY <1>0, <1>3 DEF LookupPortMDNS, MDNSTypeOK
  <2>3. CASE reader' = reader
    BY <1>1, <2>1, <2>2, <2>3
  <2>4. CASE reader' = "range"
    <3>1. port = NoPort /\ NoMatchIn(Len(given))
      BY <1>3 DEF LookupPortMDNS, LookupInv
    <3> QED BY <2>1, <2>2, <2>4, <3>1, Zenon DEF LookupInv, NoMatchIn
  <2> QED BY <2>1, <2>3, <2>4
<1>4. CASE LookupStep
  <2>1. UNCHANGED <<reader, entry, port, given>>
    BY <1>4, Zenon DEF LookupStep, Browse, Timeout, ReturnPort
  <2>2. MDNSTypeOK'
    BY <1>0, <1>4, Zenon DEF LookupStep, Browse, Timeout, ReturnPort, MDNSTypeOK
  <2>3. /\ lookup' # "start"
        /\ lookup' = "found" => answer' = port /\ port # NoPort
    BY <1>4, Zenon DEF LookupStep, Browse, Timeout, ReturnPort, LookupInv
  <2> QED BY <1>1, <2>1, <2>2, <2>3
<1>5. CASE LookAtEntry
  <2>1. reader = "entry" /\ UNCHANGED <<lookup, entry, answer, given>> /\ port = NoPort
    BY <1>5 DEF LookAtEntry, LookupInv
  <2>3. /\ Len(given) >= 1 /\ entry = given[Len(given)] /\ NoMatchIn(Len(given) - 1)
        /\ lookup \notin {"start", "found"}
    BY <1>0, <2>1 DEF LookupInv
  <2>e. entry \in Entries /\ entry.of \in Replicas
    BY <1>0, <2>3 DEF Entries
  <2>2. MDNSTypeOK'
    BY <1>0, <1>5, <2>e DEF LookAtEntry, MDNSTypeOK
  <2>4. CASE entry.id
    <3>1. port' = entry.of /\ reader' = "returned"
      BY <1>5, <2>4 DEF LookAtEntry
    <3>2. \A j \in 1 .. Len(given) : given[j].id => Len(given) <= j
      BY <1>0, <2>3 DEF NoMatchIn
    <3>3. IsFirstMatch(port)'
      BY <1>0, <2>1, <2>3, <2>4, <3>1, <3>2 DEF IsFirstMatch
    <3> QED BY <2>1, <2>2, <2>3, <3>1, <3>3 DEF LookupInv
  <2>5. CASE ~entry.id
    <3>1. port' = port /\ reader' = "range"
      BY <1>5, <2>5 DEF LookAtEntry
    <3>2. NoMatchIn(Len(given))
      BY <1>0, <2>3, <2>5 DEF NoMatchIn
    <3>3. NoMatchIn(Len(given))'
      BY <2>1, <3>2 DEF NoMatchIn
    <3> QED BY <2>1, <2>2, <2>3, <3>1, <3>3 DEF LookupInv
  <2> QED BY <2>4, <2>5
<1>6. CASE EntriesClosed
  <2>1. /\ UNCHANGED <<lookup, entry, port, answer, given>>
        /\ reader = "range" /\ reader' = "returned"
    BY <1>6 DEF EntriesClosed
  <2>2. MDNSTypeOK'
    BY <1>0, <1>6 DEF EntriesClosed, MDNSTypeOK
  <2>3. port = NoPort /\ lookup \notin {"start", "found"}
    BY <2>1 DEF LookupInv
  <2> QED BY <2>1, <2>2, <2>3 DEF LookupInv
<1>7. CASE Message \/ Goodbye \/ QueryFails \/ BrowserEnds
  <2>1. UNCHANGED <<lookup, reader, entry, port, answer, given>>
    BY <1>7, Zenon DEF Message, Goodbye, QueryFails, BrowserEnds
  <2>2. MDNSTypeOK'
    <3>1. CASE Message
      <4>1. PICK S \in SUBSET Replicas, ids \in SUBSET Matching : pending' = Said(S \ sent, ids)
        BY <3>1, Zenon DEF Message
      <4>2. ASSUME NEW e \in pending'
            PROVE  \E r \in S \ sent : e = [of |-> r, id |-> r \in ids]
        BY <4>1, <4>2, Zenon DEF Said
      <4>3. ASSUME NEW e \in pending'
            PROVE  /\ e \in Entries /\ e.of \notin sent /\ e = [of |-> e.of, id |-> e.of \in ids]
        <5>1. PICK r \in S \ sent : e = [of |-> r, id |-> r \in ids]
          BY <4>2, <4>3
        <5>2. r \in Replicas /\ r \notin sent /\ (r \in ids => r \in Matching)
          BY <5>1
        <5>3. e.of = r /\ e.id = (r \in ids) /\ (r \in ids) \in BOOLEAN
          BY <5>1
        <5>4. e \in [of : Replicas, id : BOOLEAN]
          BY <5>1, <5>2
        <5> QED BY <5>1, <5>2, <5>3, <5>4, Zenon DEF Entries
      <4>4. /\ pending' \subseteq Entries
            /\ \A e \in pending' : e.of \notin sent /\ \A f \in pending' : e.of = f.of => e = f
        <5>1. ASSUME NEW e \in pending', NEW f \in pending', e.of = f.of PROVE e = f
          BY <4>3, <5>1, Zenon
        <5> QED BY <4>3, <5>1, Zenon
      <4> QED BY <1>0, <3>1, <4>4, Zenon DEF Message, MDNSTypeOK
    <3>2. CASE Goodbye \/ QueryFails \/ BrowserEnds
      BY <1>0, <3>2, Zenon DEF Goodbye, QueryFails, BrowserEnds, MDNSTypeOK
    <3> QED BY <1>7, <3>1, <3>2
  <2> QED BY <1>1, <2>1, <2>2, Zenon DEF LookupInv
<1>8. CASE PassOn
  <2>1. PICK e \in pending : /\ entry' = e /\ given' = Append(given, e)
                             /\ pending' = pending \ {e} /\ sent' = sent \cup {e.of}
    BY <1>8 DEF PassOn
  <2>2. /\ reader = "range" /\ reader' = "entry"
        /\ UNCHANGED <<lookup, port, answer, timedOut, cancelled, browser>>
    BY <1>8 DEF PassOn
  <2>3. /\ e \in Entries /\ e.of \in Replicas
        /\ port = NoPort /\ lookup \notin {"start", "found"} /\ NoMatchIn(Len(given))
    BY <1>0, <2>2 DEF LookupInv, MDNSTypeOK, Entries
  <2>4. /\ given' \in Seq(Entries) /\ Len(given') = Len(given) + 1
        /\ given'[Len(given')] = e /\ \A j \in 1 .. Len(given) : given'[j] = given[j]
    BY <1>0, <2>1, <2>3
  <2>5. MDNSTypeOK'
    BY <1>0, <2>1, <2>2, <2>3, <2>4 DEF MDNSTypeOK
  <2>6. Len(given') - 1 = Len(given) /\ given' # <<>>
    BY <1>0, <2>4
  <2>7. NoMatchIn(Len(given) - 1)'
    BY <2>3, <2>4, <2>6 DEF NoMatchIn
  <2> QED BY <2>1, <2>2, <2>3, <2>4, <2>5, <2>6, <2>7, Zenon DEF LookupInv
<1> QED
  BY <1>2, <1>3, <1>4, <1>5, <1>6, <1>7, <1>8 DEF MDNSNext, ReaderStep

LEMMA LookupInvHolds == MDNSSpec => []LookupInv
<1>1. MDNSInit => LookupInv
  <2> SUFFICES ASSUME MDNSInit PROVE LookupInv
    OBVIOUS
  <2>1. given \in Seq(Entries) /\ Len(given) = 0
    BY DEF MDNSInit
  <2>2. MDNSTypeOK
    BY <2>1, Zenon DEF MDNSInit, MDNSTypeOK
  <2> QED BY <2>1, <2>2 DEF MDNSInit, LookupInv, NoMatchIn
<1> QED BY <1>1, LookupKeeps, PTL DEF MDNSSpec

\* Every variable of the lookup keeps its type: the browser has nothing to pass
\* on that it remembers to have passed on.
THEOREM MDNSTypes == MDNSSpec => []MDNSTypeOK
BY LookupInvHolds, PTL DEF LookupInv

\* The port a lookup returns is that of the first entry that carried the id,
\* whatever the goroutine and the browser do while it is read.
THEOREM MDNSAnswerIsFirstMatch == MDNSSpec => []AnswerIsFirstMatch
<1>1. LookupInv => AnswerIsFirstMatch
  <2> SUFFICES ASSUME LookupInv, lookup = "found" PROVE AnswerIsFirstMatch
    BY DEF AnswerIsFirstMatch
  <2>1. DOMAIN given = 1 .. Len(given)
    BY DEF LookupInv, MDNSTypeOK
  <2>2. IsFirstMatch(answer)
    BY DEF LookupInv
  <2> QED BY <2>1, <2>2 DEF IsFirstMatch, AnswerIsFirstMatch
<1> QED BY <1>1, LookupInvHolds, PTL

\* The browser runs at most once, and the goroutine leaves it running only with a
\* match.
BrowserInv ==
  /\ lookup \in {"start", "browse"} => browser = "none"
  /\ reader = "returned" => browser = "ended" \/ port # NoPort

\* What BrowserEndsUnlessMatched rests on: the goroutine never leaves a browser that
\* is still running unless it has found the service.
THEOREM MDNSOnlyAMatchLeavesTheBrowser ==
  MDNSSpec => [](browser = "run" /\ reader = "returned" => port # NoPort)
<1>1. MDNSInit => BrowserInv
  BY DEF MDNSInit, BrowserInv
<1>2. LookupInv /\ BrowserInv /\ [MDNSNext]_mdnsVars => BrowserInv'
  <2> SUFFICES ASSUME LookupInv, BrowserInv, [MDNSNext]_mdnsVars PROVE BrowserInv'
    OBVIOUS
  <2>1. CASE LookupPortMDNS \/ LookupStep
    BY <2>1, Zenon DEF LookupPortMDNS, LookupStep, Browse, Timeout, ReturnPort, BrowserInv
  <2>2. CASE LookAtEntry
    <3>1. entry.id => entry.of # NoPort
      <4>1. reader = "entry"
        BY <2>2 DEF LookAtEntry
      <4>2. Len(given) \in 1 .. Len(given) /\ entry = given[Len(given)] /\ given \in Seq(Entries)
        BY <4>1 DEF LookupInv, MDNSTypeOK
      <4>3. entry \in Entries
        BY <4>2
      <4> QED BY <4>3, MDNSAssumption DEF Entries
    <3> QED BY <2>2, <3>1 DEF LookAtEntry, BrowserInv
  <2>3. CASE EntriesClosed \/ Message \/ Goodbye \/ PassOn \/ QueryFails \/ BrowserEnds
    BY <2>3, Zenon DEF EntriesClosed, Message, Goodbye, PassOn, QueryFails, BrowserEnds, BrowserInv
  <2>4. CASE UNCHANGED mdnsVars
    BY <2>4 DEF mdnsVars, BrowserInv
  <2> QED BY <2>1, <2>2, <2>3, <2>4 DEF MDNSNext, ReaderStep
<1>3. BrowserInv => (browser = "run" /\ reader = "returned" => port # NoPort)
  BY DEF BrowserInv
<1> QED BY <1>1, <1>2, <1>3, LookupInvHolds, PTL DEF MDNSSpec

=============================================================================
