--------------------------- MODULE PushedReaders ----------------------------
(***************************************************************************)
(* The components to which a broker pushes messages that are never         *)
(* acknowledged: pub/sub on NATS (src/pubsub/nats/nats.go) and the         *)
(* bindings for RabbitMQ (src/bindings/rabbitmq/rabbitmq.go) and MQTT      *)
(* (src/bindings/mqtt/mqtt.go).                                            *)
(*                                                                         *)
(* An instance is a process with one connection, which it writes and reads *)
(* with.  A behaviour is about one component; a profile holds what         *)
(* distinguishes it.  Brokers and client libraries are modelled by what    *)
(* they do to the component: they buffer, route, reconnect and close.      *)
(***************************************************************************)
EXTENDS Naturals

CONSTANTS
  Components,   \* the components to look at
  Instances,    \* processes
  Writers,      \* those that write; all may read
  Messages,     \* the messages of Write or Publish calls
  None,         \* no message
  Group,        \* the group that the instances of NATS and RabbitMQ form
  Metadata,     \* the metadata an instance may be configured with
  MaxFaults     \* bound on faults, for model checking

\* What the three parsers tell apart: whether there is an address and a name
\* of a topic or group, and whether all values can be parsed.
MetadataRecords == [address : BOOLEAN, name : BOOLEAN, wellFormed : BOOLEAN]

ASSUME ConstantsAssumption ==
  /\ Metadata \subseteq MetadataRecords /\ Writers \subseteq Instances
  /\ Components \subseteq {"nats", "rabbitmq", "mqtt"}
  /\ None \notin Messages \cup Instances /\ Group \notin Instances /\ MaxFaults \in Nat

VARIABLES
  comp,     \* the component
  queue,    \* messages the broker keeps
  conn,     \* per instance: the connection
  sub,      \* per instance: the subscription, asked for or in place
  outbuf,   \* per instance: messages the client library has still to send
  inbox,    \* per instance: messages the client library has received
  run,      \* per instance: Init and Read or Subscribe
  hang,     \* per instance: the messages of Writes about to disconnect
  busy,     \* per instance: the message its handler works on
  doomed,   \* per instance: an Ack the broker does not expect is on its way
  wr,       \* per message: state of the Write
  faults,   \* number of faults
  \* History.
  accepted, \* per instance: its RabbitMQ handler has accepted a message on this channel
  by,       \* per message: the MQTT instance that wrote it, while it runs
  handed    \* per instance and message: times the handler was given it

netVars == <<queue, conn, sub, outbuf, inbox>>
procVars == <<run, hang, busy, doomed, accepted>>
histVars == <<faults, by, handed>>
vars == <<comp, queue, conn, sub, outbuf, inbox, run, hang, busy, doomed, wr, faults,
          accepted, by, handed>>

\* keeps: the broker keeps a message until a reader is there.
\* shared: a message goes to one reader, else to all of them.
\* reconnects: the client library connects again; resubscribes: and subscribes.
\* acks: the handler's success is acknowledged, of messages that were
\* acknowledged when they were sent (Consume with autoAck).
Profile(c) ==
  [keeps        |-> c = "rabbitmq",
   shared       |-> c # "mqtt",
   reconnects   |-> c # "rabbitmq",
   resubscribes |-> c = "nats",
   acks         |-> c = "rabbitmq"]

P == Profile(comp)

\* "lost": MQTT's client has found its connection broken and has yet to say
\* so; "gap": the client reconnects; "undone": so it does, or soon will, after
\* a Disconnect that came in between.
Connections == {"none", "up", "lost", "gap", "undone", "closed"}

TypeOK ==
  /\ comp \in Components
  /\ queue \subseteq Messages
  /\ conn \in [Instances -> Connections]
  /\ sub \in [Instances -> {"no", "asked", "yes", "deaf"}]
  /\ outbuf \in [Instances -> SUBSET Messages]
  /\ inbox \in [Instances -> SUBSET Messages]
  /\ run \in [Instances -> {"new", "ready", "reading", "returned", "failed", "panicked"}]
  /\ hang \in [Instances -> SUBSET Messages]
  /\ busy \in [Instances -> Messages \cup {None}]
  /\ doomed \in [Instances -> BOOLEAN]
  /\ accepted \in [Instances -> BOOLEAN]
  /\ wr \in [Messages -> {"idle", "sending", "ok", "err"}]
  /\ faults \in Nat
  /\ by \in [Messages -> Instances \cup {None}]
  /\ handed \in [Instances -> [Messages -> Nat]]

Init ==
  /\ comp \in Components
  /\ queue = {}
  /\ conn = [i \in Instances |-> "none"] /\ sub = [i \in Instances |-> "no"]
  /\ outbuf = [i \in Instances |-> {}] /\ inbox = [i \in Instances |-> {}]
  /\ run = [i \in Instances |-> "new"]
  /\ hang = [i \in Instances |-> {}] /\ busy = [i \in Instances |-> None]
  /\ doomed = [i \in Instances |-> FALSE] /\ accepted = [i \in Instances |-> FALSE]
  /\ wr = [m \in Messages |-> "idle"]
  /\ faults = 0
  /\ by = [m \in Messages |-> None]
  /\ handed = [i \in Instances |-> [m \in Messages |-> 0]]

-----------------------------------------------------------------------------
\* Init.

parseNATSMetadata(md) == md.address /\ md.name

getRabbitMQMetadata(md) == md.wellFormed

getMQTTMetadata(md) == md.wellFormed /\ md.address /\ md.name

\* The broker is reached, if it was tried, or it is not.
Connect(i, tried) ==
  \/ /\ tried
     /\ run' = [run EXCEPT ![i] = "ready"] /\ conn' = [conn EXCEPT ![i] = "up"]
  \/ run' = [run EXCEPT ![i] = "failed"] /\ UNCHANGED conn

InitUnchanged ==
  UNCHANGED <<comp, queue, sub, outbuf, inbox, hang, busy, doomed, accepted, wr, faults,
              by, handed>>

InitNATS(i) ==
  /\ comp = "nats" /\ run[i] = "new"
  /\ \E md \in Metadata : Connect(i, parseNATSMetadata(md))
  /\ InitUnchanged

InitRabbitMQ(i) ==
  /\ comp = "rabbitmq" /\ run[i] = "new"
  /\ \E md \in Metadata : Connect(i, getRabbitMQMetadata(md))
  /\ InitUnchanged

InitMQTT(i) ==
  /\ comp = "mqtt" /\ run[i] = "new"
  /\ \E md \in Metadata : Connect(i, getMQTTMetadata(md))
  /\ InitUnchanged

-----------------------------------------------------------------------------
\* Publish and Write.

Running(i) == run[i] \in {"ready", "reading", "returned"}

CanWrite(i) == i \in Writers /\ Running(i)

\* The client library takes the message, or returns an error.
Takes(i, m) ==
  /\ outbuf' = [outbuf EXCEPT ![i] = @ \cup {m}]
  /\ wr' = [wr EXCEPT ![m] = "ok"]

Fails(m) == wr' = [wr EXCEPT ![m] = "err"] /\ UNCHANGED outbuf

\* NATS takes messages while it reconnects, until its buffer is full.
PublishNATS(i, m) ==
  /\ comp = "nats" /\ CanWrite(i) /\ wr[m] = "idle"
  /\ \/ conn[i] \in {"up", "gap"} /\ Takes(i, m)
     \/ conn[i] \in {"gap", "closed"} /\ Fails(m)
  /\ UNCHANGED <<comp, queue, conn, sub, inbox, procVars, histVars>>

\* QueueDeclare needs an open channel; Publish is not confirmed.
WriteRabbitMQ(i, m) ==
  /\ comp = "rabbitmq" /\ CanWrite(i) /\ wr[m] = "idle"
  /\ IF conn[i] = "up" THEN Takes(i, m) ELSE Fails(m)
  /\ UNCHANGED <<comp, queue, conn, sub, inbox, procVars, histVars>>

\* The message is published with quality of service 0: the library takes it if
\* it is connected, and else drops it; the token that says so is not looked at.
WriteMQTT(i, m) ==
  /\ comp = "mqtt" /\ CanWrite(i) /\ wr[m] = "idle"
  /\ by' = [by EXCEPT ![m] = i]
  /\ hang' = [hang EXCEPT ![i] = @ \cup {m}]
  /\ wr' = [wr EXCEPT ![m] = "sending"]
  /\ outbuf' = IF conn[i] \in {"up", "lost"} THEN [outbuf EXCEPT ![i] = @ \cup {m}]
                                              ELSE outbuf
  /\ UNCHANGED <<comp, queue, conn, sub, inbox, run, busy, doomed, accepted, faults, handed>>

\* Mutant: the client stays connected.
HangUpNot(i) == UNCHANGED <<conn, sub, outbuf, inbox>>

\* Disconnect(0) need not wait for the message to be sent, nor for those
\* received to be handled.  It stops the router, so that the client is deaf
\* from then on.  The status it sets is overwritten, and what is to be sent
\* kept, if the client has looked at the status before, to say that it
\* reconnects or that it has.
HangUp(i) ==
  /\ \/ /\ conn[i] \notin {"lost", "undone"}
        /\ conn' = [conn EXCEPT ![i] = "closed"]
        /\ outbuf' = [outbuf EXCEPT ![i] = {}]
     \/ /\ conn[i] \in {"lost", "gap", "undone"}
        /\ conn' = [conn EXCEPT ![i] = "undone"]
        /\ UNCHANGED outbuf
  /\ sub' = [sub EXCEPT ![i] = "deaf"]
  /\ \E kept \in SUBSET inbox[i] : inbox' = [inbox EXCEPT ![i] = kept]

\* Write then disconnects and returns nil.
Disconnect(i, m) ==
  /\ m \in hang[i]
  /\ wr' = [wr EXCEPT ![m] = "ok"]
  /\ hang' = [hang EXCEPT ![i] = @ \ {m}]
  /\ HangUp(i)
  /\ UNCHANGED <<comp, queue, run, busy, doomed, accepted, histVars>>

-----------------------------------------------------------------------------
\* The broker.

Hearers == {i \in Instances : conn[i] = "up" /\ sub[i] = "yes"}

\* The readers a message goes to: one of them, or all.
Routes ==
  IF P.shared /\ Hearers # {} THEN {{j} : j \in Hearers} ELSE {Hearers}

\* A message reaches the broker, which keeps it or hands it on at once.  (The
\* library of NATS drops what comes when 65536 messages wait for a handler;
\* there are fewer Messages than that here.)
Flush(i, m) ==
  /\ conn[i] = "up" /\ m \in outbuf[i]
  /\ outbuf' = [outbuf EXCEPT ![i] = @ \ {m}]
  /\ IF P.keeps
     THEN queue' = queue \cup {m} /\ UNCHANGED inbox
     ELSE /\ \E R \in Routes :
               inbox' = [j \in Instances |-> IF j \in R THEN inbox[j] \cup {m} ELSE inbox[j]]
          /\ UNCHANGED queue
  /\ UNCHANGED <<comp, conn, sub, procVars, wr, histVars>>

\* Mutant: the reader consumes without autoAck, and nothing acknowledges.
AfterSending(m) == queue

\* Consume with autoAck: a message is settled when it is sent.
AutoAck(m) == queue \ {m}

\* A message that was kept is sent to a reader.
Deliver(i, m) ==
  /\ i \in Hearers /\ m \in queue
  /\ queue' = AutoAck(m)
  /\ inbox' = [inbox EXCEPT ![i] = @ \cup {m}]
  /\ UNCHANGED <<comp, conn, sub, outbuf, procVars, wr, histVars>>

-----------------------------------------------------------------------------
\* Read and Subscribe.

readUnchanged ==
  <<comp, queue, conn, outbuf, inbox, hang, busy, doomed, accepted, wr, histVars>>

\* QueueSubscribe on a closed connection has no subscription to return; the
\* error is logged and the subscription used.
SubscribeNATS(i) ==
  /\ comp = "nats" /\ run[i] = "ready"
  /\ \/ /\ conn[i] # "closed"
        /\ run' = [run EXCEPT ![i] = "reading"]
        /\ sub' = [sub EXCEPT ![i] = "asked"]
     \/ /\ conn[i] = "closed"
        /\ run' = [run EXCEPT ![i] = "panicked"]
        /\ UNCHANGED sub
  /\ UNCHANGED readUnchanged

\* (A channel that is open may also be closed by the declaration: see below.)
ReadRabbitMQ(i) ==
  /\ comp = "rabbitmq" /\ run[i] = "ready"
  /\ \/ /\ conn[i] # "closed"
        /\ run' = [run EXCEPT ![i] = "reading"]
        /\ sub' = [sub EXCEPT ![i] = "yes"]
     \/ /\ conn[i] = "closed"
        /\ run' = [run EXCEPT ![i] = "returned"]
        /\ UNCHANGED sub
  /\ UNCHANGED readUnchanged

\* The token that Subscribe returns, with its error, is not looked at.
ReadMQTT(i) ==
  /\ comp = "mqtt" /\ run[i] = "ready"
  /\ run' = [run EXCEPT ![i] = "reading"]
  /\ sub' = [sub EXCEPT ![i] = IF conn[i] = "closed" \/ @ = "deaf" THEN @ ELSE "asked"]
  /\ UNCHANGED readUnchanged

Subscribed(i) ==
  /\ sub[i] = "asked" /\ conn[i] = "up"
  /\ sub' = [sub EXCEPT ![i] = "yes"]
  /\ UNCHANGED <<comp, queue, conn, outbuf, inbox, procVars, wr, histVars>>

\* A signal ends Read of MQTT, not the subscription.
Signal(i) ==
  /\ comp = "mqtt" /\ run[i] = "reading"
  /\ run' = [run EXCEPT ![i] = "returned"]
  /\ UNCHANGED <<comp, netVars, hang, busy, doomed, accepted, wr, histVars>>

\* Messages are handed to the handler one at a time.
Handle(i, m) ==
  /\ Running(i) /\ busy[i] = None /\ m \in inbox[i]
  /\ inbox' = [inbox EXCEPT ![i] = @ \ {m}]
  /\ busy' = [busy EXCEPT ![i] = m]
  /\ handed' = [handed EXCEPT ![i][m] = @ + 1]
  /\ UNCHANGED <<comp, queue, conn, sub, outbuf, run, hang, doomed, accepted, wr, faults, by>>

\* Mutant: nothing is acknowledged.
AckNot(i) == UNCHANGED doomed

\* Ack of a delivery that was settled when it was sent: its tag is unknown to
\* the broker, which will close the channel.
Ack(i) == doomed' = [doomed EXCEPT ![i] = TRUE]

\* Mutant: the goroutine that calls the handler ends with the first message.
HandlerReturnedEnds(i) ==
  /\ P.acks /\ busy[i] # None
  /\ busy' = [busy EXCEPT ![i] = None]
  /\ UNCHANGED <<comp, netVars, run, hang, doomed, accepted, wr, histVars>>

\* The handler returns.  Its result is dropped, except that RabbitMQ
\* acknowledges when it is nil.
HandlerReturned(i) ==
  /\ busy[i] # None
  /\ busy' = [busy EXCEPT ![i] = None]
  /\ \/ UNCHANGED <<doomed, accepted>>
     \/ /\ P.acks /\ conn[i] = "up"
        /\ Ack(i)
        /\ accepted' = [accepted EXCEPT ![i] = TRUE]
  /\ UNCHANGED <<comp, netVars, run, hang, wr, histVars>>

\* With its last reader a queue is deleted, if it was declared with
\* DeleteWhenUnused.
ReaderGone(i) ==
  queue' \in {queue} \cup (IF Hearers = {i} THEN {{}} ELSE {})

\* A closed channel takes along what it has received and not handed on; only a
\* handler that is free may be given some of it still.  Then the loop over the
\* deliveries ends, and Read stays where it is.
CloseChannel(i) ==
  /\ ReaderGone(i)
  /\ conn' = [conn EXCEPT ![i] = "closed"]
  /\ sub' = [sub EXCEPT ![i] = "no"]
  /\ outbuf' = [outbuf EXCEPT ![i] = {}]
  /\ \E kept \in SUBSET inbox[i] :
       /\ busy[i] # None => kept = {}
       /\ inbox' = [inbox EXCEPT ![i] = kept]
  /\ doomed' = [doomed EXCEPT ![i] = FALSE]
  /\ accepted' = [accepted EXCEPT ![i] = FALSE]
  /\ UNCHANGED <<comp, hang, busy, by, handed>>

AckRefused(i) ==
  /\ doomed[i] /\ conn[i] = "up"
  /\ CloseChannel(i)
  /\ UNCHANGED <<run, wr, faults>>

-----------------------------------------------------------------------------
\* Faults.

Fault == faults < MaxFaults /\ faults' = faults + 1

\* Mutant: the subscription does not survive.
AfterLossNone(s) == "no"

\* NATS will subscribe again; MQTT will not.
AfterLoss(s) == IF s # "yes" THEN s ELSE IF P.resubscribes THEN "asked" ELSE "no"

\* The connection fails and the library connects again.  What it had still to
\* send may be lost.  MQTT's client first waits for its goroutines to end.
ConnectionLost(i) ==
  /\ conn[i] = "up" /\ P.reconnects
  /\ Fault
  /\ conn' = [conn EXCEPT ![i] = IF comp = "mqtt" THEN "lost" ELSE "gap"]
  /\ sub' = [sub EXCEPT ![i] = AfterLoss(@)]
  /\ \E kept \in SUBSET outbuf[i] : outbuf' = [outbuf EXCEPT ![i] = kept]
  /\ UNCHANGED <<comp, queue, inbox, procVars, wr, by, handed>>

\* MQTT's client says that it reconnects.  It may also have said, after a
\* Disconnect has closed the new connection, that it is connected.
Reconnecting(i) ==
  /\ \/ conn[i] \in {"lost", "undone"} /\ conn' = [conn EXCEPT ![i] = "gap"]
     \/ conn[i] = "undone" /\ conn' = [conn EXCEPT ![i] = "lost"]
  /\ UNCHANGED <<comp, queue, sub, outbuf, inbox, procVars, wr, histVars>>

Reconnect(i) ==
  /\ conn[i] = "gap"
  /\ conn' = [conn EXCEPT ![i] = "up"]
  /\ UNCHANGED <<comp, queue, sub, outbuf, inbox, procVars, wr, histVars>>

\* RabbitMQ's connection fails, and is not made again.
ConnectionClosed(i) ==
  /\ conn[i] = "up" /\ ~P.reconnects
  /\ Fault
  /\ CloseChannel(i)
  /\ UNCHANGED <<run, wr>>

\* The broker refuses the QueueDeclare of a Read or a Write, of a queue that
\* there is with other properties, and closes the channel.
ReadRabbitMQRefused(i) ==
  /\ comp = "rabbitmq" /\ run[i] = "ready" /\ conn[i] = "up"
  /\ run' = [run EXCEPT ![i] = "returned"]
  /\ Fault
  /\ CloseChannel(i)
  /\ UNCHANGED wr

WriteRabbitMQRefused(i, m) ==
  /\ comp = "rabbitmq" /\ CanWrite(i) /\ wr[m] = "idle" /\ conn[i] = "up"
  /\ wr' = [wr EXCEPT ![m] = "err"]
  /\ Fault
  /\ CloseChannel(i)
  /\ UNCHANGED run

\* NATS stops after a number of attempts to connect again.
GiveUp(i) ==
  /\ comp = "nats" /\ conn[i] = "gap"
  /\ CloseChannel(i)
  /\ UNCHANGED <<run, wr, faults>>

\* The process ends and may be started again.
Crash(i) ==
  /\ run[i] # "new"
  /\ Fault
  /\ ReaderGone(i)
  /\ conn' = [conn EXCEPT ![i] = "none"] /\ sub' = [sub EXCEPT ![i] = "no"]
  /\ outbuf' = [outbuf EXCEPT ![i] = {}] /\ inbox' = [inbox EXCEPT ![i] = {}]
  /\ run' = [run EXCEPT ![i] = "new"]
  /\ hang' = [hang EXCEPT ![i] = {}] /\ busy' = [busy EXCEPT ![i] = None]
  /\ doomed' = [doomed EXCEPT ![i] = FALSE] /\ accepted' = [accepted EXCEPT ![i] = FALSE]
  /\ wr' = [m \in Messages |-> IF m \in hang[i] THEN "err" ELSE wr[m]]
  /\ by' = [m \in Messages |-> IF by[m] = i THEN None ELSE by[m]]
  /\ UNCHANGED <<comp, handed>>

-----------------------------------------------------------------------------
\* What goes on by itself, in the process and in the network.
ProcessStep(i) ==
  \/ HandlerReturned(i)
  \/ \E m \in Messages : Disconnect(i, m) \/ Handle(i, m)

NetworkStep(i) ==
  \/ Subscribed(i) \/ Reconnecting(i) \/ Reconnect(i) \/ AckRefused(i)
  \/ \E m \in Messages : Flush(i, m) \/ Deliver(i, m)

Next ==
  \E i \in Instances :
    \/ InitNATS(i) \/ InitRabbitMQ(i) \/ InitMQTT(i)
    \/ \E m \in Messages : PublishNATS(i, m) \/ WriteRabbitMQ(i, m) \/ WriteMQTT(i, m)
    \/ SubscribeNATS(i) \/ ReadRabbitMQ(i) \/ ReadMQTT(i) \/ Signal(i)
    \/ ProcessStep(i) \/ NetworkStep(i)
    \/ ConnectionLost(i) \/ ConnectionClosed(i) \/ GiveUp(i) \/ Crash(i)
    \/ ReadRabbitMQRefused(i) \/ \E m \in Messages : WriteRabbitMQRefused(i, m)

Spec == Init /\ [][Next]_vars

\* Goroutines go on; a connection that is up moves what it has to move, a
\* broker answers, and a client that reconnects succeeds or gives up.
FairSpec ==
  /\ Spec
  /\ \A i \in Instances : WF_vars(ProcessStep(i)) /\ WF_vars(NetworkStep(i))

-----------------------------------------------------------------------------
\* Properties.

\* A copy is a message for a group that shares it, or for one reader.
Copies == (Instances \cup {Group}) \X Messages

Readers(c) ==
  IF P.shared THEN IF c[1] = Group THEN Instances ELSE {}
              ELSE {c[1]} \cap Instances

Underway(c) ==
  \/ c[2] \in queue
  \/ \E i \in Instances : c[2] \in outbuf[i]
  \/ \E i \in Readers(c) : c[2] \in inbox[i]

Hands(c) == {i \in Readers(c) : handed[i][c[2]] > 0}

HandedTwice(c) ==
  \E i, j \in Hands(c) : i # j \/ handed[i][c[2]] > 1

Fate(c) ==
  IF Readers(c) = {} THEN "unsent"
  ELSE IF HandedTwice(c) THEN "again"
  ELSE IF Hands(c) # {} THEN "handed"
  ELSE IF Underway(c) THEN "underway"
  ELSE IF wr[c[2]] = "idle" THEN "unsent" ELSE "gone"

AMO == INSTANCE AtMostOnce WITH fate <- [c \in Copies |-> Fate(c)]

\* The components are at most once: over reconnections, closed channels and
\* crashes, a message that was handed to a handler, or is gone, is handed to
\* no handler of the group (RabbitMQ's Consume with autoAck, NATS's
\* QueueSubscribe) or of the reader (MQTT's Subscribe) again.
ImplementsAtMostOnce == AMO!Spec

\* The first Write of an MQTT binding ends its client for good: no later
\* message reaches the handler of its Read, and later Writes, which return
\* nil too, send nothing (Write disconnects the client it shares with Read).
\* If the Disconnect meets a connection that is lost, the client may connect
\* again and send; it is deaf all the same.
WriteEndsTheClient ==
  comp = "mqtt" =>
    \A m \in Messages : \A i \in Instances :
      wr[m] = "ok" /\ by[m] = i =>
        i \notin Hearers /\ (conn[i] = "closed" => outbuf[i] = {})

\* A RabbitMQ reader is cut off after the first message its handler accepts:
\* the Ack in Read, of a message that is acknowledged already, makes the broker
\* close the channel, while Read goes on waiting.
CutOffAfterAccept ==
  \A i \in Instances : accepted[i] ~> (conn[i] # "up" /\ i \notin Hearers)

\* Once nothing more fails, a NATS reader whose client does not give up is
\* subscribed: the subscription that Subscribe made survives reconnections, and
\* one made while the client reconnects takes effect.
SubscriptionSurvives ==
  \A i \in Instances :
    (comp = "nats" /\ faults = MaxFaults /\ run[i] = "reading")
      ~> (i \in Hearers \/ conn[i] = "closed")

\* Once nothing more fails, a message that a connected NATS client has taken
\* reaches a handler if a subscription is in place, also behind messages whose
\* handler returned an error, which Subscribe drops.  (As long as the reader
\* does not fall 65536 messages behind, where the library begins to drop.)
TakenIsHandled ==
  \A m \in Messages :
    (/\ comp = "nats" /\ faults = MaxFaults /\ Hearers # {}
     /\ \E i \in Instances : conn[i] = "up" /\ m \in outbuf[i])
      ~> (\E j \in Instances : handed[j][m] > 0)
=============================================================================
