---------------------------- MODULE LockedQueues ----------------------------
(***************************************************************************)
(* The components whose broker locks a message while it is handled and     *)
(* takes it back unless it is settled: the Service Bus pub/sub component   *)
(* (src/pubsub/azureservicebus) and the bindings for Service Bus queues,   *)
(* SQS and GCP Pub/Sub (src/bindings).                                     *)
(*                                                                         *)
(* The actors are the Publish (or Write) calls, one for each message, and  *)
(* the readers, one for each instance that subscribes (or calls Read) and  *)
(* hands messages to its handler one by one.  A delivery has a number,     *)
(* which is the lock: settling a message works with the lock of its last   *)
(* delivery.  A command whose reply is lost may be executed later.  Lost   *)
(* replies, slow or failing handlers and crashes are faults, of which a    *)
(* behaviour has at most MaxFaults.                                        *)
(***************************************************************************)
EXTENDS Naturals, Sequences, FiniteSets

CONSTANTS
  Messages,      \* one Publish call each
  Instances,     \* readers
  Kinds,         \* the components looked at
  MaxDelivery,   \* deliveries after which Service Bus puts a message aside
  MaxOutstanding, \* unacknowledged messages with which GCP's client stops
  MaxFaults      \* bound: faults in a behaviour

ASSUME ConstantsAssumption ==
  /\ Kinds \subseteq {"topic", "unmanaged", "queue", "sqs", "gcp"}
  /\ Messages \cap Instances = {}
  /\ MaxDelivery \in Nat \ {0}
  /\ MaxOutstanding \in Nat \ {0}
  /\ MaxFaults \in Nat

VARIABLES
  which,      \* the component
  topic,      \* does the topic or queue exist?
  sub,        \* does the subscription exist?
  stored,     \* the messages the subscription was given, in order
  status,     \* per stored message, as in AtLeastOnce
  count,      \* per stored message: its deliveries so far
  pc,         \* where each actor is
  hand,       \* per reader: the message in hand and the lock on it
  unacked,    \* per reader: the messages GCP's client counts as outstanding
  late,       \* commands whose reply was lost and that may still be executed
  faults,     \* faults so far
  \* What follows is history, read by the properties only.
  accepted,   \* the messages a handler has returned nil for
  expected    \* messages whose Publish began when there was a subscription

serverVars == <<topic, sub, stored, status, count>>
vars == <<which, topic, sub, stored, status, count, pc, hand, unacked, late, faults,
          accepted, expected>>

Actors == Messages \cup Instances
Nothing == [entry |-> 0, lock |-> 0]
Hands == [entry : Nat, lock : Nat]

Commands ==
  [op : {"topic", "sub"}] \cup [op : {"send"}, msg : Messages]
  \cup [op : {"settle", "abandon"}, held : Hands]

Ensuring == {"getTopic", "putTopic", "getSub", "putSub"}
Reading == {"receive", "handle", "settle", "abandon"}

-----------------------------------------------------------------------------
\* What tells the components apart: whether topic and subscription are created
\* when they are missing, whether a message whose handler fails is abandoned or
\* left to its lock, whether a settlement that is not answered ends the reader, and
\* whether a failed receive does.

TopicProfile == [manages |-> TRUE, abandons |-> TRUE, strict |-> TRUE, ends |-> TRUE]

UnmanagedProfile == [TopicProfile EXCEPT !.manages = FALSE]

QueueProfile == [manages |-> FALSE, abandons |-> TRUE, strict |-> TRUE, ends |-> TRUE]

\* The result of DeleteMessage is ignored, and a failed receive is logged.
SQSProfile == [manages |-> FALSE, abandons |-> FALSE, strict |-> FALSE, ends |-> FALSE]

\* Ack has no result.
GCPProfile == [manages |-> FALSE, abandons |-> FALSE, strict |-> FALSE, ends |-> TRUE]

Profile ==
  [topic |-> TopicProfile, unmanaged |-> UnmanagedProfile, queue |-> QueueProfile,
   sqs |-> SQSProfile, gcp |-> GCPProfile][which]

\* A topic that nobody manages may lack its entities; a topic that is managed
\* starts without them; the other queues exist.
Init ==
  /\ which \in Kinds
  /\ topic \in BOOLEAN /\ sub \in {FALSE, topic}
  /\ which = "topic" => ~topic
  /\ which \notin {"topic", "unmanaged"} => sub
  /\ stored = <<>> /\ status = <<>> /\ count = <<>>
  /\ pc = [a \in Actors |-> IF a \in Messages THEN "idle" ELSE "down"]
  /\ hand = [i \in Instances |-> Nothing]
  /\ unacked = [i \in Instances |-> 0]
  /\ late = {} /\ faults = 0
  /\ accepted = {} /\ expected = {}

Goto(a, at) == pc' = [pc EXCEPT ![a] = at]

Fault == faults < MaxFaults /\ faults' = faults + 1

-----------------------------------------------------------------------------
\* The broker.

HasLock(h) == h.entry > 0 /\ status[h.entry] = "delivered" /\ count[h.entry] = h.lock

Is(e, s) == status' = [status EXCEPT ![e] = s]

\* A copy of the message goes to the subscription, if there is one.
Store(m) ==
  IF sub THEN /\ stored' = Append(stored, m)
              /\ status' = Append(status, "queued")
              /\ count' = Append(count, 0)
  ELSE UNCHANGED <<stored, status, count>>

\* A message is available again; Service Bus puts it aside after MaxDelivery.
Requeue(e) ==
  Is(e, IF Profile.strict /\ count[e] >= MaxDelivery THEN "buried" ELSE "queued")

\* Without its lock a message is not settled by Service Bus; it may or may not be
\* by the others.
CanSettle(h) == HasLock(h) \/ (~Profile.strict /\ status[h.entry] # "buried")
CanIgnore(h) == ~HasLock(h)

\* The lock of a message runs out.  That is a fault if its handler is at work.
LockExpires(e) ==
  /\ status[e] = "delivered"
  /\ Requeue(e)
  /\ IF \E i \in Instances : hand[i] = [entry |-> e, lock |-> count[e]]
     THEN Fault ELSE UNCHANGED faults
  /\ UNCHANGED <<which, topic, sub, stored, count, pc, hand, unacked, late, accepted, expected>>

LateExecuted(x) ==
  /\ x \in late
  /\ late' = late \ {x}
  /\ \/ x.op = "topic" /\ topic' = TRUE /\ UNCHANGED <<sub, stored, status, count>>
     \/ x.op = "sub" /\ sub' = topic /\ UNCHANGED <<topic, stored, status, count>>
     \/ x.op = "send" /\ Store(x.msg) /\ UNCHANGED <<topic, sub>>
     \/ /\ \/ x.op = "settle" /\ CanSettle(x.held) /\ Is(x.held.entry, "settled")
           \/ x.op = "abandon" /\ HasLock(x.held) /\ Requeue(x.held.entry)
        /\ UNCHANGED <<topic, sub, stored, count>>
  /\ UNCHANGED <<which, pc, hand, unacked, faults, accepted, expected>>

-----------------------------------------------------------------------------
\* ensureTopic and ensureSubscription.

Ensured(a) == IF a \in Messages THEN "send" ELSE "getSub"
Failed(a) == IF a \in Messages THEN "err" ELSE "failed"

GetTopic(a) ==
  /\ pc[a] = "getTopic"
  /\ Goto(a, IF topic THEN Ensured(a) ELSE "putTopic")
  /\ UNCHANGED <<which, serverVars, hand, unacked, late, faults, accepted, expected>>

\* A put of what exists already is a conflict, and an error.
PutTopic(a) ==
  /\ pc[a] = "putTopic"
  /\ Goto(a, IF topic THEN Failed(a) ELSE Ensured(a))
  /\ topic' = TRUE
  /\ UNCHANGED <<which, sub, stored, status, count, hand, unacked, late, faults, accepted,
                 expected>>

GetSub(i) ==
  /\ pc[i] = "getSub"
  /\ Goto(i, IF sub THEN "receive" ELSE "putSub")
  /\ UNCHANGED <<which, serverVars, hand, unacked, late, faults, accepted, expected>>

\* The options that let a subscription forget messages, or end when nobody reads
\* from it, are not set.
PutSub(i) ==
  /\ pc[i] = "putSub"
  /\ Goto(i, IF sub THEN "failed" ELSE "receive")
  /\ sub' = TRUE
  /\ UNCHANGED <<which, topic, stored, status, count, hand, unacked, late, faults, accepted,
                 expected>>

\* Mutant: an error of one of these requests is dropped.
EnsureLostGoesOn(a) ==
  /\ pc[a] \in Ensuring /\ Fault
  /\ Goto(a, IF a \in Messages THEN "send" ELSE "receive")
  /\ UNCHANGED <<which, serverVars, hand, unacked, late, accepted, expected>>

\* One of these requests fails, or its reply is lost.
EnsureLost(a) ==
  /\ pc[a] \in Ensuring /\ Fault
  /\ Goto(a, Failed(a))
  /\ late' = late \cup {c \in {[op |-> "topic"], [op |-> "sub"]} :
                          pc[a] = IF c.op = "topic" THEN "putTopic" ELSE "putSub"}
  /\ UNCHANGED <<which, serverVars, hand, unacked, accepted, expected>>
-----------------------------------------------------------------------------
\* Publish and Write.

Publish(m) ==
  /\ pc[m] = "idle"
  /\ Goto(m, IF Profile.manages THEN "getTopic" ELSE "send")
  /\ expected' = IF sub THEN expected \cup {m} ELSE expected
  /\ UNCHANGED <<which, serverVars, hand, unacked, late, faults, accepted>>

Send(m) ==
  /\ pc[m] = "send"
  /\ IF topic THEN Store(m) /\ Goto(m, "ok")
              ELSE Goto(m, "err") /\ UNCHANGED <<stored, status, count>>
  /\ UNCHANGED <<which, topic, sub, hand, unacked, late, faults, accepted, expected>>

\* The reply of a send is lost: the client sends again or gives up.
SendLost(m) ==
  /\ pc[m] = "send" /\ topic /\ Fault
  /\ late' = late \cup {[op |-> "send", msg |-> m]}
  /\ \E at \in {"send", "err"} : Goto(m, at)
  /\ UNCHANGED <<which, serverVars, hand, unacked, accepted, expected>>

-----------------------------------------------------------------------------
\* Subscribe and Read.

Subscribe(i) ==
  /\ pc[i] = "down"
  /\ Goto(i, IF Profile.manages THEN "getTopic" ELSE "receive")
  /\ UNCHANGED <<which, serverVars, hand, unacked, late, faults, accepted, expected>>

\* GCP's client gives back the place of a message when it is acknowledged, and
\* hands out no other when all places are taken.
Stopped(i) == which = "gcp" /\ unacked[i] >= MaxOutstanding

Receive(i, e) ==
  /\ pc[i] = "receive" /\ sub /\ status[e] = "queued" /\ ~Stopped(i)
  /\ Is(e, "delivered")
  /\ count' = [count EXCEPT ![e] = @ + 1]
  /\ hand' = [hand EXCEPT ![i] = [entry |-> e, lock |-> count[e] + 1]]
  /\ Goto(i, "handle")
  /\ UNCHANGED <<which, topic, sub, stored, unacked, late, faults, accepted, expected>>

\* There is nothing to receive from: no receiver can be made.
ReceiveFromNothing(i) ==
  /\ pc[i] = "receive" /\ ~sub
  /\ Goto(i, "ended")
  /\ UNCHANGED <<which, serverVars, hand, unacked, late, faults, accepted, expected>>

\* The connection fails and cannot be made again.  The loop of the Service Bus
\* component ends without a word to the caller of Subscribe; Read returns.
ReceiveFails(i) ==
  /\ pc[i] = "receive" /\ sub /\ Profile.ends /\ Fault
  /\ Goto(i, "ended")
  /\ UNCHANGED <<which, serverVars, hand, unacked, late, accepted, expected>>

HandlerAccepts(i) ==
  /\ pc[i] = "handle"
  /\ accepted' = accepted \cup {hand[i].entry}
  /\ Goto(i, "settle")
  /\ UNCHANGED <<which, serverVars, hand, unacked, late, faults, expected>>

\* Put down what is in hand.
Release(i, at) == Goto(i, at) /\ hand' = [hand EXCEPT ![i] = Nothing]

\* Mutant: the result of the handler is not looked at.
HandlerFailsSettles(i) ==
  /\ pc[i] = "handle" /\ Fault
  /\ Goto(i, "settle")
  /\ UNCHANGED <<which, serverVars, hand, unacked, late, accepted, expected>>

\* The callback of the GCP binding then neither acknowledges the message nor
\* refuses it, and its place is never given back.
HandlerFails(i) ==
  /\ pc[i] = "handle" /\ Fault
  /\ IF Profile.abandons THEN Goto(i, "abandon") /\ UNCHANGED hand
                         ELSE Release(i, "receive")
  /\ unacked' = IF which = "gcp" THEN [unacked EXCEPT ![i] = @ + 1] ELSE unacked
  /\ UNCHANGED <<which, serverVars, late, accepted, expected>>

\* Mutant: a reader waits until its settlement is taken.
SettleWithLock(i) ==
  /\ pc[i] = "settle" /\ HasLock(hand[i])
  /\ Is(hand[i].entry, "settled")
  /\ Release(i, "receive")
  /\ UNCHANGED <<which, topic, sub, stored, count, unacked, late, faults, accepted, expected>>

\* Complete, DeleteMessage or Ack.  A broker that no longer knows the lock answers
\* too, and the client reads no error from that answer: the reader goes on.
Settle(i) ==
  /\ pc[i] = "settle"
  /\ \/ CanSettle(hand[i]) /\ Is(hand[i].entry, "settled") /\ Release(i, "receive")
     \/ CanIgnore(hand[i]) /\ Release(i, "receive") /\ UNCHANGED status
  /\ UNCHANGED <<which, topic, sub, stored, count, unacked, late, faults, accepted, expected>>

Abandon(i) ==
  /\ pc[i] = "abandon"
  /\ IF HasLock(hand[i]) THEN Requeue(hand[i].entry) ELSE UNCHANGED status
  /\ Release(i, "receive")
  /\ UNCHANGED <<which, topic, sub, stored, count, unacked, late, faults, accepted, expected>>

\* The connection fails before the answer: Service Bus's Receive returns the error.
AfterFailure == IF Profile.strict THEN "ended" ELSE "receive"

SettlementLost(i) ==
  /\ pc[i] \in {"settle", "abandon"} /\ Fault
  /\ late' = late \cup {[op |-> pc[i], held |-> hand[i]]}
  /\ Release(i, AfterFailure)
  /\ UNCHANGED <<which, serverVars, unacked, accepted, expected>>

\* The process of an instance ends, and may be started again.
Crash(i) ==
  /\ pc[i] # "down" /\ Fault
  /\ Release(i, "down")
  /\ unacked' = [unacked EXCEPT ![i] = 0]
  /\ UNCHANGED <<which, serverVars, late, accepted, expected>>

-----------------------------------------------------------------------------
PublisherStep(m) == GetTopic(m) \/ PutTopic(m) \/ Send(m)

ReaderStep(i) ==
  \/ GetTopic(i) \/ PutTopic(i) \/ GetSub(i) \/ PutSub(i)
  \/ \E e \in DOMAIN status : Receive(i, e)
  \/ ReceiveFromNothing(i)
  \/ HandlerAccepts(i) \/ HandlerFails(i) \/ Settle(i) \/ Abandon(i)

Next ==
  \/ \E m \in Messages : Publish(m) \/ PublisherStep(m) \/ SendLost(m)
  \/ \E i \in Instances :
       Subscribe(i) \/ ReaderStep(i) \/ ReceiveFails(i) \/ SettlementLost(i) \/ Crash(i)
  \/ \E a \in Actors : EnsureLost(a)
  \/ \E e \in DOMAIN status : LockExpires(e)
  \/ \E x \in late : LateExecuted(x)

Spec == Init /\ [][Next]_vars

\* Requests are answered, handlers return, and the lock of a message that
\* nobody handles runs out.
FairSpec ==
  /\ Spec
  /\ \A m \in Messages : WF_vars(PublisherStep(m))
  /\ \A i \in Instances : WF_vars(ReaderStep(i))
  /\ WF_vars(\E e \in DOMAIN status : LockExpires(e) /\ UNCHANGED faults)

-----------------------------------------------------------------------------
\* Properties.

\* Every variable has its type, and a reader that handles or settles a message
\* holds one.
TypeOK ==
  /\ which \in Kinds /\ topic \in BOOLEAN /\ sub \in BOOLEAN
  /\ stored \in Seq(Messages)
  /\ status \in Seq({"queued", "delivered", "settled", "buried"})
  /\ count \in Seq(Nat)
  /\ Len(status) = Len(stored) /\ Len(count) = Len(stored)
  /\ pc \in [Actors -> {"idle", "down", "send", "ok", "err", "failed", "ended"}
                        \cup Ensuring \cup Reading]
  /\ hand \in [Instances -> Hands] /\ unacked \in [Instances -> Nat]
  /\ \A i \in Instances : hand[i] # Nothing <=> pc[i] \in {"handle", "settle", "abandon"}
  /\ late \subseteq Commands
  /\ faults \in 0 .. MaxFaults
  /\ accepted \subseteq DOMAIN stored
  /\ expected \subseteq Messages

ALO == INSTANCE AtLeastOnce

\* The components are at-least-once queues (getHandlerFunc of the Service Bus
\* component, Read of the bindings): whatever expires, crashes or is lost, a
\* message is settled only after a handler has returned nil for it.
ImplementsAtLeastOnce == ALO!Spec

\* A Publish that returns nil has stored its message, if there was a
\* subscription when it began.
PublishIsReal ==
  \A m \in expected : pc[m] = "ok" => \E e \in DOMAIN stored : stored[e] = m

\* A reader that Subscribe has started has a subscription to read from, although
\* several actors look for the entities and create them at the same time
\* (ensureSubscription).
SubscribedIsReal ==
  \A i \in Instances : Profile.manages /\ pc[i] \in Reading => topic /\ sub

Served(e) == e \in DOMAIN status /\ status[e] \in {"settled", "buried"}

\* A stored message is settled, or put aside after MaxDelivery, as long as a
\* reader is left that can take it: no message and no reader is stuck behind a
\* lock that was lost (getHandlerFunc and the callbacks of Read).  A reader of the
\* GCP binding whose handler has failed MaxOutstanding times takes nothing any
\* more, and the property does not count it.
StoredIsServed ==
  \A e \in 1 .. Cardinality(Messages) * (MaxFaults + 1) :
    (e \in DOMAIN status) ~>
      (Served(e) \/ \A i \in Instances : pc[i] \notin Reading \/ Stopped(i))

=============================================================================
