---------------------------- MODULE RedisStreams ----------------------------
(***************************************************************************)
(* Pub/sub on Redis streams (src/pubsub/redis/redis.go): publishers and    *)
(* the instances of one application, subscribed to one topic.  All the     *)
(* instances read as the same consumer of the same group, both named by    *)
(* consumerID, so they share one pending list.                             *)
(*                                                                         *)
(* The client library sends a command again, up to MaxRetries times, when  *)
(* the connection fails before the reply (Init asks for three); the server *)
(* may execute a command whose reply is lost at any later time, or never.  *)
(* An instance may crash at any step and be started again.                 *)
(*                                                                         *)
(* The entries of the stream are known by their position, which orders     *)
(* them as their ids do.                                                   *)
(***************************************************************************)
EXTENDS Naturals, Sequences, FiniteSets

CONSTANTS
  Messages,     \* publish requests
  Instances,    \* instances of the subscribing application
  MaxRetries,   \* how often the client sends a command again
  MaxFaults     \* bound on crashes, lost reads and lost acknowledgements

ASSUME BoundsAssumption == MaxRetries \in Nat /\ MaxFaults \in Nat

VARIABLES
  \* The server.
  stream,     \* the messages of the entries
  group,      \* the consumer group: "none", "made", or "late" if it may still be made
  last,       \* the last entry delivered to the group
  pel,        \* the pending list: delivered and not acknowledged
  \* Commands whose reply was lost and that may still be executed.
  lateAdds,   \* per message: XADDs
  lateReads,  \* number of XREADGROUPs of new entries
  lateAcks,   \* entries with an XACK
  \* Publishers and instances.
  pub,        \* per message: state of the Publish call
  pc,         \* per instance: where its reader is
  start,      \* per instance: what it reads next, pending or new entries
  batch,      \* per instance: entries read and not dealt with yet
  tries,      \* per publisher and reader: times the command was lost
  faults,     \* crashes, lost reads and lost acknowledgements so far
  \* History.
  accepted,   \* entries a handler has returned nil for
  seen        \* per instance: entries its handler was given since it started

serverVars == <<stream, group, last, pel>>
lateVars == <<lateAdds, lateReads, lateAcks>>
vars == <<stream, group, last, pel, lateAdds, lateReads, lateAcks,
          pub, pc, start, batch, tries, faults, accepted, seen>>

Entries == 1 .. Len(stream)

\* Each attempt at a message stores at most one entry.
MaxEntries == Cardinality(Messages) * (MaxRetries + 1)

TypeOK ==
  /\ stream \in Seq(Messages)
  /\ group \in {"none", "late", "made"}
  /\ last \in 0 .. Len(stream)
  /\ pel \subseteq 1 .. last
  /\ lateAdds \in [Messages -> Nat]
  /\ lateReads \in Nat
  /\ lateAcks \subseteq accepted
  /\ pub \in [Messages -> {"idle", "sending", "ok", "err"}]
  /\ pc \in [Instances -> {"down", "create", "read", "handle", "ack", "dead"}]
  /\ start \in [Instances -> {"0", ">"}]
  /\ batch \in [Instances -> SUBSET (1 .. last)]
  /\ tries \in [Messages \cup Instances -> 0 .. MaxRetries]
  /\ faults \in 0 .. MaxFaults
  /\ accepted \subseteq 1 .. last
  /\ seen \in [Instances -> SUBSET (1 .. last)]

Init ==
  /\ stream = <<>> /\ group = "none" /\ last = 0 /\ pel = {}
  /\ lateAdds = [m \in Messages |-> 0] /\ lateReads = 0 /\ lateAcks = {}
  /\ pub = [m \in Messages |-> "idle"]
  /\ pc = [i \in Instances |-> "down"]
  /\ start = [i \in Instances |-> "0"]
  /\ batch = [i \in Instances |-> {}]
  /\ tries = [x \in Messages \cup Instances |-> 0]
  /\ faults = 0
  /\ accepted = {}
  /\ seen = [i \in Instances |-> {}]

\* One of the faults that MaxFaults bounds.
Fault == faults < MaxFaults /\ faults' = faults + 1

-----------------------------------------------------------------------------
\* Publish.

Publish(m) ==
  /\ pub[m] = "idle"
  /\ pub' = [pub EXCEPT ![m] = "sending"]
  /\ UNCHANGED <<serverVars, lateVars, pc, start, batch, tries, faults, accepted, seen>>

XAdd(m) ==
  /\ pub[m] = "sending"
  /\ stream' = Append(stream, m)
  /\ pub' = [pub EXCEPT ![m] = "ok"]
  /\ UNCHANGED <<group, last, pel, lateVars, pc, start, batch, tries, faults, accepted, seen>>

\* The reply is lost: XADD is sent again, or Publish returns an error.
XAddLost(m) ==
  /\ pub[m] = "sending"
  /\ lateAdds' = [lateAdds EXCEPT ![m] = @ + 1]
  /\ IF tries[m] < MaxRetries
     THEN tries' = [tries EXCEPT ![m] = @ + 1] /\ UNCHANGED pub
     ELSE pub' = [pub EXCEPT ![m] = "err"] /\ UNCHANGED tries
  /\ UNCHANGED <<serverVars, lateReads, lateAcks, pc, start, batch, faults, accepted, seen>>

LateXAdd(m) ==
  /\ lateAdds[m] > 0
  /\ lateAdds' = [lateAdds EXCEPT ![m] = @ - 1]
  /\ stream' = Append(stream, m)
  /\ UNCHANGED <<group, last, pel, lateReads, lateAcks, pub, pc, start, batch, tries,
                 faults, accepted, seen>>
-----------------------------------------------------------------------------
\* Subscribe.  An error of XGROUP CREATE, such as that the group exists or that
\* the connection failed, is logged, and the reader starts all the same.

Subscribe(i) ==
  /\ pc[i] = "down"
  /\ pc' = [pc EXCEPT ![i] = "create"]
  /\ UNCHANGED <<serverVars, lateVars, pub, start, batch, tries, faults, accepted, seen>>

\* Mutant: the pending entries are not read first.
BeginReadingNew(i) ==
  /\ pc[i] = "create"
  /\ pc' = [pc EXCEPT ![i] = "read"]
  /\ start' = [start EXCEPT ![i] = ">"]
  /\ tries' = [tries EXCEPT ![i] = 0]
  /\ UNCHANGED <<stream, pel, lateVars, pub, batch, faults, accepted, seen>>

BeginReading(i) ==
  /\ pc[i] = "create"
  /\ pc' = [pc EXCEPT ![i] = "read"]
  /\ start' = [start EXCEPT ![i] = "0"]
  /\ tries' = [tries EXCEPT ![i] = 0]
  /\ UNCHANGED <<stream, pel, lateVars, pub, batch, faults, accepted, seen>>

\* Mutant: the group starts at the end of the stream, "$" for "0".
GroupCreateAtEnd(i) ==
  /\ BeginReading(i)
  /\ group' = "made"
  /\ last' = IF group = "made" THEN last ELSE Len(stream)

GroupCreate(i) == BeginReading(i) /\ group' = "made" /\ UNCHANGED last

GroupCreateLost(i) ==
  /\ BeginReading(i)
  /\ group' = IF group = "made" THEN "made" ELSE "late"
  /\ UNCHANGED last

LateGroupCreate ==
  /\ group = "late" /\ group' = "made"
  /\ UNCHANGED <<stream, last, pel, lateVars, pub, pc, start, batch, tries, faults,
                 accepted, seen>>

-----------------------------------------------------------------------------
\* beginReadingFromStream.

\* The server hands all new entries to the group.
Delivered ==
  /\ last < Len(stream)
  /\ last' = Len(stream)
  /\ pel' = pel \cup (last + 1 .. Len(stream))

\* The first read: every entry of the pending list, whoever read it before.
ReadPending(i) ==
  /\ pc[i] = "read" /\ group = "made" /\ start[i] = "0"
  /\ batch' = [batch EXCEPT ![i] = pel]
  /\ pc' = [pc EXCEPT ![i] = "handle"]
  /\ UNCHANGED <<serverVars, lateVars, pub, start, tries, faults, accepted, seen>>

\* Mutant: entries are read with NOACK and never pending.
ReadNewNoAck(i) ==
  /\ pc[i] = "read" /\ group = "made" /\ start[i] = ">"
  /\ last < Len(stream)
  /\ last' = Len(stream)
  /\ batch' = [batch EXCEPT ![i] = last + 1 .. Len(stream)]
  /\ pc' = [pc EXCEPT ![i] = "handle"]
  /\ UNCHANGED <<stream, group, pel, lateVars, pub, start, tries, faults, accepted, seen>>

\* The reads after it: new entries, and the read blocks while there are none.
ReadNew(i) ==
  /\ pc[i] = "read" /\ group = "made" /\ start[i] = ">"
  /\ Delivered
  /\ batch' = [batch EXCEPT ![i] = last + 1 .. Len(stream)]
  /\ pc' = [pc EXCEPT ![i] = "handle"]
  /\ UNCHANGED <<stream, group, lateVars, pub, start, tries, faults, accepted, seen>>

\* Without a group the read is an error, which ends the reader for good.
ReadFails(i) ==
  /\ pc[i] = "read" /\ group # "made"
  /\ pc' = [pc EXCEPT ![i] = "dead"]
  /\ UNCHANGED <<serverVars, lateVars, pub, start, batch, tries, faults, accepted, seen>>

\* The reply is lost: the read is sent again, or its error ends the reader.
ReadLost(i) ==
  /\ pc[i] = "read"
  /\ Fault
  /\ lateReads' = IF start[i] = ">" THEN lateReads + 1 ELSE lateReads
  /\ IF tries[i] < MaxRetries
     THEN tries' = [tries EXCEPT ![i] = @ + 1] /\ UNCHANGED pc
     ELSE pc' = [pc EXCEPT ![i] = "dead"] /\ UNCHANGED tries
  /\ UNCHANGED <<serverVars, lateAdds, lateAcks, pub, start, batch, accepted, seen>>

LateRead ==
  /\ lateReads > 0 /\ group = "made"
  /\ Delivered
  /\ lateReads' = lateReads - 1
  /\ UNCHANGED <<stream, group, lateAdds, lateAcks, pub, pc, start, batch, tries,
                 faults, accepted, seen>>

-----------------------------------------------------------------------------
\* processStreams: the entries of the reply in their order.

First(S) == CHOOSE e \in S : \A d \in S : e <= d

\* The handler returns nil.
HandlerAccepts(i) ==
  /\ pc[i] = "handle" /\ batch[i] # {}
  /\ accepted' = accepted \cup {First(batch[i])}
  /\ seen' = [seen EXCEPT ![i] = @ \cup {First(batch[i])}]
  /\ pc' = [pc EXCEPT ![i] = "ack"]
  /\ UNCHANGED <<serverVars, lateVars, pub, start, batch, tries, faults>>

\* The handler returns an error: the entry stays pending.
HandlerFails(i) ==
  /\ pc[i] = "handle" /\ batch[i] # {}
  /\ seen' = [seen EXCEPT ![i] = @ \cup {First(batch[i])}]
  /\ batch' = [batch EXCEPT ![i] = @ \ {First(@)}]
  /\ UNCHANGED <<serverVars, lateVars, pub, pc, start, tries, faults, accepted>>

\* XACK; its result is not looked at, and sending it again changes nothing.
XAck(i) ==
  /\ pc[i] = "ack"
  /\ pel' = pel \ {First(batch[i])}
  /\ batch' = [batch EXCEPT ![i] = @ \ {First(@)}]
  /\ pc' = [pc EXCEPT ![i] = "handle"]
  /\ UNCHANGED <<stream, group, last, lateVars, pub, start, tries, faults, accepted, seen>>

XAckLost(i) ==
  /\ pc[i] = "ack"
  /\ Fault
  /\ lateAcks' = lateAcks \cup {First(batch[i])}
  /\ batch' = [batch EXCEPT ![i] = @ \ {First(@)}]
  /\ pc' = [pc EXCEPT ![i] = "handle"]
  /\ UNCHANGED <<serverVars, lateAdds, lateReads, pub, start, tries, accepted, seen>>

LateXAck(e) ==
  /\ e \in lateAcks
  /\ lateAcks' = lateAcks \ {e}
  /\ pel' = pel \ {e}
  /\ UNCHANGED <<stream, group, last, lateAdds, lateReads, pub, pc, start, batch, tries,
                 faults, accepted, seen>>

\* Mutant: the reader goes back to the pending entries.
ReadOnGoesBack(i) ==
  /\ pc[i] = "handle" /\ batch[i] = {}
  /\ pc' = [pc EXCEPT ![i] = "read"]
  /\ start' = [start EXCEPT ![i] = IF @ = "0" THEN ">" ELSE "0"]
  /\ tries' = [tries EXCEPT ![i] = 0]
  /\ UNCHANGED <<serverVars, lateVars, pub, batch, faults, accepted, seen>>

\* The reply is dealt with: on to the entries nobody has received.
ReadOn(i) ==
  /\ pc[i] = "handle" /\ batch[i] = {}
  /\ pc' = [pc EXCEPT ![i] = "read"]
  /\ start' = [start EXCEPT ![i] = ">"]
  /\ tries' = [tries EXCEPT ![i] = 0]
  /\ UNCHANGED <<serverVars, lateVars, pub, batch, faults, accepted, seen>>

Crash(i) ==
  /\ pc[i] # "down"
  /\ Fault
  /\ pc' = [pc EXCEPT ![i] = "down"]
  /\ batch' = [batch EXCEPT ![i] = {}]
  /\ seen' = [seen EXCEPT ![i] = {}]
  /\ UNCHANGED <<serverVars, lateVars, pub, start, tries, accepted>>
-----------------------------------------------------------------------------
PublisherStep(m) == XAdd(m) \/ XAddLost(m)

ReaderStep(i) ==
  \/ GroupCreate(i) \/ GroupCreateLost(i)
  \/ ReadPending(i) \/ ReadNew(i) \/ ReadFails(i)
  \/ HandlerAccepts(i) \/ HandlerFails(i)
  \/ XAck(i) \/ XAckLost(i) \/ ReadOn(i)

Next ==
  \/ \E m \in Messages : Publish(m) \/ PublisherStep(m) \/ LateXAdd(m)
  \/ \E i \in Instances : Subscribe(i) \/ ReaderStep(i) \/ ReadLost(i) \/ Crash(i)
  \/ LateGroupCreate \/ LateRead
  \/ \E e \in lateAcks : LateXAck(e)

Spec == Init /\ [][Next]_vars

\* A Publish, and a reader that is not blocked in a read, goes on.  A blocked
\* read need never lose its connection.
FairSpec ==
  /\ Spec
  /\ \A m \in Messages : WF_vars(PublisherStep(m))
  /\ \A i \in Instances : WF_vars(ReaderStep(i))

-----------------------------------------------------------------------------
\* The stream as the abstract queue sees it.

Status(e) == IF e > last THEN "queued" ELSE IF e \in pel THEN "delivered" ELSE "settled"

ALO == INSTANCE AtLeastOnce WITH status <- [e \in Entries |-> Status(e)]

\* The component is an at-least-once queue (Subscribe and processStreams):
\* whatever crashes or is lost, an entry leaves the pending list only after a
\* handler has returned nil for it.
ImplementsAtLeastOnce == ALO!Spec

\* No entry of the stream is lost: one that is neither new nor pending was
\* accepted by the handler of some instance (processStreams acknowledges only
\* when the handler returns nil).
SettledWasAccepted == ALO!SettledWasAccepted

\* A Publish that returned nil has stored its message, also when the client
\* had to send XADD more than once.
PublishIsReal ==
  \A m \in Messages : pub[m] = "ok" => \E e \in Entries : stream[e] = m

\* As long as it runs, a reader hands the entries to its handler in the order
\* of the stream and none twice: what it has still to handle comes after
\* everything it has handled (beginReadingFromStream turns to ">" for good).
HandledInOrder ==
  \A i \in Instances :
    \A e \in batch[i], d \in seen[i] : pc[i] = "handle" => d < e

\* "first read pending items in case of recovering from crash": an entry that
\* is pending when an instance subscribes reaches that instance's handler,
\* unless it is acknowledged in the meantime or the reader ends.
PendingIsRecovered ==
  \A i \in Instances : \A e \in 1 .. MaxEntries :
    (pc[i] = "create" /\ e \in pel) ~>
      (e \in seen[i] \/ e \notin pel \/ pc[i] \in {"down", "dead"})

\* A stored entry is delivered, those stored before the first subscription
\* included (the group is created at "0"), as long as a reader runs.
StoredIsDelivered ==
  \A i \in Instances : \A e \in 1 .. MaxEntries :
    (pc[i] = "create" /\ e \in Entries) ~>
      (e \in pel \cup accepted \/ pc[i] \in {"down", "dead"})

=============================================================================
