# A TLA+ model of components-contrib

The repository is a library of components for Dapr: state stores, pub/sub
brokers, input and output bindings, secret stores, service discovery and
exporters. A component is a Go type with a few methods; the runtime calls the
methods from many goroutines at once, and the component turns each call into
commands to a server. The components keep almost no state of their own. What can
go wrong is in the interplay: concurrent calls whose commands interleave at the
server, retries, replies that are lost after the command was executed, loops over
requests that stop half-way, processes that crash between receiving a message and
acknowledging it.

The models therefore consist of *calls* (or readers) that take one step per
command, and a *server* reduced to what the commands do. Data is abstracted: what
a call writes is the call itself, so that every value tells who wrote it.
Formatting, logging, JSON and the length of pauses are left out.

## Inventory

| part | source | module | status |
|---|---|---|---|
| request options, retry loop | `state/retry.go`, `state/requests.go` | `Retry` | modelled |
| state store interface | `state/store.go` and the other files of `state/` | `VersionedStore` | abstract specification; proofs in `VersionedStoreProofs` |
| Redis state store | `state/redis` | `RedisState` | modelled; proofs in `RedisStateProofs` |
| Redis output binding | `bindings/redis` | `RedisState` | modelled |
| ZooKeeper state store | `state/zookeeper` | `ZookeeperState` | modelled; proofs in `ZookeeperStateProofs` |
| MongoDB state store | `state/mongodb` | `MongoState` | modelled; proofs in `StoresProofs` |
| etcd, Consul, Memcached, Firestore, Cosmos DB, Cassandra stores | `state/*` | `PlainStores` | modelled; proofs in `StoresProofs` |
| pub/sub interface | `pubsub/pubsub.go` | `AtLeastOnce` | abstract specification |
| Redis Streams pub/sub | `pubsub/redis` | `RedisStreams` | modelled; proofs in `RedisStreamsProofs` |
| Service Bus pub/sub | `pubsub/azureservicebus` | `LockedQueues` | modelled; proofs in `LockedQueuesProofs` |
| Service Bus queue, SQS and GCP Pub/Sub bindings | `bindings/servicebusqueues`, `bindings/sqs`, `bindings/pubsub` | `LockedQueues` | modelled; same proofs |
| NATS pub/sub, RabbitMQ and MQTT bindings | `pubsub/nats`, `bindings/rabbitmq`, `bindings/mqtt` | `PushedReaders`, `AtMostOnce` | modelled; proofs in `ReadersProofs` |
| Kafka binding | `bindings/kafka` | `Kafka` | modelled; proofs in `KafkaProofs` |
| Event Hubs binding | `bindings/eventhubs` | `EventHubs` | modelled; proofs in `KafkaProofs` |
| Kubernetes events binding | `bindings/kubernetes` | `KubernetesEvents` | modelled; proofs in `ReadersProofs` |
| mDNS service discovery | `servicediscovery/mdns` | `MDNS` | modelled; proofs in `ReadersProofs` |
| Vault secret store | `secretstores/vault` | | not modelled: one request, no state between calls |
| one-request output bindings (blob storage, Cosmos DB, DynamoDB, GCP bucket, HTTP, S3, SNS) | `bindings/*` | | not modelled: one request, no state |
| Key Vault and Kubernetes secret stores, Kubernetes discovery, exporters | | | not modelled: one request, no state |
| cloud event envelope, interfaces | `pubsub/envelope.go`, ... | | not modelled: formatting, declarations |

`PROJECT.json` has the same list file by file, the source lines of every
definition, and the hazards of the code with the properties that cover them.

## The modules

**`Retry`** has no variables. It holds the keywords and types of the request
options, `CheckRequestOptions`, and the three decisions of `SetWithRetries` and
`DeleteWithRetries`: is the pattern known, is there a loop at all (threshold > 0),
is there another attempt. The store modules extend it and add the steps: an
attempt, `AttemptFailed`, and `Wake`, the end of the pause.

**`VersionedStore`** says what a store with ETags promises. A key is absent, holds
plain data or versioned data. A step writes, removes or replaces a set of keys
together; where a server may write one key several times in one step, `Batch` says how
often. A request that names a version is accepted on a versioned key only if
the version is the current one; it then is a member of `wins`, with the version its
caller has stated, not the one the store has sent. When a versioned key
is removed or replaced its counter is lost: its *era* ends. `FirstWriteWins` says
that of all commands that name one version of a key in one era, at most one takes
effect.

**`RedisState`** models every method of the Redis store with any number of concurrent
calls. Set is a BulkSet of one request, Delete a BulkDelete of one request. `db` is the
database (a key holds nothing, a string, a hash with a version, or a hash of another
program without one, which is an error of Get); `pc`, `kind`, `reqs`, `idx` and `att`
are the stack of each call; `orphans` are commands whose connection failed before the
reply: their caller sees an error, and the server executes them at any later time or
never. The Lua scripts are one atomic step each (`RunScript`); Get is HGETALL and, when
the key is no hash, a second command GET; a strong Set is followed by WAIT, whose reply
is a number. Multi is one MULTI/EXEC. The output binding writes with SET to the same
database. `era`, `wins`, `effects`, `faulted`, `short` and `window` are history and
guard no action.

**`ZookeeperState`** models the ZooKeeper store in the same style. Set is a set
command followed, if there is no node, by a create; Delete ignores a missing node;
BulkSet and BulkDelete are one ZooKeeper transaction, which may name a key several
times: each operation then meets what the ones before it have left. The client library
turns the first failing result of a transaction into the error of the call
(`FirstError`). The create carries no access control list, so a server that checks
these lists refuses it; `skipACL` is the server's setting not to. A value that cannot
be encoded ends a Set or BulkSet before it sends anything.
It is assumed that the prefix node exists, that keys contain no slash, and that ETags
which are numbers fit 32 bits.

**`MongoState`** models Multi on top of the vendored `WithTransaction`: the
operations run one by one on a snapshot, the commit succeeds, is unknown (applied
or not, and sent again), fails transiently (the operations run again) or is
rejected; a timer ends both loops. A transaction that has sent nothing is committed by
the client alone and cannot fail (`CommitNothing`), and a session that cannot be started
ends the call in a panic (`StartSessionFails`). The server is modelled as snapshot
isolation with write conflicts. All methods outside a transaction are one action,
`CallPlain`, see "What the code does that no run states". `StoreCalls` declares what
this module and the next one have in common: the calls and the keys.

**`PlainStores`** models the six stores that send one command for each request.
They share the loop, and differ in what they check, retry, send and take for an
error; the variable `which` says which store a behaviour is about. Whether Cosmos
DB creates a document for an upsert with an ETag is left open. Replication and the
eviction of keys by Memcached are left out.

**`AtLeastOnce`** says what a broker component promises: stored messages are
queued, delivered, perhaps queued again, and settled only when a handler has
accepted them. A broker may put a message aside, where it is kept (`buried`).

**`RedisStreams`** models publishers and the instances of one application, which
all read as the same consumer of one group. `stream`, `last` (the last entry
delivered to the group) and `pel` (the pending list) are the server's; each
instance subscribes (XGROUP CREATE, whose error is only logged), reads what is
pending, then reads new entries for ever, hands each to the handler and
acknowledges it if the handler returns nil. Each command may lose its reply, be
sent again by the client up to `MaxRetries` times, and be executed late. An
instance may crash and be started again.

**`LockedQueues`** models the components whose broker locks a message while it is
handled: Service Bus topics (with and without entity management), Service Bus queues,
SQS and GCP Pub/Sub. `which` says which of them a behaviour is about, and a profile what
tells them apart: whether missing entities are created, whether a failed message is
abandoned or left to its lock, whether a connection that fails under a settlement and a
failed receive end the reader. The number of a delivery is its lock. Looking up and
creating a topic or a subscription are separate requests, so two actors may both find it
missing; the second put is a conflict and an error. Service Bus ignores a settlement
without the lock, and puts a message aside after `MaxDelivery` deliveries; the vendored
AMQP client reads no error from the broker's answer to it, so the reader goes on. SQS
and GCP Pub/Sub may accept a settlement without the lock. A lost reply leaves a command
in `late`, to be executed at any time or never. A GCP reader stands for one goroutine of
Receive; its client gives back the place of a message only when it is acknowledged,
which the binding does not do after an error of the handler, and hands out nothing more
with `MaxOutstanding` places taken (`Stopped`). The time to live of messages and the
deletion of idle subscriptions are options of Service Bus that the component sets only
if it is configured to; the model has them unset. How the brokers behave is taken from
the vendored clients and from how the components use them.

**`Kafka`** models the binding on one topic of one partition. A Write is sent, and sent
again by the producer up to `MaxRetry` times, or refused for good. Read is two
goroutines: the loop around Consume (`loop`) and the caller (`main`), which waits for
the channel `c.ready`, then for a signal. Setup closes the channel, the loop makes a new
one after every Consume. ConsumeClaim hands messages to the callback one by one and
marks those it accepts. The consumer group is modelled by what it does to this: a
session starts at the committed offset, or at the end of the log if there is none; marks
are committed now and then and when the session ends; an instance that asks to join
makes the sessions of the others end, and when all have asked one is given the partition
and the rest (`sync`) a session without one; an expired session or a crash gives the
partition to another instance, too, and a late commit is refused.

**`AtMostOnce`** says what becomes of a message that nobody acknowledges: it is under
way, then handed to a handler or gone. A copy is a message with a reader, or with a
group of readers that share the messages.

**`PushedReaders`** models the three components to which a broker pushes messages
without waiting for an acknowledgement. An instance is a process with one connection
for writing and reading; its client library has a buffer of messages to send and an
inbox. `comp` says which component a behaviour is about, and a profile what tells them
apart. RabbitMQ's Read asks for automatic acknowledgement and acknowledges again, for
which the broker closes the channel. MQTT's Write connects, publishes and disconnects
the one client of the binding. Connections are lost and made again; nats.go resends
its subscriptions, paho as it is configured here does not. Paho's client looks at its
status and sets it in two steps, so a Disconnect that comes in between is undone: the
client connects again (`lost`, `undone`), but its router has been stopped and it hears
nothing (`deaf`). A declaration that RabbitMQ's broker refuses closes the channel, and a
closed channel may still hand on a part of what it has received. nats.go drops messages
when 65536 wait for a handler; the model has fewer messages than that.

**`EventHubs`** models Read, which opens a receiver for each partition one after the
other and waits for a signal, and the two goroutines of the client library for each
receiver: one takes events from the link and makes a new link when it breaks, one
calls the binding and stores the checkpoint. The checkpoint is in memory, and is
"latest" until the first event has been dealt with. A receiver may close for good: when
a link cannot be made again, as one that was stolen, or when the annotations of an event
cannot be decoded, which the binding is called for all the same. Events have a data
section; the client library panics on one that has none.

**`KubernetesEvents`** models Read and the goroutine of the watch client, with the two
channels between them, each with room for one element, and the order in which the
goroutine closes them.

**`MDNS`** models a lookup, the goroutine that looks through the entries, the time-out
of a second, and the browser's main loop, which passes entries on over an unbuffered
channel. A message of a replica may come without its text record; the entry then does
not show the id, and the browser passes on no other one of that replica until it is
taken back. The race on the port is covered by the interleavings: a write that becomes
visible late is a goroutine that is late.

Each `MC...` module instantiates one of these for TLC; `MCListeners` instantiates the
last three, `MCStores` the six plain stores and MongoDB, and a behaviour is one of one of
them. A call is made at most once, so the
set `Calls` bounds a behaviour. `Retry` is used by others through EXTENDS, the abstract
specifications through INSTANCE with a refinement mapping (`View`, `Status`, `Fate`).

Operators whose comment begins with "Mutant" are wrong on purpose: each is what a
plausible mistake would make of the definition below it. No specification uses
them; `PROJECT.json` pairs each with the property it violates.

## What is checked

| run | checks | bounds | distinct states |
|---|---|---|---|
| `redis_calls` | `FirstWriteWins`, `AnswersAreTrue`, `GetAnswersWhatWasHeld`, `ImplementsVersionedStore`, `EveryCallReturns` | 2 calls of any method, 2 keys, lists of up to 2 requests, thresholds up to 2 | 218,801 |
| `zookeeper_calls` | `AnswersAreTrue`, `ImplementsVersionedStore`, `EveryCallReturns` | 2 calls, 2 keys, lists that name a key twice, thresholds up to 2, with and without checked access control lists | 189,562 |
| `stores` | the six plain stores: `TypeOK`, `AnswersAreTrue`, `FirstWriteWins`, `EveryCallReturns`; MongoDB: `MongoTypeOK`, `AppliedAtMostOnce`, `EveryMongoCallReturns` | 2 calls, 2 keys, all 7 stores | 135,787 |
| `streams` | `HandledInOrder`, `ImplementsAtLeastOnce`, `PendingIsRecovered`, `StoredIsDelivered` | 1 message (2 entries with its retry), 2 instances, 2 faults | 96,450 |
| `locked_queues` | `SubscribedIsReal`, `ImplementsAtLeastOnce`, `StoredIsServed` | 1 message (more entries with its retries), 2 instances, 5 kinds, 2 deliveries, 2 outstanding, 3 faults | 141,464 |
| `kafka` | `OfferedBeforeCommitted`, `CommitNeverGoesBack`, `StopReturns`, `ReadyIsSeen`, `StoredIsOffered` | 1 Write (2 messages with its retry), 2 instances, 1 fault | 200,786 |
| `pushed_readers` | `WriteEndsTheClient`, `ImplementsAtMostOnce`, `CutOffAfterAccept`, `SubscriptionSurvives`, `TakenIsHandled` | 2 messages, 2 instances, 1 of which writes, 3 components, 1 fault | 64,055 |
| `listeners` | `TypeOK`; Event Hubs: `NoEventPassedOver`, `CheckpointNeverGoesBack`, `StoredReachesBinding`; Kubernetes: `EndTogether`; mDNS: `AnswerIsFirstMatch`, `BrowserEndsUnlessMatched` | 2 partitions, 3 events, 2 broken links; 3 results; 3 replicas | 133,783 |

Put in words: a call that returns nil has been executed, each of its requests; a
call that returns an error and met no connection failure has not; a bulk call takes
effect on a prefix of its list, orphans included; of the requests that name one
version of a key at most one takes effect, however often they are sent; Get, which
needs two commands, still answers with what the key held at one moment; every
change of the Redis and ZooKeeper databases is one the versioned store allows; a
Multi of MongoDB takes effect at most once, not at all if it returns an error, and no
document holds data of a Multi that was not committed; an entry of a stream leaves the
pending list only after a handler has accepted it, and what is pending when an
instance starts reaches its handler; a locked message is settled only after a
handler has accepted it, whatever expires, and as long as a reader is left that its
client still serves it is settled or put aside; a reader that Subscribe has started has
its subscription; the offset of a Kafka group passes no message that was not given to a
handler and never goes back, whoever crashes, and a Read that is told to stop returns;
NATS, RabbitMQ and MQTT hand a message to a group or a reader at most once; the Event Hubs
binding sees the events of a partition without a gap once it has a checkpoint; Read of
the Kubernetes events and the goroutine behind it end together; an mDNS lookup answers
with the first entry that has the id, and leaves the browser behind only if it found one.

`AnswersAreTrue` is the conjunction of what a caller may conclude from an answer:
`SuccessIsReal`, `CleanErrorHasNoEffect` and, where a bulk call is a loop,
`BulkIsAPrefix`. Type invariants are proved where there is a module of proofs, and are
invariants of a run elsewhere.

Some of these state what the code does although it is hardly intended, because what
follows depends on it: `WriteEndsTheClient` (a Write of the MQTT binding disconnects
the client that Read uses), `CutOffAfterAccept` (the second acknowledgement costs a
RabbitMQ reader its channel), `BrowserEndsUnlessMatched` (a lookup that finds its
service may leave a blocked goroutine and open connections).

Four runs end in a counterexample: the code does not do what a comment or a test of
the repository says.

- `redis_strong` (`StrongIsReplicated`): a strong Set returns nil when WAIT reports
  fewer replicas than asked for; only an error reply counts (`redis.go:217`).
- `zookeeper_missing_keys` (`MissingKeysAreCreated`): BulkSet and BulkDelete fail when a
  key does not exist, because the client returns the first error of a transaction before
  the store looks at the results (`zk.go:180`, `zk.go:225`), while the mock of the tests
  returns no error there; and an unconditional Set of a missing key fails, because its
  create carries no access control list (`zk.go:204`) or, where these are not checked,
  because another call creates the key between its set and its create. The
  counterexample is a behaviour in which a bulk call and a Set both fail.
- `mongo_commit` (`MultiSucceedsOnlyIfDone`): Multi returns nil for a transaction whose
  operations were sent and accepted and whose commit failed, because the error of
  `WithTransaction` is dropped (`mongodb.go:231`).
- `kubernetes_results` (`EveryResultIsShown`): Read returns nil while a result is still
  in its channel, because the goroutine of the watch closes the error channel too, which
  then reads as nil, and the select may take it first (`kubernetes.go:65`). The test of
  Read expects the one result of its response to be shown (`kubernetes_test.go:74`).
  That no more than the last result is lost is proved, see
  `KubernetesShowsAllButTheLast`.

### Bounds

The properties relate two commands, or a command and its retry. Two calls, one of which
retries, already give three writers: the first attempt as an orphan, the second attempt,
and the other call. The versions the keys start with, and requests with old ETags, let a
version counter be lost and begun again; for more calls there are the proofs. Thresholds
of 2, 1, 0 and below cover the loop, its last round and its absence. Every request set
holds conditional and unconditional requests, and a run of each store has requests that
are turned away; for ZooKeeper there are transactions whose second operation names the
version the first one leaves, and ones whose second names a version the first has moved.
In the streams, a message that is sent again becomes two entries, which is enough for a
later entry to overtake an earlier one; with two faults (`MaxFaults` bounds crashes,
lost reads and lost acknowledgements together) an instance is restarted while it
recovers; for more faults there are the proofs of what is safe. In `locked_queues` three
faults let a lock expire under a working handler, the second delivery fail and a
settlement come late in one behaviour, and one GCP reader stop for good while the other
goes on (`MaxOutstanding` is 2, where the client's default is 1000). In `kafka` one
fault hits any step of either instance, and a graceful stop or a rebalance may come with
it; in `pushed_readers` one fault meets two messages on their way and two subscriptions.
There one instance writes (`Writers`), to keep the run small, and both read: the broker
does not look at who wrote, and the proofs have no such bound. In `listeners` three
events in one partition are needed for an event to be handled, one to be skipped and one
to be handled behind it, and two broken links for a link to fail before and after the
first checkpoint; three results are one with the handler, one in the channel and one on
its way; with three replicas, two of them matching, an entry comes before the match and
one after it, and `MaxEntries` lets a replica be taken back and found again.

`redis_strong` uses symmetry, the calls being interchangeable. The runs with liveness
do not.

### Deadlock and fairness

Deadlock is checked in the store runs: a behaviour ends only in `Finished`, when
every call has returned. The other runs do not check it, because readers block when
there is nothing to receive, and a Read that has returned does nothing more.

Fairness is weak fairness of the steps of each call: the scheduler runs every
goroutine, a command is answered or its connection fails, a pause ends. Nothing
makes an orphan execute, a connection fail or a process start. For MongoDB the timer
also fires in the end. For the streams it is weak fairness of Publish and of the
reader without the loss of a blocked read, which need never happen. For the locked
queues it is weak fairness of each publisher and each reader, and of the expiry of
a lock whose message nobody handles; a lock that expires under a handler is a fault
and need never happen. For Kafka it is weak fairness of each writer, of both goroutines
of Read, and of the expiry of a session whose member is gone, which the coordinator's
time-out guarantees. For NATS, RabbitMQ and MQTT it is weak fairness of each process and
of its connection: what is buffered is sent, a lost connection is made again or given
up. For the listeners it is weak fairness of each goroutine, and strong fairness of one
case of a select: the browser of mDNS takes the end of its context in the end though
messages may be ready as well, since Go chooses among ready cases at random.

## What is proved

TLAPS proves the following for every value of the constants: any number of calls,
keys, requests, messages, instances, retries and faults. Names are those of the
theorems; each module of proofs extends the modules it is about.

**`VersionedStoreProofs`**: `FirstWriteWinsHolds`. The property is not inductive:
nothing in it excludes that a version in `wins` becomes current again. The invariant
adds `WinsAreBehind`: the version a command won on belongs to an earlier era, or is
below the version the key has now. A write raises the version, a removal ends the era,
and a command wins only on the current version, so it differs from all wins before it.
A step may hold several writes of a key, each on the version the one before it left.

**`RedisStateProofs`**: `TypeCorrect`; `RedisImplementsVersionedStore`;
`RedisFirstWriteWins`, from the refinement and the theorem above. The invariant `Inv`
adds to the types the shape of each call: what `pc` says about its kind, the type of its
request list and the range of `idx`. Part of the type is that a version is at least 1, so
the 0 by which the scripts skip the comparison is never a version. The lemma
`StepRunsOneCommand` reduces the actions, those of orphans included, to three cases:
nothing, one accepted script, or one transaction. The module also proves
`RedisAnswersAreTrue` (from `RedisSuccessIsReal`, `RedisCleanErrorHasNoEffect` and
`RedisBulkIsAPrefix`) and `RedisGetAnswersWhatWasHeld`. These properties speak of calls
that have returned; the invariant `EffectsInv` says of every call at every point which of
its requests have taken effect, and of every orphan that its call met a failure and has
reached its request. For Get, `WindowInv` says that a call in progress has seen what its
key holds now.

`RedisAttemptsAreBounded` and `RedisCallsMoveOn` are the safe part of `EveryCallReturns`.
The first bounds the loop counter by the threshold, from `CounterInv`, which says what the
counter is at each place of the loop; the second orders the places of a call (request,
then attempt, then place in the attempt) and says that every step that concerns a call
takes it up in this order and no other step moves it. Together they leave each call
finitely many steps, whatever the server and the connection do; that it takes them is
fairness, and left to TLC.

**`ZookeeperStateProofs`**: `ZookeeperTypes`, `ZookeeperImplementsVersionedStore`,
`ZookeeperFirstWriteWins`, `ZookeeperAnswersAreTrue`. The wins are recorded from the
requests as the callers stated them, so the refinement needs the store to pass the
versions on. That is `Fit`: in every attempt, and in every orphan, the operations are the
requests of the call, each on its key and with the version its caller asks for, and they
are all deletes, all sets, or the one create. A transaction is then one step of the
versioned store also when it names a key several times: its operations on that key count
the version up one by one (`BeforeCounts`), so no two of them win on the same version.
`Effects` says that a call without a connection failure has done nothing until it returns
nil.
`ZookeeperAttemptsAreBounded` and `ZookeeperCallsMoveOn` are the safe part of
`EveryCallReturns`, by the same argument as for Redis; the place in an attempt includes the
node a Set creates when it finds none.

**`StoresProofs`**, on `PlainStores`: `PlainTypes`, `PlainAnswersAreTrue`,
`PlainFirstWriteWins`. `Effects` says of a call at every point which of its requests the
server has performed: all before the one it is at, none behind it, and that one only if
the call met a connection failure; `OrphanOK` says that an orphan cannot spoil this,
since its call has met a failure and has reached its request. For Cosmos DB `TagsInv` adds
that a tag some command has won is not the tag of its key any more, and that tags are
handed out in increasing order, so that it cannot come back. `PlainCallsMoveOn`, with the
bound on attempts that is part of the type invariant, is the safe part of
`EveryCallReturns`.

On `MongoState`: `MongoTypes`, `MongoAppliedAtMostOnce`. That a Multi is committed at most
once rests on what the client does *not* do: `Transaction` says that the operations are
run, again included, and an error is returned, only while the transaction has not been
committed, and that the number of commits is 1 or 0 as the server has applied it or not.
`DataIsCommitted` follows a document's data to the Multi that wrote it; for this the
invariant also says that a transaction's snapshot holds, at the keys it has written,
nothing but its own data. `MongoTimerEndsTheLoops` is the safe part of
`EveryMongoCallReturns`: WithTransaction may take a call back to its first operation any
number of times, but not once its timer has fired.

**`RedisStreamsProofs`**: `StreamsTypes`, `StreamsPublishIsReal`,
`StreamsHandledInOrder`, `StreamsSettledWasAccepted`, `StreamsImplementAtLeastOnce`. The
invariant follows an entry from the reply a reader works on to its acknowledgement: what
is acknowledged, now or late, was accepted, and what a reader has still to handle comes
after what it has handled. `StreamsPassNoPendingEntryOver` is the safe part of
`PendingIsRecovered`: an entry that is pending while an instance has yet to read the
pending list stays on its way to that instance's handler until it is acknowledged or the
reader ends. It needs that what is acknowledged was given to the handler since the
instance started (`AckedWasSeen`), or a lost XACK would drop an entry from the reply.

**`LockedQueuesProofs`**: `LockedTypes`, `LockedPublishIsReal`,
`LockedSubscribedIsReal`, `LockedImplementsAtLeastOnce`. `Held` ties every settlement, by
a reader or by a late command, to a handler that has accepted the message; `Entities`
says that a topic and a subscription stay once they exist, and in which steps an actor
may rely on them.

**`KafkaProofs`**, on `Kafka`: `OffsetPassesOnlyOffered`, `OffsetNeverGoesBack`,
`WrittenIsStored`, `StopIsClean` (a Read that was stopped has committed what it marked, and
no channel is closed twice). The invariant speaks of the holder of the partition only: its
mark is not behind the committed offset, and everything before it was offered. Of a member
that has lost the partition nothing is known, and nothing need be, since its commits are
refused.

On `EventHubs` (specification `EventHubsSpec`): `EventHubsTypes`,
`EventHubsPassOverNothing`, `EventHubsCheckpoint`, `EventHubsLoseNothing`. The first three
are what the run checks. `NoEventPassedOver` says nothing about where the link and the two
goroutines are, and a link that is made again starts at the checkpoint, not where the old
one was. `InSequence` ties the four positions of a receiver together: the binding is at
most one event ahead of the checkpoint, and the event it gets next is the last one again
or the one behind it. It is stated of partitions whose link did not break before the first
checkpoint, the exception of the properties. `EventHubsLoseNothing` is the safe part of
`StoredReachesBinding`: an event the binding was not called for is with the first
goroutine or still to be delivered by the link.

**`ReadersProofs`**, on `PushedReaders`: `PushedTypes`, `PushedImplementsAtMostOnce`,
`MQTTWriteEndsTheClient`. The invariant `Once` says where a message can be: with its
writer, at the broker, in an inbox or handed over, and never in two places that lead to
the same handler. For MQTT `ClientEnded` says that the subscription of an instance is
deaf once a Write of it has returned, also when a lost connection undoes the Disconnect,
and that a closed client has nothing left to send.

On `KubernetesEvents` (`KubernetesSpec`): `KubernetesTypes`,
`KubernetesShowsAllButTheLast`, `KubernetesNeverBlocks`. `WatchInv` counts: the results
decoded are those the handler was given, in order, and at most one each with Read, in the
channel and with the goroutine; a channel is closed, or holds an error, only when the
goroutine has nothing more to send. From this follows the safe part of `EndTogether`: the
goroutine never waits for a Read that has returned, and its error always finds room.

On `MDNS` (`MDNSSpec`): `MDNSTypes`, `MDNSAnswerIsFirstMatch`,
`MDNSOnlyAMatchLeavesTheBrowser`. `LookupInv` says that the port is written once, by a
goroutine that has received its last entry, so what the lookup reads after its time-out is
the first match or nothing. The last theorem is the safe part of
`BrowserEndsUnlessMatched`.

The run `listeners` checks the sum of the specifications of Event Hubs, the Kubernetes
events and mDNS; its `TypeOK` is the conjunction of the three type invariants proved here.

The assumptions are those of the modules (named `...Assumption` where they are
declared): the types of the constants, and that model values which stand for "none" are
not members of the sets they are used with. TLC evaluates them in the runs. Bounds on
faults are constants without an upper limit. Leaves name the prover that settles them
(`Zenon`, or `SMTT(20)` for more time) where trying the others first would cost time.

Only model-checked: all liveness properties, since fairness is out of the prover's
reach: `EveryCallReturns` of the stores, `EveryMongoCallReturns`, `PendingIsRecovered`,
`StoredIsDelivered`, `StoredIsServed`, `StopReturns`, `ReadyIsSeen`, `StoredIsOffered`,
`CutOffAfterAccept`, `SubscriptionSurvives`, `TakenIsHandled`, `StoredReachesBinding`,
`EndTogether` and `BrowserEndsUnlessMatched`. Every invariant, action property and
refinement of a passing run is proved, and of the liveness properties of the stores and
the listeners, and of `PendingIsRecovered`, the safe part.

## What the code does that no run states

- MongoDB: Init parses `operationTimeout` and never stores it, so every method
  outside a transaction runs with a context that has expired (`mongodb.go:116`).
  `CallPlain` returns an error and changes nothing, unless a bulk method has nothing to
  do. When a session cannot be started, Multi defers a call on the nil session and panics
  before it looks at the error (`mongodb.go:221`).
- etcd: Get returns versions as ETags; Set and Delete ignore them.
- Service Bus pub/sub: an error of Receive ends the loop, and Subscribe has long
  returned nil; messages then stay in the subscription. `StoredIsServed` is stated for
  as long as a reader is left.
- GCP Pub/Sub: the callback neither acknowledges nor refuses a message whose handler
  fails, and the client never gives its place back: after as many failures as it may have
  outstanding, Receive hands out nothing more and does not return (`pubsub.go:86`).
- Kafka: a message whose callback fails is passed over when a later one is marked; a
  group without an offset starts at the end of the log after every restart until
  something is committed; a Consume that fails before Setup leaves the caller of Read
  waiting on a channel that nobody will close (`stuck`), where it hears no signal.
- NATS: if QueueSubscribe fails, on a closed connection, the next line uses the nil
  subscription (`nats.go:81`); the model ends in `panicked`.
- MQTT: a Write after the first one returns nil and sends nothing, unless a lost
  connection has undone the Disconnect of the first; a subscription is not made again
  after a reconnection.
- RabbitMQ: Read stays blocked when its channel is closed; a queue that is deleted when
  unused goes with its last reader.
- Event Hubs: when Receive fails for a partition, Read returns the error while the
  receivers before it go on; a link that breaks before the first checkpoint skips what
  was stored in between, and its checkpoint may go back later; after ten failed
  recoveries a receiver closes and nobody is told, nor when another receiver takes its
  link away; an event without a data section panics in the client; an error of the
  handler is dropped.
- Kubernetes events: Read may return nil though the stream failed, when the closed error
  channel or the closed result channel is seen first.
- mDNS: a lookup takes a second also when it finds its service at once.
- Cassandra: the statements bind the name of the table as a value, which CQL does
  not allow; the server rejects them. In `PlainStores` its calls never succeed.
- Redis Streams: the entries a lost read was given stay pending, and no handler sees
  them before the next start of an instance. `PendingIsRecovered` is stated
  for a start, not for a running reader.
- Multi of the Redis store and the Redis binding replace a hash by a string; the
  next Set counts from 1 again, so an old ETag may match. This is why
  `FirstWriteWins` speaks of eras.

## Not modelled, and why

The connection set-up of Init and the formats of metadata, except where parsing decides
whether a component starts (Kafka, NATS, RabbitMQ, MQTT, Event Hubs);
serialisation; the duration of pauses and time-outs; the replication of a server
beyond the number WAIT reports; more than one partition of Kafka, since nothing in the
binding relates two.

Vault: Init assembles a TLS client from its metadata and GetSecret is one HTTP request.
There is no state from one call to the next, no loop and no concurrency, so a model
would restate the code. The same holds of the other secret stores, the one-request
output bindings, Kubernetes discovery and the exporters. The cloud event envelope and
the interfaces are formatting and declarations.

## What could be added

A run of Kafka with two faults and one of the streams with three, which take too long
with the liveness properties; the safe parts of the other liveness properties of Kafka,
the locked queues and the pushed readers.
