----------------------------- MODULE EventHubs ------------------------------
(***************************************************************************)
(* The Azure Event Hubs binding (src/bindings/eventhubs/eventhubs.go): a   *)
(* Write, and a Read that opens a receiver for every partition, one after  *)
(* the other, and then waits for a signal.  Each receiver has two          *)
(* goroutines of the client library: one takes events from its link and    *)
(* makes a new link when that fails, the other calls the binding and       *)
(* stores a checkpoint afterwards.  A new link starts at the checkpoint,   *)
(* which is in memory and "latest" until an event has been dealt with:     *)
(* such a link starts at whatever is the end of the partition by then.     *)
(*                                                                         *)
(* The events of a partition are known by their position.  They have a     *)
(* data section, as those of every client of the hub do.                   *)
(***************************************************************************)
EXTENDS Naturals, FiniteSets

CONSTANTS
  Partitions,   \* 1 .. n, in the order in which Read opens them
  MaxEvents,    \* bound on the events of the hub
  MaxBreaks     \* bound on broken links

ASSUME EventHubsAssumption ==
  /\ Partitions \subseteq Nat \ {0}
  /\ \A p \in Partitions : 1 .. p \subseteq Partitions
  /\ MaxEvents \in Nat /\ MaxBreaks \in Nat

VARIABLES
  hub,       \* Init and Read: "init", "failed", "idle", "open", "wait", "nil", "err", "killed"
  writing,   \* Write: "idle", "sending", "nil" or "err"
  next,      \* the partition whose receiver Read opens next
  stored,    \* per partition: events in it
  link,      \* per receiver: "none", "up", "broken" or "closed"
  linkPos,   \* per receiver: the last event its link has delivered
  taken,     \* per receiver: the event its first goroutine has, or 0
  held,      \* per receiver: the event its second goroutine has, or 0
  check,     \* per receiver: its checkpoint
  breaks,    \* broken links so far
  \* History.
  from,      \* per receiver: the end of the partition when Receive returned
  called,    \* per receiver: the events the binding was called for
  early      \* the receivers with a new link made while their checkpoint was latest

eventHubsVars ==
  <<hub, writing, next, stored, link, linkPos, taken, held, check, breaks, from, called, early>>

hubVars == <<writing, next, stored, breaks, from>>

\* The checkpoint that names no event.
latest == 0

EventHubsTypeOK ==
  /\ hub \in {"init", "failed", "idle", "open", "wait", "nil", "err", "killed"}
  /\ writing \in {"idle", "sending", "nil", "err"}
  /\ next \in Nat
  /\ {stored, linkPos, taken, held, check, from} \subseteq [Partitions -> Nat]
  /\ called \in [Partitions -> SUBSET Nat]
  /\ link \in [Partitions -> {"none", "up", "broken", "closed"}]
  /\ \A p \in Partitions :
       /\ {linkPos[p], taken[p], held[p], check[p], from[p]} \subseteq 0 .. stored[p]
       /\ called[p] \subseteq 1 .. stored[p]
  /\ breaks \in 0 .. MaxBreaks
  /\ early \subseteq Partitions

EventHubsInit ==
  /\ hub = "init" /\ writing = "idle" /\ next = 1
  /\ stored \in [Partitions -> 0 .. 1]
  /\ link = [p \in Partitions |-> "none"]
  /\ linkPos = [p \in Partitions |-> 0]
  /\ taken = [p \in Partitions |-> 0] /\ held = [p \in Partitions |-> 0]
  /\ check = [p \in Partitions |-> latest]
  /\ breaks = 0
  /\ from = [p \in Partitions |-> 0]
  /\ called = [p \in Partitions |-> {}]
  /\ early = {}

-----------------------------------------------------------------------------
\* Init parses the metadata and the connection string, and connects to nothing.
InitEventHubs ==
  /\ hub = "init"
  /\ hub' \in {"idle", "failed"}
  /\ UNCHANGED <<hubVars, link, linkPos, taken, held, check, called, early>>

WriteEventHubs ==
  /\ hub \notin {"init", "failed"} /\ writing = "idle"
  /\ writing' = "sending"
  /\ UNCHANGED <<hub, next, stored, breaks, from, link, linkPos, taken, held, check, called, early>>

\* The bound.
RoomForEvent ==
  Cardinality({s \in Partitions \X (1 .. MaxEvents) : s[2] <= stored[s[1]]}) < MaxEvents

\* Hub.Send: the event goes to one of the partitions.  A send whose reply is
\* lost is made again, and may have stored the event already.
SendEvent ==
  /\ writing = "sending"
  /\ \E p \in Partitions :
       /\ RoomForEvent
       /\ stored' = [stored EXCEPT ![p] = @ + 1]
  /\ writing' \in {"nil", "sending"}
  /\ UNCHANGED <<hub, next, breaks, from, link, linkPos, taken, held, check, called, early>>

SendFails ==
  /\ writing = "sending"
  /\ writing' = "err"
  /\ UNCHANGED <<hub, next, stored, breaks, from, link, linkPos, taken, held, check, called, early>>

\* Another writer of the hub.
OthersWrite(p) ==
  /\ RoomForEvent
  /\ stored' = [stored EXCEPT ![p] = @ + 1]
  /\ UNCHANGED <<hub, writing, next, breaks, from, link, linkPos, taken, held, check, called, early>>

-----------------------------------------------------------------------------
\* Read.

\* GetRuntimeInformation names the partitions.
ReadEventHubs ==
  /\ hub = "idle"
  /\ hub' \in {"open", "err"}
  /\ UNCHANGED <<hubVars, link, linkPos, taken, held, check, called, early>>

\* Receive with the latest offset opens the link of the next partition.
Receive ==
  /\ hub = "open" /\ next \in Partitions
  /\ link' = [link EXCEPT ![next] = "up"]
  /\ linkPos' = [linkPos EXCEPT ![next] = stored[next]]
  /\ from' = [from EXCEPT ![next] = stored[next]]
  /\ next' = next + 1
  /\ UNCHANGED <<hub, writing, stored, breaks, taken, held, check, called, early>>

\* It fails, and Read returns the error; the receivers it has opened go on.
ReceiveFails ==
  /\ hub = "open" /\ next \in Partitions
  /\ hub' = "err"
  /\ UNCHANGED <<hubVars, link, linkPos, taken, held, check, called, early>>

\* All the receivers are open, and Read asks to be told of signals.
WaitForSignal ==
  /\ hub = "open" /\ next \notin Partitions
  /\ hub' = "wait"
  /\ UNCHANGED <<hubVars, link, linkPos, taken, held, check, called, early>>

\* A signal closes the receivers.  Before Read asks for it, and after Read has
\* returned an error, it ends the process.
SignalEventHubs ==
  /\ \/ hub = "wait" /\ hub' = "nil"
     \/ hub \in {"open", "err"} /\ hub' = "killed"
  /\ link' = [p \in Partitions |-> IF link[p] = "none" THEN "none" ELSE "closed"]
  /\ UNCHANGED <<hubVars, linkPos, taken, held, check, called, early>>
-----------------------------------------------------------------------------
\* The goroutines of a receiver.

\* The first goroutine takes an event from the link.
DeliverEvent(p) ==
  /\ link[p] = "up" /\ taken[p] = 0 /\ linkPos[p] < stored[p]
  /\ taken' = [taken EXCEPT ![p] = linkPos[p] + 1]
  /\ linkPos' = [linkPos EXCEPT ![p] = @ + 1]
  /\ UNCHANGED <<hub, hubVars, link, held, check, called, early>>

\* Mutant: nothing is passed on once the link is broken.
CallbackOnlyUp(p) ==
  /\ link[p] = "up" /\ taken[p] # 0 /\ held[p] = 0
  /\ held' = [held EXCEPT ![p] = taken[p]]
  /\ taken' = [taken EXCEPT ![p] = 0]
  /\ called' = [called EXCEPT ![p] = @ \cup {taken[p]}]
  /\ UNCHANGED <<hub, hubVars, link, linkPos, check, early>>

\* The event is passed on over an unbuffered channel, possibly after the
\* receiver was closed, and the binding is called: it gives the event to the
\* handler, or drops it for its age.  An event whose annotations cannot be decoded
\* ends the receiver, and the binding is called all the same.
HubCallback(p) ==
  /\ taken[p] # 0 /\ held[p] = 0
  /\ held' = [held EXCEPT ![p] = taken[p]]
  /\ taken' = [taken EXCEPT ![p] = 0]
  /\ called' = [called EXCEPT ![p] = @ \cup {taken[p]}]
  /\ \E at \in {link[p], "closed"} : link' = [link EXCEPT ![p] = at]
  /\ UNCHANGED <<hub, hubVars, linkPos, check, early>>

\* It returns nil, whatever the handler returned, and the event is the new
\* checkpoint.
CallbackReturns(p) ==
  /\ held[p] # 0
  /\ held' = [held EXCEPT ![p] = 0]
  /\ check' = [check EXCEPT ![p] = held[p]]
  /\ UNCHANGED <<hub, hubVars, link, linkPos, taken, called, early>>

Break(p) ==
  /\ link[p] = "up" /\ breaks < MaxBreaks
  /\ link' = [link EXCEPT ![p] = "broken"]
  /\ breaks' = breaks + 1
  /\ UNCHANGED <<hub, writing, next, stored, from, linkPos, taken, held, check, called, early>>

\* Mutant: the new link goes back to the start of the partition.
RecoverFromStart(p) ==
  /\ link[p] = "broken" /\ taken[p] = 0
  /\ link' = [link EXCEPT ![p] = "up"]
  /\ linkPos' = [linkPos EXCEPT ![p] = 0]
  /\ UNCHANGED <<hub, hubVars, taken, held, check, called, early>>

\* Mutant: the new link starts where the old one ended.
RecoverAtEnd(p) ==
  /\ link[p] = "broken" /\ taken[p] = 0
  /\ link' = [link EXCEPT ![p] = "up"]
  /\ linkPos' = [linkPos EXCEPT ![p] = stored[p]]
  /\ early' = IF check[p] = latest THEN early \cup {p} ELSE early
  /\ UNCHANGED <<hub, hubVars, taken, held, check, called>>

\* The first goroutine, once it has passed on what it has, makes a new link.
Recover(p) ==
  /\ link[p] = "broken" /\ taken[p] = 0
  /\ link' = [link EXCEPT ![p] = "up"]
  /\ linkPos' = [linkPos EXCEPT ![p] = IF check[p] = latest THEN stored[p] ELSE check[p]]
  /\ early' = IF check[p] = latest THEN early \cup {p} ELSE early
  /\ UNCHANGED <<hub, hubVars, taken, held, check, called>>

\* After ten attempts, or at once if another receiver has stolen the link, it
\* closes the receiver, and Read is not told.
RecoverFails(p) ==
  /\ link[p] = "broken" /\ taken[p] = 0
  /\ link' = [link EXCEPT ![p] = "closed"]
  /\ UNCHANGED <<hub, hubVars, linkPos, taken, held, check, called, early>>

-----------------------------------------------------------------------------
ReceiverStep(p) == DeliverEvent(p) \/ HubCallback(p) \/ CallbackReturns(p) \/ Recover(p)

HubStep == ReadEventHubs \/ Receive \/ ReceiveFails \/ WaitForSignal

HubRunning == hub # "killed"

EventHubsNext ==
  /\ HubRunning
  /\ \/ InitEventHubs \/ HubStep \/ SignalEventHubs
     \/ WriteEventHubs \/ SendEvent \/ SendFails
     \/ \E p \in Partitions :
          OthersWrite(p) \/ ReceiverStep(p) \/ Break(p) \/ RecoverFails(p)

EventHubsSpec == EventHubsInit /\ [][EventHubsNext]_eventHubsVars

-----------------------------------------------------------------------------
\* No event is passed over: the binding has been called for every event between
\* the first and the last one it was called for, starting behind the end that
\* Receive found.  The exception is a link that broke before the first event
\* had been dealt with: "latest" then names a later end.
NoEventPassedOver ==
  \A p \in Partitions \ early :
    \A e \in called[p] : e > from[p] /\ (from[p] + 1) .. e \subseteq called[p]

\* The checkpoint never goes back, whatever link an event came from: at most one
\* event is with the binding when a new link starts at the checkpoint, and it is
\* the first that the new link delivers again.  After a link that passed events
\* over this is not so: they may be delivered later than the ones behind them.
CheckpointNeverGoesBack ==
  [][\A p \in Partitions \ early : check'[p] >= check[p]]_eventHubsVars

\* An event stored behind the end that Receive found reaches the binding, over
\* broken links, unless "latest" passed it over or the receiver was closed.
StoredReachesBinding ==
  \A p \in Partitions : \A e \in 1 .. MaxEvents :
    (link[p] = "up" /\ e \in from[p] + 1 .. stored[p]) ~>
      (e \in called[p] \/ p \in early \/ link[p] = "closed")
=============================================================================
