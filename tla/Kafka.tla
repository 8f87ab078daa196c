------------------------------- MODULE Kafka --------------------------------
(***************************************************************************)
(* The Kafka binding (src/bindings/kafka/kafka.go): writers of one topic   *)
(* of one partition, and the instances of one application, which read it   *)
(* as one consumer group.                                                  *)
(*                                                                         *)
(* Read runs two goroutines: a loop around Consume, and the caller, which  *)
(* waits on the channel c.ready, then for a signal.  Setup closes the      *)
(* channel and the loop makes a new one after every Consume.  The client   *)
(* library and the group coordinator are modelled by what they do to them: *)
(* a session starts from the committed offset, or at the end of the log if *)
(* there is none; offsets marked in it are committed from time to time and *)
(* once more when it ends; the commit of a member that has lost the        *)
(* partition is refused.                                                   *)
(*                                                                         *)
(* A message of the log is known by its offset, counted from 1.            *)
(***************************************************************************)
EXTENDS Naturals, Sequences

CONSTANTS
  Writes,       \* calls of Write
  Instances,    \* instances of the reading application
  Nobody,       \* no instance
  Metadata,     \* the metadata an instance may be configured with
  MaxRetry,     \* config.Producer.Retry.Max
  MaxFaults     \* bound on faults of readers, for model checking

\* What getKafkaMetadata tells apart: the text of authRequired, and whether
\* there is a user name and a password.
MetadataRecords ==
  [authRequired : {"missing", "empty", "malformed", "true", "false"},
   saslUsername : BOOLEAN, saslPassword : BOOLEAN]

ASSUME ConstantsAssumption ==
  Metadata \subseteq MetadataRecords /\
  Nobody \notin Instances /\ MaxRetry \in Nat /\ MaxFaults \in Nat

VARIABLES
  \* The brokers.
  log,         \* the messages of the partition
  late,        \* per write: messages sent whose reply was lost
  committed,   \* the group's offset: the next message to read, 0 if there is none
  owner,       \* the member that holds the partition
  \* Writers.
  wr,          \* per write: state of the call
  tries,       \* per write: messages sent again
  \* Instances.
  loop,        \* where the goroutine around Consume is
  main,        \* where the caller of Read is
  ready,       \* c.ready is closed
  pos,         \* the next message of the claim
  mark,        \* the offset marked in the session, 0 if there is none
  faults,      \* number of faults
  \* History.
  offered,     \* messages a handler was given
  skipped,     \* messages before the first position of a group without offset
  cut          \* instances that were stopped without the last commit of a session

writeVars == <<late, wr, tries>>
vars == <<log, late, committed, owner, wr, tries, loop, main, ready, pos, mark,
          faults, offered, skipped, cut>>

\* The loop is in a session: with the partition, or as a spare member.
InSession == {"claim", "session", "handle", "release"}

\* The caller of Read is not in it: before Init, before Read, or after either
\* has returned for good.
Stopped == {"new", "down", "returned"}

TypeOK ==
  /\ log \in Seq(Writes)
  /\ late \in [Writes -> Nat]
  /\ committed \in Nat
  /\ owner \in Instances \cup {Nobody}
  /\ wr \in [Writes -> {"idle", "sending", "ok", "err"}]
  /\ tries \in [Writes -> 0 .. MaxRetry]
  /\ loop \in [Instances -> InSession \cup {"down", "consume", "sync", "spare",
                                            "done"}]
  /\ main \in [Instances -> Stopped \cup {"eval", "await", "stuck", "notify",
                                          "signal", "wait"}]
  /\ ready \in [Instances -> BOOLEAN]
  /\ pos \in [Instances -> Nat]
  /\ mark \in [Instances -> Nat]
  /\ faults \in Nat
  /\ offered \subseteq Nat
  /\ skipped \subseteq Nat
  /\ cut \subseteq Instances

Init ==
  /\ log = <<>> /\ late = [w \in Writes |-> 0]
  /\ committed = 0 /\ owner = Nobody
  /\ wr = [w \in Writes |-> "idle"] /\ tries = [w \in Writes |-> 0]
  /\ loop = [i \in Instances |-> "down"] /\ main = [i \in Instances |-> "new"]
  /\ ready = [i \in Instances |-> FALSE]
  /\ pos = [i \in Instances |-> 0] /\ mark = [i \in Instances |-> 0]
  /\ faults = 0 /\ offered = {} /\ skipped = {} /\ cut = {}

-----------------------------------------------------------------------------
\* Write: SendMessage waits for the acknowledgement of all replicas.  The
\* producer sends again up to MaxRetry times, unless the error is one that it
\* returns at once.

readVars == <<committed, owner, loop, main, ready, pos, mark, faults, offered,
              skipped, cut>>

Write(w) ==
  /\ wr[w] = "idle"
  /\ wr' = [wr EXCEPT ![w] = "sending"]
  /\ UNCHANGED <<log, late, tries, readVars>>

SendMessage(w) ==
  /\ wr[w] = "sending"
  /\ log' = Append(log, w)
  /\ wr' = [wr EXCEPT ![w] = "ok"]
  /\ UNCHANGED <<late, tries, readVars>>

SendLost(w) ==
  /\ wr[w] = "sending"
  /\ late' = [late EXCEPT ![w] = @ + 1]
  /\ IF tries[w] < MaxRetry
     THEN tries' = [tries EXCEPT ![w] = @ + 1] /\ UNCHANGED wr
     ELSE wr' = [wr EXCEPT ![w] = "err"] /\ UNCHANGED tries
  /\ UNCHANGED <<log, readVars>>

\* The message cannot be encoded, or the broker refuses it for good.
SendRefused(w) ==
  /\ wr[w] = "sending"
  /\ wr' = [wr EXCEPT ![w] = "err"]
  /\ UNCHANGED <<log, late, tries, readVars>>

\* A broker appends a message whose reply was lost, at any later time or never.
LateAppend(w) ==
  /\ late[w] > 0
  /\ late' = [late EXCEPT ![w] = @ - 1]
  /\ log' = Append(log, w)
  /\ UNCHANGED <<wr, tries, readVars>>

-----------------------------------------------------------------------------
\* Init, and Read up to the two goroutines.

brokerVars == <<log, writeVars, committed, owner>>
historyVars == <<offered, skipped, cut>>

getKafkaMetadata(md) ==
  /\ md.authRequired \in {"true", "false"}
  /\ md.authRequired = "true" => md.saslUsername /\ md.saslPassword

\* Init fails if the metadata is refused or the producer cannot be made.
InitBinding(i) ==
  /\ main[i] = "new"
  /\ \E md \in Metadata :
       \/ getKafkaMetadata(md) /\ main' = [main EXCEPT ![i] = "down"]
       \/ main' = [main EXCEPT ![i] = "returned"]
  /\ UNCHANGED <<brokerVars, loop, ready, pos, mark, faults, historyVars>>

Read(i) ==
  /\ main[i] = "down"
  /\ loop' = [loop EXCEPT ![i] = "consume"]
  /\ main' = [main EXCEPT ![i] = "eval"]
  /\ ready' = [ready EXCEPT ![i] = FALSE]
  /\ UNCHANGED <<brokerVars, pos, mark, faults, historyVars>>

\* NewConsumerGroup fails, and so does Read.
ReadFails(i) ==
  /\ main[i] = "down"
  /\ main' = [main EXCEPT ![i] = "returned"]
  /\ UNCHANGED <<brokerVars, loop, ready, pos, mark, faults, historyVars>>

-----------------------------------------------------------------------------
\* The loop around Consume.

\* Mutant: the channel is not closed.
SetupLeavesOpen(i) == UNCHANGED <<ready, main>>

\* Setup closes c.ready, which releases the caller if it waits on this channel.
Setup(i) ==
  /\ ready' = [ready EXCEPT ![i] = TRUE]
  /\ main' = [main EXCEPT ![i] = IF @ = "await" THEN "notify" ELSE @]

\* Consume asks to join the group.  The coordinator answers when the members
\* it knows ask again: it tells them, and their sessions end.
Rebalancing == \E i \in Instances : loop[i] = "consume"

\* All have asked: the instance is given the partition and its offset, and the
\* others, which asked with it, nothing.
Join(i) ==
  /\ loop[i] = "consume" /\ owner = Nobody
  /\ \A j \in Instances : loop[j] \notin {"sync", "spare"}
  /\ owner' = i
  /\ mark' = [mark EXCEPT ![i] = committed]
  /\ loop' = [j \in Instances |-> CASE j = i -> "claim"
                                  [] j # i /\ loop[j] = "consume" -> "sync"
                                  [] OTHER -> loop[j]]
  /\ cut' = cut \ {i}
  /\ Setup(i)
  /\ UNCHANGED <<log, writeVars, committed, pos, faults, offered, skipped>>

\* The session of a member without the partition.
JoinSpare(i) ==
  /\ loop[i] = "sync"
  /\ loop' = [loop EXCEPT ![i] = "spare"]
  /\ Setup(i)
  /\ UNCHANGED <<brokerVars, pos, mark, faults, historyVars>>

\* The claim starts at the offset, or else at the end of the log.
StartClaim(i) ==
  /\ loop[i] = "claim"
  /\ loop' = [loop EXCEPT ![i] = "session"]
  /\ IF mark[i] = 0
     THEN /\ pos' = [pos EXCEPT ![i] = Len(log) + 1]
          /\ skipped' = IF owner = i THEN skipped \cup 1 .. Len(log) ELSE skipped
     ELSE pos' = [pos EXCEPT ![i] = mark[i]] /\ UNCHANGED skipped
  /\ UNCHANGED <<brokerVars, main, ready, mark, faults, offered, cut>>

\* Mutant: the message is marked before the handler is called.
CallbackAfterMark(i) ==
  /\ loop[i] = "session" /\ pos[i] <= Len(log)
  /\ mark' = [mark EXCEPT ![i] = pos[i] + 1]
  /\ loop' = [loop EXCEPT ![i] = "handle"]
  /\ UNCHANGED <<brokerVars, main, ready, pos, faults, historyVars>>

\* ConsumeClaim: the next message is given to the handler.
Callback(i) ==
  /\ loop[i] = "session" /\ pos[i] <= Len(log)
  /\ offered' = offered \cup {pos[i]}
  /\ loop' = [loop EXCEPT ![i] = "handle"]
  /\ UNCHANGED <<brokerVars, main, ready, pos, mark, faults, skipped, cut>>

\* The handler returns nil and the message is marked, or an error and it is not.
CallbackReturned(i) ==
  /\ loop[i] = "handle"
  /\ mark' \in {mark, [mark EXCEPT ![i] = pos[i] + 1]}
  /\ pos' = [pos EXCEPT ![i] = @ + 1]
  /\ loop' = [loop EXCEPT ![i] = "session"]
  /\ UNCHANGED <<brokerVars, main, ready, faults, historyVars>>

\* Mutant: the coordinator does not tell who commits.
CommitUnfenced(i) == committed' = mark[i]

\* A commit of the marked offset.
Commit(i) == owner = i /\ committed' = mark[i]

AutoCommit(i) ==
  /\ loop[i] \in InSession /\ mark[i] # 0
  /\ Commit(i)
  /\ UNCHANGED <<log, writeVars, owner, loop, main, ready, pos, mark, faults,
                 historyVars>>

Cancelled(i) == main[i] = "wait"

\* The session ends: the context is cancelled, the partition lost, or another
\* member asks to join, which the next heartbeat tells; or else the heartbeats
\* or the claim fail.
EndSession(i) ==
  /\ loop[i] \in {"claim", "session"}
  /\ \/ (Cancelled(i) \/ owner # i \/ Rebalancing) /\ UNCHANGED faults
     \/ faults < MaxFaults /\ faults' = faults + 1
  /\ loop' = [loop EXCEPT ![i] = "release"]
  /\ pos' = [pos EXCEPT ![i] = 0]
  /\ UNCHANGED <<brokerVars, main, ready, mark, historyVars>>

\* Mutant: the loop does not look at the context.
ConsumeReturnedGoesOn(i) ==
  /\ loop' = [loop EXCEPT ![i] = "consume"]
  /\ ready' = [ready EXCEPT ![i] = FALSE]
  /\ main' = [main EXCEPT ![i] = IF @ = "await" THEN "stuck" ELSE @]

\* Mutant: Consume is called once, not in a loop.
ConsumeReturnedEnds(i) ==
  /\ loop' = [loop EXCEPT ![i] = "done"]
  /\ UNCHANGED <<main, ready>>

\* Consume has returned: the loop ends, or goes on with a new channel.  A
\* caller that waits on the old one is not woken by anybody any more.
ConsumeReturned(i) ==
  /\ loop' = [loop EXCEPT ![i] = IF Cancelled(i) THEN "done" ELSE "consume"]
  /\ ready' = [ready EXCEPT ![i] = IF Cancelled(i) THEN @ ELSE FALSE]
  /\ main' = [main EXCEPT ![i] = IF @ = "await" THEN "stuck" ELSE @]

\* A Read that is to stop ends without the last commit of its session.
CutOff(i) == cut' = IF Cancelled(i) THEN cut \cup {i} ELSE cut

\* The offsets are committed a last time, unless the partition is lost or the
\* commit fails.  The marks go with the session.
Release(i) ==
  /\ loop[i] = "release"
  /\ \/ /\ Commit(i) /\ UNCHANGED <<cut, faults>>
     \/ /\ owner # i /\ CutOff(i) /\ UNCHANGED <<committed, faults>>
     \/ /\ faults < MaxFaults /\ faults' = faults + 1
        /\ CutOff(i) /\ UNCHANGED committed
  /\ owner' = IF owner = i THEN Nobody ELSE owner
  /\ mark' = [mark EXCEPT ![i] = IF Cancelled(i) THEN @ ELSE 0]
  /\ ConsumeReturned(i)
  /\ UNCHANGED <<log, writeVars, pos, offered, skipped>>

\* A spare member's session ends, for one that may have the partition.
EndSpare(i) ==
  /\ loop[i] = "spare"
  /\ Cancelled(i) \/ owner = Nobody \/ Rebalancing
  /\ ConsumeReturned(i)
  /\ UNCHANGED <<brokerVars, pos, mark, faults, historyVars>>

\* Consume returns an error before the session, which is logged.
ConsumeFails(i) ==
  /\ loop[i] \in {"consume", "sync"}
  /\ faults < MaxFaults /\ faults' = faults + 1
  /\ ConsumeReturned(i)
  /\ UNCHANGED <<brokerVars, pos, mark, historyVars>>

-----------------------------------------------------------------------------
\* The caller of Read.

EvalReady(i) ==
  /\ main[i] = "eval"
  /\ main' = [main EXCEPT ![i] = IF ready[i] THEN "notify" ELSE "await"]
  /\ UNCHANGED <<brokerVars, loop, ready, pos, mark, faults, historyVars>>

Notify(i) ==
  /\ main[i] = "notify"
  /\ main' = [main EXCEPT ![i] = "signal"]
  /\ UNCHANGED <<brokerVars, loop, ready, pos, mark, faults, historyVars>>

\* A signal arrives and the context is cancelled.
Sigterm(i) ==
  /\ main[i] = "signal"
  /\ main' = [main EXCEPT ![i] = "wait"]
  /\ UNCHANGED <<brokerVars, loop, ready, pos, mark, faults, historyVars>>

\* wg.Wait and client.Close, whose error Read returns.
Close(i) ==
  /\ main[i] = "wait" /\ loop[i] = "done"
  /\ main' = [main EXCEPT ![i] = "returned"]
  /\ UNCHANGED <<brokerVars, loop, ready, pos, mark, faults, historyVars>>

-----------------------------------------------------------------------------
\* The process ends, by a crash or by a signal that arrives before Notify.
Crash(i) ==
  /\ main[i] \notin Stopped
  /\ faults < MaxFaults /\ faults' = faults + 1
  /\ loop' = [loop EXCEPT ![i] = "down"]
  /\ main' = [main EXCEPT ![i] = "down"]
  /\ ready' = [ready EXCEPT ![i] = FALSE]
  /\ pos' = [pos EXCEPT ![i] = 0] /\ mark' = [mark EXCEPT ![i] = 0]
  /\ UNCHANGED <<brokerVars, historyVars>>

\* The coordinator gives up a member that is gone.
Expire(i) ==
  /\ owner = i /\ loop[i] \notin InSession
  /\ owner' = Nobody
  /\ UNCHANGED <<log, writeVars, committed, loop, main, ready, pos, mark, faults,
                 historyVars>>

\* The coordinator gives up a member that is there: its heartbeats are late.
Fence(i) ==
  /\ owner = i /\ loop[i] \in InSession
  /\ faults < MaxFaults /\ faults' = faults + 1
  /\ owner' = Nobody
  /\ UNCHANGED <<log, writeVars, committed, loop, main, ready, pos, mark, historyVars>>

-----------------------------------------------------------------------------
WriterStep(w) == SendMessage(w) \/ SendLost(w) \/ SendRefused(w)

\* The loop goes on by itself.
LoopStep(i) ==
  \/ Join(i) \/ JoinSpare(i) \/ StartClaim(i) \/ Callback(i) \/ CallbackReturned(i)
  \/ EndSession(i) /\ UNCHANGED faults
  \/ Release(i) /\ UNCHANGED faults
  \/ EndSpare(i)

MainStep(i) == EvalReady(i) \/ Notify(i) \/ Close(i)

Next ==
  \/ \E w \in Writes : Write(w) \/ WriterStep(w) \/ LateAppend(w)
  \/ \E i \in Instances :
       \/ InitBinding(i) \/ Read(i) \/ ReadFails(i) \/ LoopStep(i) \/ MainStep(i)
       \/ AutoCommit(i) \/ EndSession(i) \/ Release(i) \/ ConsumeFails(i)
       \/ Sigterm(i) \/ Crash(i) \/ Expire(i) \/ Fence(i)

Spec == Init /\ [][Next]_vars

\* A goroutine that can go on does; the coordinator notices that a member is
\* gone.  Nobody need call Read or Write, or send a signal.
FairSpec ==
  /\ Spec
  /\ \A w \in Writes : WF_vars(WriterStep(w))
  /\ \A i \in Instances :
       WF_vars(LoopStep(i)) /\ WF_vars(MainStep(i)) /\ WF_vars(Expire(i))

-----------------------------------------------------------------------------
\* Properties.

\* The group's offset never passes a message that no handler was given: the
\* only exceptions are those that were there before the group had an offset
\* (ConsumeClaim marks a message after the callback; a message whose callback
\* failed is passed when a later one succeeds, and was offered).
OfferedBeforeCommitted ==
  \A e \in 1 .. Len(log) : e < committed => e \in offered \cup skipped

\* The group's offset never goes back, so that no rebalance makes a message
\* that was marked and committed come again, also if a member that has lost
\* the partition goes on marking.
CommitNeverGoesBack == [][committed' >= committed]_committed

\* Setup never closes a closed channel, which would end the process: when
\* Consume begins, c.ready is a new channel (Read's loop makes one after each).
ReadyIsClosedOnce ==
  \A i \in Instances : loop[i] \in {"consume", "sync"} => ~ready[i]

\* When Read has returned after a signal, all it had marked is committed,
\* unless it had lost the partition or the last commit failed: the caller
\* waits for the loop, and that for the session's last commit.
StopCommits ==
  \A i \in Instances :
    main[i] = "returned" /\ i \notin cut => mark[i] <= committed

\* A Write that returned nil has stored its message, also when the producer
\* had to send it more than once.
WriteIsReal == \A w \in Writes : wr[w] = "ok" => \E e \in DOMAIN log : log[e] = w

\* Read hears a signal and returns: once the context is cancelled the loop
\* ends and Read with it, whatever the session does.
StopReturns ==
  \A i \in Instances : main[i] = "wait" ~> main[i] \in Stopped

\* The caller of Read gets past c.ready, unless a Consume fails before its
\* Setup while the caller waits on the channel that is then replaced: "stuck"
\* is reached in that way only.
ReadyIsSeen ==
  \A i \in Instances :
    main[i] \in {"eval", "await"} /\ faults = MaxFaults
      ~> main[i] \notin {"eval", "await", "stuck"}

\* Once the group has an offset, a stored message is given to a handler, over
\* rebalances, crashes and take-overs, unless at some time no reader is left.
\* (An offset is one past a message that was offered, so it is 2 at least.)
StoredIsOffered ==
  \A e \in 2 .. (MaxRetry + 1) :
    (e <= Len(log) /\ 0 < committed /\ committed <= e)
      ~> (e \in offered \/ \A i \in Instances : main[i] \in Stopped)
=============================================================================
