---------------------------- MODULE AtLeastOnce -----------------------------
(***************************************************************************)
(* What a pub/sub component promises with respect to a message once it is  *)
(* stored (src/pubsub/pubsub.go: Subscribe with a handler that returns an  *)
(* error): a message is queued, delivered to a consumer, possibly queued   *)
(* again, and settled, and it is settled only if a handler has accepted    *)
(* it.  A broker may put a message aside where it is kept, buried.         *)
(* Nothing is promised about how often a handler sees a message.           *)
(* Messages are known by the order in which they were stored.              *)
(***************************************************************************)
EXTENDS Naturals, Sequences

VARIABLES
  status,    \* per stored message: "queued", "delivered", "settled" or "buried"
  accepted   \* the messages a handler has returned nil for

vars == <<status, accepted>>

TypeOK ==
  /\ status \in Seq({"queued", "delivered", "settled", "buried"})
  /\ accepted \subseteq DOMAIN status

Init == status = <<>> /\ accepted = {}

\* Messages of S move from one status to another.
Move(S, from, to) ==
  /\ S \subseteq {e \in DOMAIN status : status[e] = from}
  /\ status' = [e \in DOMAIN status |-> IF e \in S THEN to ELSE status[e]]

Store == status' = Append(status, "queued") /\ UNCHANGED accepted

Deliver(S) == Move(S, "queued", "delivered") /\ UNCHANGED accepted

Requeue(S) == Move(S, "delivered", "queued") /\ UNCHANGED accepted

Bury(S) == Move(S, "delivered", "buried") /\ UNCHANGED accepted

\* A handler returns nil; a slow one may do so for a message that has been
\* queued again or settled.
Accept(e) ==
  /\ accepted' = accepted \cup {e}
  /\ UNCHANGED status

\* Some brokers settle a message also if it has been queued again.
Settle(S) ==
  /\ S \subseteq accepted
  /\ Move(S, "delivered", "settled") \/ Move(S, "queued", "settled")
  /\ UNCHANGED accepted

Next ==
  \/ Store
  \/ \E S \in SUBSET DOMAIN status : Deliver(S) \/ Requeue(S) \/ Bury(S) \/ Settle(S)
  \/ \E e \in DOMAIN status : Accept(e)

Spec == Init /\ [][Next]_vars

\* A message that is settled has been accepted by a handler: no message is lost.
SettledWasAccepted ==
  \A e \in DOMAIN status : status[e] = "settled" => e \in accepted
=============================================================================
