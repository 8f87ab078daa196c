--------------------------- MODULE VersionedStore ---------------------------
(***************************************************************************)
(* What a state store with ETags promises its callers (the interface of    *)
(* src/state/store.go and the ETag fields of src/state/requests.go),       *)
(* without calls, retries, connections or server commands.                 *)
(*                                                                         *)
(* A key is absent, holds plain data that has no version, or holds         *)
(* versioned data.  Every accepted write of a versioned key moves its      *)
(* version up by one; a request that names a version is accepted on a      *)
(* versioned key only if it names the current one.  When a versioned key   *)
(* is removed or overwritten with plain data its version counter is lost,  *)
(* and a later write starts again at FirstVersion: an era of the key ends. *)
(* A step is what the server does together: where that may be several      *)
(* writes of one key, Batch holds their possible numbers.                  *)
(***************************************************************************)
EXTENDS Integers

CONSTANTS
  Keys,          \* keys of the store
  Values,        \* data a key can hold
  FirstVersion,  \* the version a key gets when a write creates it
  Batch          \* how many writes of a key one step may hold

VARIABLES
  store,   \* what each key holds
  era,     \* how many version counters each key has lost so far
  wins     \* the accepted requests that named the version of a versioned key

vars == <<store, era, wins>>

Absent == [kind |-> "absent"]
Plain(v) == [kind |-> "plain", data |-> v]
Versioned == [kind : {"versioned"}, data : Values, version : Nat]

Entries == {Absent} \cup [kind : {"plain"}, data : Values] \cup Versioned

IsVersioned(k) == store[k].kind = "versioned"

TypeOK ==
  /\ store \in [Keys -> Entries]
  /\ era \in [Keys -> Nat]
  /\ \A w \in wins : w.key \in Keys /\ w.era \in Nat /\ w.version \in Nat

Init ==
  /\ store \in [Keys -> Entries]
  /\ era = [k \in Keys |-> 0]
  /\ wins = {}

-----------------------------------------------------------------------------
\* The version a key is at; without one it is a write short of FirstVersion.
LastVersion(k) == IF IsVersioned(k) THEN store[k].version ELSE FirstVersion - 1

EndEras(K) ==
  era' = [k \in Keys |-> IF k \in K /\ IsVersioned(k) THEN era[k] + 1 ELSE era[k]]

\* The requests of a step that are accepted because they named a version of a
\* key of K: at most one for each version.
Consume(K) ==
  /\ wins \subseteq wins'
  /\ \A w \in wins' \ wins :
       /\ w.key \in K
       /\ IsVersioned(w.key)
       /\ w.era = era[w.key]
  /\ \A w1, w2 \in wins' \ wins : w1.key = w2.key /\ w1.version = w2.version => w1 = w2

Frame(K) == store' = [k \in Keys |-> IF k \in K THEN store'[k] ELSE store[k]]

\* The keys of K are written together, each unconditionally or accepted for its
\* version.  On a key without a version every write is accepted.
Write(K) ==
  /\ \A k \in K :
       /\ store'[k] \in Versioned
       /\ store'[k].version - LastVersion(k) \in Batch
  /\ Frame(K)
  /\ Consume(K)
  /\ \A w \in wins' \ wins : w.version \in store[w.key].version .. store'[w.key].version - 1
  /\ UNCHANGED era

\* The keys of K are removed together, under the same conditions.
Remove(K) ==
  /\ \A k \in K : store'[k] = Absent
  /\ Frame(K)
  /\ Consume(K)
  /\ \A w \in wins' \ wins : w.version = store[w.key].version
  /\ EndEras(K)

\* The keys of K are replaced together, whatever versions they have: by a
\* transaction without conditions, or by a writer that knows no versions.
Replace(K) ==
  /\ \A k \in K : store'[k] = Absent \/ \E v \in Values : store'[k] = Plain(v)
  /\ Frame(K)
  /\ EndEras(K)
  /\ UNCHANGED wins

Next == \E K \in SUBSET Keys : Write(K) \/ Remove(K) \/ Replace(K)

Spec == Init /\ [][Next]_vars

-----------------------------------------------------------------------------
\* First write wins: of all requests that name the same version of a key, in
\* the same life of its version counter, at most one ever takes effect.
FirstWriteWins ==
  \A w1, w2 \in wins :
    (w1.key = w2.key /\ w1.era = w2.era /\ w1.version = w2.version) => w1 = w2

\* Why: the version a request won on is behind the key for good.
WinsAreBehind ==
  \A w \in wins :
    \/ w.era < era[w.key]
    \/ /\ w.era = era[w.key]
       /\ IsVersioned(w.key)
       /\ w.version < store[w.key].version
=============================================================================
