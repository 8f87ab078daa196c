------------------------ MODULE VersionedStoreProofs ------------------------
(***************************************************************************)
(* First write wins, proved for every set of keys and values.              *)
(***************************************************************************)
EXTENDS VersionedStore, TLAPS

\* FirstWriteWins is not inductive: a step may add a win for the current
\* version, and nothing in it says that this version has not been won before.
\* WinsAreBehind does.
Inv == TypeOK /\ WinsAreBehind /\ FirstWriteWins

\* The invariant holds initially.
LEMMA InitInv == Init => Inv
BY DEF Init, Inv, TypeOK, WinsAreBehind, FirstWriteWins

\* Adding the wins of requests that name versions their keys have not been past
\* keeps wins unique and typed.
LEMMA ConsumeKeepsUnique ==
  ASSUME Inv, NEW K \in SUBSET Keys, Consume(K),
         \A w \in wins' \ wins : w.version \in Int /\ w.version >= store[w.key].version
  PROVE  /\ FirstWriteWins'
         /\ \A w \in wins' : w.key \in Keys /\ w.era \in Nat /\ w.version \in Nat
<1>1. ASSUME NEW w \in wins' \ wins
      PROVE  /\ w.key \in Keys /\ IsVersioned(w.key)
             /\ w.era = era[w.key] /\ w.era \in Nat
             /\ store[w.key].version \in Nat
             /\ w.version >= store[w.key].version /\ w.version \in Nat
  BY DEF Consume, Inv, TypeOK, IsVersioned, Entries, Versioned, Absent
<1>2. ASSUME NEW w \in wins' \ wins, NEW u \in wins
      PROVE  ~(u.key = w.key /\ u.era = w.era /\ u.version = w.version)
  BY <1>1 DEF Inv, WinsAreBehind, TypeOK
<1>3. FirstWriteWins'
  <2> SUFFICES ASSUME NEW w1 \in wins', NEW w2 \in wins',
                      w1.key = w2.key, w1.era = w2.era, w1.version = w2.version
               PROVE  w1 = w2
    BY DEF FirstWriteWins
  <2>1. CASE w1 \in wins /\ w2 \in wins
    BY <2>1 DEF Inv, FirstWriteWins
  <2>2. CASE w1 \notin wins /\ w2 \notin wins
    BY <2>2 DEF Consume
  <2> QED BY <1>2, <2>1, <2>2
<1> QED BY <1>1, <1>3 DEF Inv, TypeOK

\* Ending the life of versions counts one up for each versioned key.
LEMMA EndErasType ==
  ASSUME Inv, NEW K, EndEras(K)
  PROVE  /\ era' \in [Keys -> Nat]
         /\ \A k \in Keys : era'[k] = IF k \in K /\ IsVersioned(k) THEN era[k] + 1 ELSE era[k]
BY DEF EndEras, Inv, TypeOK

\* The three forms of entry.
LEMMA EntryForms ==
  /\ Absent \in Entries
  /\ \A v \in Values : Plain(v) \in Entries
  /\ Versioned \subseteq Entries
BY DEF Entries, Plain

\* A write to some keys keeps the store's type and the other keys.
LEMMA FrameType ==
  ASSUME Inv, NEW K \in SUBSET Keys, Frame(K), \A k \in K : store'[k] \in Entries
  PROVE  /\ store' \in [Keys -> Entries]
         /\ \A k \in Keys \ K : store'[k] = store[k]
<1>1. \A k \in Keys \ K : store'[k] = store[k]
  BY DEF Frame
<1>2. \A k \in Keys : store'[k] \in Entries
  BY <1>1 DEF Inv, TypeOK
<1>3. store' = [k \in Keys |-> IF k \in K THEN store'[k] ELSE store[k]]
  BY DEF Frame
<1> QED BY <1>1, <1>2, <1>3

\* Every step keeps the invariant.
LEMMA NextInv ==
  ASSUME Batch \subseteq Nat \ {0}
  PROVE  Inv /\ [Next]_vars => Inv'
<1> SUFFICES ASSUME Inv, [Next]_vars PROVE Inv'
  OBVIOUS
<1>1. ASSUME NEW K \in SUBSET Keys, Write(K) PROVE Inv'
  <2>1. \A k \in K : store'[k] \in Versioned /\ store'[k].version - LastVersion(k) \in Batch
    BY <1>1 DEF Write
  <2>2. \A k \in K : store'[k].kind = "versioned" /\ store'[k].version \in Nat
    BY <2>1 DEF Versioned
  <2>3. /\ store' \in [Keys -> Entries]
        /\ \A k \in Keys \ K : store'[k] = store[k]
    BY <1>1, <2>1, EntryForms, FrameType DEF Write
  <2>4. \A k \in K : IsVersioned(k) => /\ store[k].version \in Nat
                                       /\ store[k].version < store'[k].version
    <3> SUFFICES ASSUME NEW k \in K, IsVersioned(k)
                 PROVE  store[k].version \in Nat /\ store[k].version < store'[k].version
      OBVIOUS
    <3>1. store[k].version \in Nat /\ LastVersion(k) = store[k].version
      BY DEF LastVersion, IsVersioned, Inv, TypeOK, Entries, Versioned, Absent
    <3> QED BY <2>1, <2>2, <3>1
  <2>5. \A w \in wins' \ wins : /\ w.version \in store[w.key].version .. store'[w.key].version - 1
                                /\ w.key \in K /\ IsVersioned(w.key)
    BY <1>1, Zenon DEF Write, Consume
  <2>6. \A w \in wins' \ wins : /\ w.version \in Int /\ w.version >= store[w.key].version
                                /\ w.version < store'[w.key].version
    BY <2>2, <2>4, <2>5
  <2>7. FirstWriteWins' /\ \A w \in wins' : w.key \in Keys /\ w.era \in Nat /\ w.version \in Nat
    BY <1>1, <2>6, ConsumeKeepsUnique DEF Write
  <2>8. WinsAreBehind'
    <3> SUFFICES ASSUME NEW w \in wins'
                 PROVE  \/ w.era < era'[w.key]
                        \/ /\ w.era = era'[w.key]
                           /\ store'[w.key].kind = "versioned"
                           /\ w.version < store'[w.key].version
      BY DEF WinsAreBehind, IsVersioned
    <3>1. era' = era
      BY <1>1 DEF Write
    <3>2. CASE w \notin wins
      BY <1>1, <2>2, <2>5, <2>6, <3>1, <3>2 DEF Write, Consume
    <3>3. CASE w \in wins
      BY <2>2, <2>3, <2>4, <3>1, <3>3 DEF Inv, WinsAreBehind, TypeOK, IsVersioned
    <3> QED BY <3>2, <3>3
  <2> QED BY <1>1, <2>3, <2>7, <2>8 DEF Write, Inv, TypeOK
<1>2. ASSUME NEW K \in SUBSET Keys, Remove(K) PROVE Inv'
  <2>1. /\ store' \in [Keys -> Entries]
        /\ \A k \in Keys \ K : store'[k] = store[k]
    BY <1>2, EntryForms, FrameType DEF Remove
  <2>2. /\ era' \in [Keys -> Nat]
        /\ \A k \in Keys : era'[k] = IF k \in K /\ IsVersioned(k) THEN era[k] + 1 ELSE era[k]
    BY <1>2, EndErasType DEF Remove
  <2>5. \A w \in wins' \ wins : w.version \in Int /\ w.version >= store[w.key].version
    BY <1>2 DEF Remove, Consume, Inv, TypeOK, IsVersioned, Entries, Versioned, Absent
  <2>3. FirstWriteWins' /\ \A w \in wins' : w.key \in Keys /\ w.era \in Nat /\ w.version \in Nat
    BY <1>2, <2>5, ConsumeKeepsUnique DEF Remove
  <2>4. WinsAreBehind'
    BY <1>2, <2>1, <2>2, <2>3 DEF Remove, Consume, Inv, WinsAreBehind, TypeOK, IsVersioned
  <2> QED BY <2>1, <2>2, <2>3, <2>4 DEF Inv, TypeOK
<1>3. ASSUME NEW K \in SUBSET Keys, Replace(K) PROVE Inv'
  <2>1. \A k \in K : store'[k] \in Entries
    BY <1>3, EntryForms DEF Replace
  <2>2. /\ store' \in [Keys -> Entries]
        /\ \A k \in Keys \ K : store'[k] = store[k]
    BY <1>3, <2>1, FrameType DEF Replace
  <2>3. /\ era' \in [Keys -> Nat]
        /\ \A k \in Keys : era'[k] = IF k \in K /\ IsVersioned(k) THEN era[k] + 1 ELSE era[k]
    BY <1>3, EndErasType DEF Replace
  <2>4. wins' = wins
    BY <1>3 DEF Replace
  <2>5. WinsAreBehind'
    BY <2>2, <2>3, <2>4 DEF Inv, WinsAreBehind, TypeOK, IsVersioned
  <2> QED BY <2>2, <2>3, <2>4, <2>5 DEF Inv, TypeOK, FirstWriteWins
<1>4. CASE UNCHANGED vars
  BY <1>4 DEF vars, Inv, TypeOK, WinsAreBehind, FirstWriteWins, IsVersioned
<1> QED BY <1>1, <1>2, <1>3, <1>4 DEF Next

\* Of all requests that name the same version of a key, in one life of its
\* version counter, at most one takes effect: what every store with ETags
\* owes its callers, whatever the keys and the data.
THEOREM FirstWriteWinsHolds ==
  ASSUME Batch \subseteq Nat \ {0}
  PROVE  Spec => []FirstWriteWins
<1>1. Inv => FirstWriteWins
  BY DEF Inv
<1>2. Inv /\ [Next]_vars => Inv'
  BY NextInv
<1> QED BY InitInv, <1>1, <1>2, PTL DEF Spec
=============================================================================
