------------------------- MODULE RedisStreamsProofs -------------------------
(***************************************************************************)
(* The safety of pub/sub on Redis streams for any number of messages,      *)
(* instances, retries and crashes: it implements AtLeastOnce, no entry is  *)
(* lost, Publish stores what it reports as stored, and a reader hands on   *)
(* entries in their order and passes over none that is pending.            *)
(*                                                                         *)
(* The invariant follows an entry from the reply a reader works on to the  *)
(* acknowledgement: what is acknowledged, now or late, was accepted, and   *)
(* what a reader has still to handle comes after what it has handled.      *)
(***************************************************************************)
EXTENDS RedisStreams, SequenceTheorems, WellFoundedInduction, TLAPS

USE BoundsAssumption

\* processStreams begins with the oldest entry of a reply.
LEMMA FirstIsLeast ==
  ASSUME NEW S, S \subseteq Nat, S # {}
  PROVE  First(S) \in S /\ \A d \in S : First(S) <= d
<1> DEFINE Less == {p \in Nat \X Nat : p[1] < p[2]}
<1>1. IsWellFoundedOn(Less, Nat)
  BY NatLessThanWellFounded DEF OpToRel
<1>2. PICK x \in S : \A y \in S : ~(<<y, x>> \in Less)
  <2> HIDE DEF Less
  <2> QED BY <1>1, WFMin, Zenon
<1>3. ASSUME NEW y \in S PROVE x <= y
  <2>1. <<y, x>> \in Nat \X Nat /\ <<y, x>>[1] = y /\ <<y, x>>[2] = x
    OBVIOUS
  <2>2. ~(y < x)
    BY <1>2, <2>1
  <2> QED BY <2>2
<1> QED BY <1>3, Zenon DEF First

\* What a reader works on, has handled and will acknowledge.
Reader(i) ==
  /\ pc[i] = "ack" =>
       /\ batch[i] # {} /\ First(batch[i]) \in accepted
       /\ \A e \in batch[i] \ {First(batch[i])}, d \in seen[i] : d < e
  /\ pc[i] = "handle" => \A e \in batch[i], d \in seen[i] : d < e
  /\ pc[i] \in {"down", "create"} \/ (pc[i] = "read" /\ start[i] = "0") => seen[i] = {}

\* The inductive invariant.
IInv ==
  /\ TypeOK
  /\ \A i \in Instances : Reader(i)
  /\ \A e \in 1 .. last : e \in pel \cup accepted
  /\ PublishIsReal

\* The part of the invariant that a step of publishers leaves alone.
Delivery ==
  /\ group \in {"none", "late", "made"}
  /\ pel \subseteq 1 .. last
  /\ lateReads \in Nat
  /\ lateAcks \subseteq accepted
  /\ pc \in [Instances -> {"down", "create", "read", "handle", "ack", "dead"}]
  /\ start \in [Instances -> {"0", ">"}]
  /\ batch \in [Instances -> SUBSET (1 .. last)]
  /\ faults \in 0 .. MaxFaults
  /\ accepted \subseteq 1 .. last
  /\ seen \in [Instances -> SUBSET (1 .. last)]
  /\ \A i \in Instances : Reader(i)
  /\ \A e \in 1 .. last : e \in pel \cup accepted

\* The part that a step of readers leaves alone.
Publishing ==
  /\ stream \in Seq(Messages) /\ last \in 0 .. Len(stream)
  /\ lateAdds \in [Messages -> Nat]
  /\ pub \in [Messages -> {"idle", "sending", "ok", "err"}]
  /\ tries \in [Messages \cup Instances -> 0 .. MaxRetries]
  /\ PublishIsReal

\* The invariant, as the consumers' part and the publisher's.
LEMMA IInvParts == IInv <=> Delivery /\ Publishing
BY Zenon DEF IInv, TypeOK, Delivery, Publishing

\* The steps of a Publish, lost answers included, keep the invariant.
LEMMA PublisherKeeps ==
  ASSUME IInv, NEW m \in Messages,
         Publish(m) \/ XAdd(m) \/ XAddLost(m) \/ LateXAdd(m)
  PROVE  IInv'
<1>0. Delivery /\ Publishing
  BY IInvParts
<1>1. UNCHANGED <<group, last, pel, lateReads, lateAcks, pc, start, batch, faults, accepted, seen>>
  BY Zenon DEF Publish, XAdd, XAddLost, LateXAdd, serverVars, lateVars
<1>2. Delivery'
  BY <1>0, <1>1, Zenon DEF Delivery, Reader
<1>3. ASSUME Publish(m) PROVE Publishing'
  BY <1>0, <1>3, Zenon DEF Publish, Publishing, PublishIsReal, Entries, serverVars, lateVars
<1>4. ASSUME XAddLost(m) PROVE Publishing'
  <2>1. /\ pub' = pub \/ pub' = [pub EXCEPT ![m] = "err"]
        /\ tries' = tries \/ (tries[m] < MaxRetries /\ tries' = [tries EXCEPT ![m] = @ + 1])
        /\ lateAdds' = [lateAdds EXCEPT ![m] = @ + 1]
        /\ stream' = stream /\ last' = last
    BY <1>4, Zenon DEF XAddLost, serverVars
  <2>2. tries' \in [Messages \cup Instances -> 0 .. MaxRetries]
    <3>1. CASE tries' = tries
      BY <1>0, <3>1 DEF Publishing
    <3>2. CASE tries[m] < MaxRetries /\ tries' = [tries EXCEPT ![m] = @ + 1]
      BY <1>0, <3>2 DEF Publishing
    <3> QED BY <2>1, <3>1, <3>2
  <2>3. lateAdds' \in [Messages -> Nat]
    BY <1>0, <2>1 DEF Publishing
  <2>4. PublishIsReal' /\ pub' \in [Messages -> {"idle", "sending", "ok", "err"}]
    BY <1>0, <2>1, Zenon DEF Publishing, PublishIsReal, Entries
  <2> QED BY <1>0, <2>1, <2>2, <2>3, <2>4, SMTT(20) DEF Publishing
<1>5. ASSUME XAdd(m) \/ LateXAdd(m) PROVE Publishing'
  <2>1. stream' = Append(stream, m) /\ last' = last /\ tries' = tries
    BY <1>5, Zenon DEF XAdd, LateXAdd
  <2>2. /\ stream' \in Seq(Messages) /\ last' \in 0 .. Len(stream')
        /\ \A e \in 1 .. Len(stream) : e \in 1 .. Len(stream') /\ stream'[e] = stream[e]
        /\ Len(stream) + 1 \in 1 .. Len(stream') /\ stream'[Len(stream) + 1] = m
    BY <1>0, <2>1 DEF Publishing
  <2>3. lateAdds' \in [Messages -> Nat] /\ pub' \in [Messages -> {"idle", "sending", "ok", "err"}]
    <3>1. CASE XAdd(m)
      BY <1>0, <3>1 DEF XAdd, Publishing, lateVars
    <3>2. CASE LateXAdd(m)
      BY <1>0, <3>2 DEF LateXAdd, Publishing
    <3> QED BY <1>5, <3>1, <3>2
  <2>4. \A n \in Messages \ {m} : pub'[n] = pub[n]
    BY <1>0, <1>5, Zenon DEF XAdd, LateXAdd, Publishing
  <2>5. PublishIsReal'
    BY <1>0, <2>2, <2>4, Zenon DEF Publishing, PublishIsReal, Entries
  <2> QED BY <1>0, <2>1, <2>2, <2>3, <2>5, SMTT(20) DEF Publishing
<1>6. Publishing'
  BY <1>3, <1>4, <1>5
<1> QED BY <1>2, <1>6, IInvParts, PTL

\* A step of instance i leaves what publishers rely on, and the other readers.
LEMMA ReaderKeeps ==
  ASSUME IInv, NEW i \in Instances,
         UNCHANGED <<stream, lateAdds, pub>>,
         last' \in last .. Len(stream), tries' \in [Messages \cup Instances -> 0 .. MaxRetries],
         group' \in {"none", "late", "made"}, lateReads' \in Nat, faults' \in 0 .. MaxFaults,
         pel' \subseteq 1 .. last', accepted' \subseteq 1 .. last', lateAcks' \subseteq accepted',
         accepted \subseteq accepted', \A e \in 1 .. last' : e \in pel' \cup accepted',
         NEW at \in {"down", "create", "read", "handle", "ack", "dead"},
         NEW b \in SUBSET (1 .. last'), NEW z \in SUBSET (1 .. last'), NEW from \in {"0", ">"},
         pc' = [pc EXCEPT ![i] = at], batch' = [batch EXCEPT ![i] = b],
         seen' = [seen EXCEPT ![i] = z], start' = [start EXCEPT ![i] = from],
         Reader(i)'
  PROVE  IInv'
<1>0. Delivery /\ Publishing
  BY IInvParts
<1>1. last \in Nat /\ last' \in Nat /\ last <= last' /\ last' <= Len(stream) /\ Len(stream) \in Nat
  BY <1>0 DEF Publishing
<1>2. /\ pc' \in [Instances -> {"down", "create", "read", "handle", "ack", "dead"}]
      /\ start' \in [Instances -> {"0", ">"}]
  BY <1>0, Zenon DEF Delivery
<1>3. \A j \in Instances : batch[j] \subseteq 1 .. last' /\ seen[j] \subseteq 1 .. last'
  BY <1>0, <1>1, SMTT(20) DEF Delivery
<1>4. batch' \in [Instances -> SUBSET (1 .. last')] /\ seen' \in [Instances -> SUBSET (1 .. last')]
  BY <1>0, <1>3, Zenon DEF Delivery
<1>5. ASSUME NEW j \in Instances PROVE Reader(j)'
  <2>1. CASE j = i
    BY <2>1
  <2>2. CASE j # i
    <3>1. pc'[j] = pc[j] /\ batch'[j] = batch[j] /\ seen'[j] = seen[j] /\ start'[j] = start[j]
      BY <1>0, <2>2, Zenon DEF Delivery
    <3> QED BY <1>0, <3>1, Zenon DEF Delivery, Reader
  <2> QED BY <2>1, <2>2
<1>6. Delivery'
  BY <1>2, <1>4, <1>5, Zenon DEF Delivery
<1>7. Publishing'
  BY <1>0, <1>1, SMTT(20) DEF Publishing, PublishIsReal, Entries
<1> QED BY <1>6, <1>7, IInvParts, PTL

\* Writing back a reader's own values changes nothing.
LEMMA SameReader ==
  ASSUME IInv, NEW i \in Instances
  PROVE  /\ pc = [pc EXCEPT ![i] = pc[i]] /\ start = [start EXCEPT ![i] = start[i]]
         /\ batch = [batch EXCEPT ![i] = batch[i]] /\ seen = [seen EXCEPT ![i] = seen[i]]
         /\ pc[i] \in {"down", "create", "read", "handle", "ack", "dead"}
         /\ start[i] \in {"0", ">"} /\ batch[i] \subseteq 1 .. last /\ seen[i] \subseteq 1 .. last
BY Zenon DEF IInv, TypeOK

\* What the steps of a reader use of the types.
LEMMA ReaderTypes ==
  ASSUME IInv
  PROVE  /\ last \in Nat /\ Len(stream) \in Nat /\ last <= Len(stream)
         /\ last \in last .. Len(stream)
         /\ tries \in [Messages \cup Instances -> 0 .. MaxRetries]
         /\ group \in {"none", "late", "made"} /\ lateReads \in Nat /\ faults \in 0 .. MaxFaults
         /\ pel \subseteq 1 .. last /\ accepted \subseteq 1 .. last /\ lateAcks \subseteq accepted
         /\ \A e \in 1 .. last : e \in pel \cup accepted
<1>1. stream \in Seq(Messages) /\ last \in 0 .. Len(stream)
  BY Zenon DEF IInv, TypeOK
<1>2. /\ last \in Nat /\ Len(stream) \in Nat /\ last <= Len(stream)
      /\ last \in last .. Len(stream)
  BY <1>1
<1>3. /\ tries \in [Messages \cup Instances -> 0 .. MaxRetries]
      /\ group \in {"none", "late", "made"} /\ lateReads \in Nat /\ faults \in 0 .. MaxFaults
      /\ pel \subseteq 1 .. last /\ accepted \subseteq 1 .. last /\ lateAcks \subseteq accepted
      /\ \A e \in 1 .. last : e \in pel \cup accepted
  BY Zenon DEF IInv, TypeOK
<1> QED BY <1>2, <1>3, Zenon

\* A step that moves a reader and leaves the server and its reply alone.
LEMMA MoveKeeps ==
  ASSUME IInv, NEW i \in Instances,
         UNCHANGED <<serverVars, lateAdds, lateAcks, pub, start, batch, accepted, seen>>,
         lateReads' \in Nat, faults' \in 0 .. MaxFaults,
         tries' \in [Messages \cup Instances -> 0 .. MaxRetries],
         NEW at \in {"down", "create", "read", "handle", "ack", "dead"},
         pc' = [pc EXCEPT ![i] = at], Reader(i)'
  PROVE  IInv'
<1>1. /\ stream' = stream /\ group' = group /\ last' = last /\ pel' = pel /\ lateAdds' = lateAdds
      /\ pub' = pub /\ accepted' = accepted /\ lateAcks' = lateAcks
      /\ batch' = batch /\ seen' = seen /\ start' = start
  BY DEF serverVars
<1>2. /\ group' \in {"none", "late", "made"} /\ last' \in last .. Len(stream)
      /\ pel' \subseteq 1 .. last' /\ accepted' \subseteq 1 .. last'
      /\ lateAcks' \subseteq accepted' /\ accepted \subseteq accepted'
      /\ \A e \in 1 .. last' : e \in pel' \cup accepted'
  BY <1>1, ReaderTypes, Zenon
<1>3. /\ batch[i] \in SUBSET (1 .. last') /\ seen[i] \in SUBSET (1 .. last')
      /\ start[i] \in {"0", ">"} /\ batch' = [batch EXCEPT ![i] = batch[i]]
      /\ seen' = [seen EXCEPT ![i] = seen[i]] /\ start' = [start EXCEPT ![i] = start[i]]
  <2>1. /\ batch = [batch EXCEPT ![i] = batch[i]] /\ seen = [seen EXCEPT ![i] = seen[i]]
        /\ start = [start EXCEPT ![i] = start[i]] /\ start[i] \in {"0", ">"}
        /\ batch[i] \subseteq 1 .. last /\ seen[i] \subseteq 1 .. last
    BY SameReader, Zenon
  <2> QED BY <1>1, <2>1, Zenon
<1> QED BY <1>1, <1>2, <1>3, ReaderKeeps, Zenon

\* The steps of a reader, and its crash, keep the invariant.
LEMMA ReaderStepKeeps ==
  ASSUME IInv, NEW i \in Instances, Subscribe(i) \/ ReaderStep(i) \/ ReadLost(i) \/ Crash(i)
  PROVE  IInv'
<1>0. /\ last \in Nat /\ Len(stream) \in Nat /\ last <= Len(stream)
      /\ last \in last .. Len(stream)
      /\ tries \in [Messages \cup Instances -> 0 .. MaxRetries]
      /\ group \in {"none", "late", "made"} /\ lateReads \in Nat /\ faults \in 0 .. MaxFaults
      /\ pel \subseteq 1 .. last /\ accepted \subseteq 1 .. last /\ lateAcks \subseteq accepted
      /\ \A e \in 1 .. last : e \in pel \cup accepted
  BY ReaderTypes, Zenon
<1>s. /\ pc = [pc EXCEPT ![i] = pc[i]] /\ start = [start EXCEPT ![i] = start[i]]
      /\ batch = [batch EXCEPT ![i] = batch[i]] /\ seen = [seen EXCEPT ![i] = seen[i]]
      /\ pc[i] \in {"down", "create", "read", "handle", "ack", "dead"}
      /\ start[i] \in {"0", ">"} /\ batch[i] \subseteq 1 .. last /\ seen[i] \subseteq 1 .. last
  BY SameReader
<1>t. [tries EXCEPT ![i] = 0] \in [Messages \cup Instances -> 0 .. MaxRetries]
  BY <1>0
<1>r. Reader(i)
  BY DEF IInv
<1>u. ASSUME NEW at \in {"down", "create", "read", "handle", "ack", "dead"},
             pc' = [pc EXCEPT ![i] = at]
      PROVE  pc'[i] = at
  BY <1>u DEF IInv, TypeOK
<1>v. ASSUME NEW b, batch' = [batch EXCEPT ![i] = b] PROVE batch'[i] = b
  BY <1>v DEF IInv, TypeOK
<1>w. ASSUME NEW z, seen' = [seen EXCEPT ![i] = z] PROVE seen'[i] = z
  BY <1>w DEF IInv, TypeOK
<1>x. ASSUME NEW z, start' = [start EXCEPT ![i] = z] PROVE start'[i] = z
  BY <1>x DEF IInv, TypeOK
<1>1. ASSUME Subscribe(i) PROVE IInv'
  <2>1. /\ pc[i] = "down" /\ pc' = [pc EXCEPT ![i] = "create"]
        /\ UNCHANGED <<serverVars, lateVars, pub, start, batch, tries, faults, accepted, seen>>
    BY <1>1 DEF Subscribe
  <2>2. Reader(i)'
    BY <1>r, <1>u, <2>1, Zenon DEF Reader
  <2> QED BY <1>0, <2>1, <2>2, MoveKeeps, Zenon DEF lateVars
<1>2. ASSUME GroupCreate(i) \/ GroupCreateLost(i) PROVE IInv'
  <2>1. /\ pc[i] = "create" /\ pc' = [pc EXCEPT ![i] = "read"]
        /\ start' = [start EXCEPT ![i] = "0"] /\ tries' = [tries EXCEPT ![i] = 0]
        /\ UNCHANGED <<stream, pel, last, lateVars, pub, batch, faults, accepted, seen>>
        /\ group' \in {"made", "late"}
    BY <1>2 DEF GroupCreate, GroupCreateLost, BeginReading
  <2>2. Reader(i)'
    BY <1>r, <1>u, <1>x, <2>1, Zenon DEF Reader
  <2> QED BY <1>0, <1>s, <1>t, <2>1, <2>2, ReaderKeeps, Zenon DEF lateVars
<1>3. ASSUME ReadPending(i) PROVE IInv'
  <2>1. /\ pc[i] = "read" /\ start[i] = "0" /\ pc' = [pc EXCEPT ![i] = "handle"]
        /\ batch' = [batch EXCEPT ![i] = pel]
        /\ UNCHANGED <<serverVars, lateVars, pub, start, tries, faults, accepted, seen>>
    BY <1>3 DEF ReadPending
  <2>2. Reader(i)'
    BY <1>r, <1>u, <2>1, Zenon DEF Reader
  <2> QED BY <1>0, <1>s, <2>1, <2>2, ReaderKeeps, Zenon DEF serverVars, lateVars
<1>4. ASSUME ReadNew(i) PROVE IInv'
  <2>1. /\ pc[i] = "read" /\ pc' = [pc EXCEPT ![i] = "handle"]
        /\ last' = Len(stream) /\ pel' = pel \cup (last + 1 .. Len(stream))
        /\ batch' = [batch EXCEPT ![i] = last + 1 .. Len(stream)]
        /\ UNCHANGED <<stream, group, lateVars, pub, start, tries, faults, accepted, seen>>
    BY <1>4 DEF ReadNew, Delivered
  <2>2. Reader(i)'
    <3>1. \A e \in last + 1 .. Len(stream), d \in seen[i] : d < e
      BY <1>0, <1>s
    <3> QED BY <1>u, <1>v, <2>1, <3>1, Zenon DEF Reader
  <2>3. /\ pel' \subseteq 1 .. last' /\ accepted' \subseteq 1 .. last'
        /\ last + 1 .. Len(stream) \in SUBSET (1 .. last') /\ seen[i] \in SUBSET (1 .. last')
        /\ \A e \in 1 .. last' : e \in pel' \cup accepted'
        /\ last' \in last .. Len(stream) /\ lateAcks' \subseteq accepted'
    BY <1>0, <1>s, <2>1, SMTT(20) DEF lateVars
  <2> DEFINE new == last + 1 .. Len(stream)
  <2>4. new \in SUBSET (1 .. last') /\ batch' = [batch EXCEPT ![i] = new]
    BY <2>1, <2>3
  <2>5. /\ UNCHANGED <<stream, lateAdds, pub>> /\ group' = group /\ lateReads' = lateReads
        /\ faults' = faults /\ tries' = tries /\ accepted' = accepted
        /\ seen' = seen /\ start' = start /\ pc' = [pc EXCEPT ![i] = "handle"]
    BY <2>1 DEF lateVars
  <2> HIDE DEF new
  <2> QED BY <1>0, <1>s, <2>2, <2>3, <2>4, <2>5, ReaderKeeps, Zenon
<1>5. ASSUME ReadFails(i) PROVE IInv'
  <2>1. /\ pc' = [pc EXCEPT ![i] = "dead"]
        /\ UNCHANGED <<serverVars, lateVars, pub, start, batch, tries, faults, accepted, seen>>
    BY <1>5 DEF ReadFails
  <2>2. Reader(i)'
    BY <1>u, <2>1, Zenon DEF Reader
  <2> QED BY <1>0, <2>1, <2>2, MoveKeeps, Zenon DEF lateVars
<1>6. ASSUME ReadLost(i) PROVE IInv'
  <2>1. /\ pc[i] = "read" /\ lateReads' \in Nat /\ faults' \in 0 .. MaxFaults
        /\ UNCHANGED <<serverVars, lateAdds, lateAcks, pub, start, batch, accepted, seen>>
    BY <1>0, <1>6, SMTT(20) DEF ReadLost, Fault
  <2>2. CASE pc' = pc /\ tries[i] < MaxRetries /\ tries' = [tries EXCEPT ![i] = @ + 1]
    <3>1. tries' \in [Messages \cup Instances -> 0 .. MaxRetries]
      BY <1>0, <2>2
    <3>2. Reader(i)'
      BY <1>r, <2>1, <2>2, Zenon DEF Reader
    <3> QED BY <1>s, <2>1, <2>2, <3>1, <3>2, MoveKeeps, Zenon
  <2>3. CASE pc' = [pc EXCEPT ![i] = "dead"] /\ tries' = tries
    <3>1. Reader(i)'
      BY <1>u, <2>3 DEF Reader
    <3> QED BY <1>0, <2>1, <2>3, <3>1, MoveKeeps, Zenon
  <2> QED BY <1>6, <2>2, <2>3, Zenon DEF ReadLost
<1>f. batch[i] # {} => /\ First(batch[i]) \in batch[i] /\ First(batch[i]) \in 1 .. last
                       /\ \A d \in batch[i] : First(batch[i]) <= d
  BY <1>0, <1>s, FirstIsLeast, SMTT(20)
<1>g. batch[i] # {} => \A e \in batch[i] \ {First(batch[i])} : First(batch[i]) < e
  BY <1>0, <1>s, <1>f, SMTT(20)
<1>7. ASSUME HandlerAccepts(i) PROVE IInv'
  <2> DEFINE f == First(batch[i])
  <2>1. /\ pc[i] = "handle" /\ batch[i] # {} /\ accepted' = accepted \cup {f}
        /\ seen' = [seen EXCEPT ![i] = seen[i] \cup {f}] /\ pc' = [pc EXCEPT ![i] = "ack"]
        /\ UNCHANGED <<serverVars, lateVars, pub, start, batch, tries, faults>>
    BY <1>7 DEF HandlerAccepts
  <2>2. seen'[i] = seen[i] \cup {f} /\ pc'[i] = "ack" /\ batch'[i] = batch[i]
    BY <1>u, <1>w, <2>1, Zenon
  <2>3. \A e \in batch[i] \ {f}, d \in seen[i] \cup {f} : d < e
    BY <1>r, <1>g, <2>1, Zenon DEF Reader
  <2>4. Reader(i)'
    BY <2>1, <2>2, <2>3, Zenon DEF Reader
  <2>5. seen[i] \cup {f} \in SUBSET (1 .. last) /\ accepted' \subseteq 1 .. last
    BY <1>0, <1>s, <1>f, <2>1, Zenon
  <2> HIDE DEF f
  <2> QED BY <1>0, <1>s, <2>1, <2>4, <2>5, ReaderKeeps, Zenon DEF serverVars, lateVars
<1>8. ASSUME HandlerFails(i) PROVE IInv'
  <2> DEFINE f == First(batch[i])
  <2>1. /\ pc[i] = "handle" /\ batch[i] # {}
        /\ seen' = [seen EXCEPT ![i] = seen[i] \cup {f}]
        /\ batch' = [batch EXCEPT ![i] = batch[i] \ {f}]
        /\ UNCHANGED <<serverVars, lateVars, pub, pc, start, tries, faults, accepted>>
    BY <1>8 DEF HandlerFails
  <2>2. seen'[i] = seen[i] \cup {f} /\ pc'[i] = "handle" /\ batch'[i] = batch[i] \ {f}
    BY <1>v, <1>w, <2>1, Zenon
  <2>3. \A e \in batch[i] \ {f}, d \in seen[i] \cup {f} : d < e
    BY <1>r, <1>g, <2>1, Zenon DEF Reader
  <2>4. Reader(i)'
    BY <2>2, <2>3 DEF Reader
  <2>5. seen[i] \cup {f} \in SUBSET (1 .. last) /\ batch[i] \ {f} \in SUBSET (1 .. last)
    BY <1>s, <1>f, <2>1, Zenon
  <2> HIDE DEF f
  <2> QED BY <1>0, <1>s, <2>1, <2>4, <2>5, ReaderKeeps, Zenon DEF serverVars, lateVars
<1>9. ASSUME XAck(i) \/ XAckLost(i) PROVE IInv'
  <2> DEFINE f == First(batch[i])
  <2>1. /\ pc[i] = "ack" /\ pc' = [pc EXCEPT ![i] = "handle"]
        /\ batch' = [batch EXCEPT ![i] = batch[i] \ {f}]
        /\ UNCHANGED <<stream, group, last, lateAdds, lateReads, pub, start, tries, accepted, seen>>
        /\ pel' \in {pel, pel \ {f}} /\ lateAcks' \in {lateAcks, lateAcks \cup {f}}
    BY <1>9, Zenon DEF XAck, XAckLost, serverVars, lateVars
  <2>6. faults' \in 0 .. MaxFaults
    BY <1>0, <1>9, SMTT(20) DEF XAck, XAckLost, Fault
  <2>2. pc'[i] = "handle" /\ batch'[i] = batch[i] \ {f}
    BY <1>u, <1>v, <2>1, Zenon
  <2>3. f \in accepted /\ \A e \in batch[i] \ {f}, d \in seen[i] : d < e
    BY <1>r, <2>1, Zenon DEF Reader
  <2>4. Reader(i)'
    BY <2>1, <2>2, <2>3, Zenon DEF Reader
  <2>5. /\ pel' \subseteq 1 .. last /\ lateAcks' \subseteq accepted
        /\ batch[i] \ {f} \in SUBSET (1 .. last)
        /\ \A e \in 1 .. last : e \in pel' \cup accepted
    BY <1>0, <1>s, <2>1, <2>3, Zenon
  <2> HIDE DEF f
  <2> QED BY <1>0, <1>s, <2>1, <2>4, <2>5, <2>6, ReaderKeeps, Zenon
<1>10. ASSUME ReadOn(i) PROVE IInv'
  <2>1. /\ pc' = [pc EXCEPT ![i] = "read"] /\ start' = [start EXCEPT ![i] = ">"]
        /\ tries' = [tries EXCEPT ![i] = 0]
        /\ UNCHANGED <<serverVars, lateVars, pub, batch, faults, accepted, seen>>
    BY <1>10 DEF ReadOn
  <2>2. Reader(i)'
    BY <1>u, <1>x, <2>1, Zenon DEF Reader
  <2> QED BY <1>0, <1>s, <1>t, <2>1, <2>2, ReaderKeeps, Zenon DEF serverVars, lateVars
<1>11. ASSUME Crash(i) PROVE IInv'
  <2>1. /\ faults' \in 0 .. MaxFaults /\ pc' = [pc EXCEPT ![i] = "down"]
        /\ batch' = [batch EXCEPT ![i] = {}] /\ seen' = [seen EXCEPT ![i] = {}]
        /\ UNCHANGED <<serverVars, lateVars, pub, start, tries, accepted>>
    BY <1>0, <1>11 DEF Crash, Fault
  <2>2. Reader(i)'
    BY <1>u, <1>w, <2>1, Zenon DEF Reader
  <2> QED BY <1>0, <1>s, <2>1, <2>2, ReaderKeeps, Zenon DEF serverVars, lateVars
<1> QED
  BY <1>1, <1>2, <1>3, <1>4, <1>5, <1>6, <1>7, <1>8, <1>9, <1>10, <1>11, SMTT(20)
  DEF ReaderStep

\* Commands executed after their caller gave up keep the invariant.
LEMMA ServerKeeps ==
  ASSUME IInv, LateGroupCreate \/ LateRead \/ \E e \in lateAcks : LateXAck(e)
  PROVE  IInv'
<1>0. Delivery /\ Publishing
  BY IInvParts
<1>1. ASSUME LateGroupCreate PROVE IInv'
  <2>1. Delivery'
    BY <1>0, <1>1, Zenon DEF LateGroupCreate, Delivery, Reader, lateVars
  <2>2. Publishing'
    BY <1>0, <1>1 DEF LateGroupCreate, Publishing, PublishIsReal, Entries, lateVars
  <2> QED BY <2>1, <2>2, IInvParts, PTL
<1>2. ASSUME LateRead PROVE IInv'
  <2>1. /\ last' = Len(stream) /\ pel' = pel \cup (last + 1 .. Len(stream)) /\ lateReads' \in Nat
        /\ UNCHANGED <<stream, group, lateAdds, lateAcks, pub, pc, start, batch, tries,
                       faults, accepted, seen>>
    BY <1>0, <1>2 DEF LateRead, Delivered, Delivery
  <2>2. last \in Nat /\ Len(stream) \in Nat /\ last <= Len(stream)
    BY <1>0 DEF Publishing
  <2>3. /\ pel' \subseteq 1 .. last' /\ accepted \subseteq 1 .. last'
        /\ 1 .. last \subseteq 1 .. last'
        /\ \A e \in 1 .. last' : e \in pel' \cup accepted
    <3>1. pel \subseteq 1 .. last /\ accepted \subseteq 1 .. last
          /\ \A e \in 1 .. last : e \in pel \cup accepted
      BY <1>0 DEF Delivery
    <3>2. 1 .. last \subseteq 1 .. last' /\ 1 .. last' = (1 .. last) \cup (last + 1 .. Len(stream))
      BY <2>1, <2>2
    <3> QED BY <2>1, <3>1, <3>2, Zenon
  <2>4. batch \in [Instances -> SUBSET (1 .. last')] /\ seen \in [Instances -> SUBSET (1 .. last')]
    BY <1>0, <2>3 DEF Delivery
  <2>5. \A i \in Instances : Reader(i)'
    BY <1>0, <2>1, Zenon DEF Delivery, Reader
  <2>6. Delivery'
    BY <1>0, <2>1, <2>3, <2>4, <2>5, Zenon DEF Delivery
  <2>7. Publishing'
    BY <1>0, <2>1, <2>2 DEF Publishing, PublishIsReal, Entries
  <2> QED BY <2>6, <2>7, IInvParts, PTL
<1>3. ASSUME NEW e \in lateAcks, LateXAck(e) PROVE IInv'
  <2>1. e \in accepted
    BY <1>0 DEF Delivery
  <2>2. Delivery'
    BY <1>0, <1>3, <2>1, Zenon DEF LateXAck, Delivery, Reader
  <2>3. Publishing'
    BY <1>0, <1>3, Zenon DEF LateXAck, Publishing, PublishIsReal, Entries
  <2> QED BY <2>2, <2>3, IInvParts, PTL
<1> QED BY <1>1, <1>2, <1>3

\* The invariant holds in every reachable state.
LEMMA IInvHolds == Spec => []IInv
<1>1. Init => IInv
  <2> SUFFICES ASSUME Init PROVE IInv
    OBVIOUS
  <2>1. Delivery
    BY DEF Init, Delivery, Reader
  <2>2. Publishing
    <3>1. stream = <<>> /\ stream \in Seq(Messages) /\ Len(stream) = 0
      BY DEF Init
    <3>2. PublishIsReal
      BY DEF Init, PublishIsReal
    <3>3. tries \in [Messages \cup Instances -> 0 .. MaxRetries]
      BY DEF Init
    <3> QED BY <3>1, <3>2, <3>3, SMTT(20) DEF Init, Publishing
  <2> QED BY <2>1, <2>2, IInvParts, SMTT(20)
<1>2. IInv /\ [Next]_vars => IInv'
  <2> SUFFICES ASSUME IInv, [Next]_vars PROVE IInv'
    OBVIOUS
  <2>1. CASE UNCHANGED vars
    BY <2>1, Zenon DEF vars, IInv, TypeOK, Reader, PublishIsReal, Entries
  <2> QED BY <2>1, PublisherKeeps, ReaderStepKeeps, ServerKeeps DEF Next, PublisherStep
<1> QED BY <1>1, <1>2, PTL DEF Spec

\* State and history keep their types: a reader works only on entries that were
\* delivered to the group, and only accepted entries have an XACK on its way.
THEOREM StreamsTypes == Spec => []TypeOK
<1>1. IInv => TypeOK
  BY DEF IInv
<1> QED BY <1>1, IInvHolds, PTL

\* A Publish that returned nil has stored its message, however often the client
\* had to send XADD.
THEOREM StreamsPublishIsReal == Spec => []PublishIsReal
<1>1. IInv => PublishIsReal
  BY DEF IInv
<1> QED BY <1>1, IInvHolds, PTL

\* As long as it runs, a reader hands entries to its handler in the order of the
\* stream and none twice.
THEOREM StreamsHandledInOrder == Spec => []HandledInOrder
<1>1. IInv => HandledInOrder
  BY DEF IInv, HandledInOrder, Reader
<1> QED BY <1>1, IInvHolds, PTL

\* No entry is lost: one that is neither new nor pending was accepted.
THEOREM StreamsSettledWasAccepted == Spec => []SettledWasAccepted
<1>1. IInv => SettledWasAccepted
  BY DEF IInv, TypeOK, SettledWasAccepted, ALO!SettledWasAccepted, Status, Entries
<1> QED BY <1>1, IInvHolds, PTL

-----------------------------------------------------------------------------
\* Pub/sub on Redis streams is an at-least-once queue: every step is a step of
\* AtLeastOnce or changes no entry.
THEOREM StreamsImplementAtLeastOnce == Spec => ImplementsAtLeastOnce
<1> DEFINE S == [e \in Entries |-> Status(e)]
<1>1. Init => ALO!Init
  BY DEF Init, ALO!Init, Entries
<1>2. IInv /\ IInv' /\ [Next]_vars => [ALO!Next]_(ALO!vars)
  <2> SUFFICES ASSUME IInv, IInv', [Next]_vars PROVE ALO!Next \/ (S' = S /\ accepted' = accepted)
    BY DEF ALO!vars
  <2>0. /\ Len(stream) \in Nat /\ last \in 0 .. Len(stream) /\ pel \subseteq 1 .. last
        /\ stream \in Seq(Messages) /\ accepted \subseteq 1 .. last
    <3>1. Delivery /\ Publishing
      BY IInvParts
    <3>2. pel \subseteq 1 .. last /\ accepted \subseteq 1 .. last
      BY <3>1 DEF Delivery
    <3>3. stream \in Seq(Messages) /\ last \in 0 .. Len(stream)
      BY <3>1 DEF Publishing
    <3> QED BY <3>2, <3>3
  <2>1. ASSUME UNCHANGED <<stream, last, pel>> PROVE S' = S
    <3>1. Entries' = Entries /\ \A e : Status(e)' = Status(e)
      BY <2>1 DEF Status, Entries
    <3> QED BY <3>1
  <2>2. ASSUME NEW m \in Messages, XAdd(m) \/ LateXAdd(m) PROVE ALO!Next
    <3>1. stream' = Append(stream, m) /\ UNCHANGED <<last, pel, accepted>>
      BY <2>2, SMTT(20) DEF XAdd, LateXAdd
    <3>2. Len(stream') = Len(stream) + 1
      BY <2>0, <3>1
    <3>3. S' = Append(S, "queued")
      <4>1. S' = [e \in 1 .. Len(stream) + 1 |-> Status(e)]
        BY <3>1, <3>2 DEF Entries, Status
      <4>2. Status(Len(stream) + 1) = "queued"
        BY <2>0 DEF Status
      <4>3. S \in Seq({"queued", "delivered", "settled"}) /\ Len(S) = Len(stream)
        BY <2>0 DEF Status, Entries
      <4>4. Append(S, "queued") = [e \in 1 .. Len(stream) + 1 |->
                                     IF e = Len(stream) + 1 THEN "queued" ELSE S[e]]
        BY <4>3
      <4> QED BY <2>0, <4>1, <4>2, <4>4 DEF Entries
    <3> QED BY <3>1, <3>3, Zenon DEF ALO!Next, ALO!Store
  <2>3. ASSUME Delivered, UNCHANGED <<stream, accepted>> PROVE ALO!Next
    <3>1. S' = [e \in DOMAIN S |-> IF e \in last + 1 .. Len(stream) THEN "delivered" ELSE S[e]]
      BY <2>0, <2>3 DEF Delivered, Status, Entries
    <3>2. last + 1 .. Len(stream) \subseteq {e \in DOMAIN S : S[e] = "queued"}
      BY <2>0 DEF Status, Entries
    <3>3. ALO!Deliver(last + 1 .. Len(stream))
      BY <2>3, <3>1, <3>2 DEF ALO!Deliver, ALO!Move
    <3> QED BY <3>2, <3>3, Zenon DEF ALO!Next
  <2>4. ASSUME NEW e \in accepted, pel' = pel \ {e}, UNCHANGED <<stream, last, accepted>>
        PROVE  ALO!Next \/ (S' = S /\ accepted' = accepted)
    <3>1. CASE e \notin pel
      BY <2>1, <2>4, <3>1
    <3>2. CASE e \in pel
      <4>1. S' = [x \in DOMAIN S |-> IF x \in {e} THEN "settled" ELSE S[x]]
        BY <2>0, <2>4 DEF Status, Entries
      <4>2. {e} \subseteq {x \in DOMAIN S : S[x] = "delivered"}
        BY <2>0, <3>2, SMTT(20) DEF Status, Entries
      <4>3. ALO!Settle({e})
        BY <2>4, <4>1, <4>2, SMTT(20) DEF ALO!Settle, ALO!Move
      <4> QED BY <4>2, <4>3 DEF ALO!Next
    <3> QED BY <3>1, <3>2
  <2>5. ASSUME NEW i \in Instances, HandlerAccepts(i) PROVE ALO!Next
    <3>1. accepted' = accepted \cup {First(batch[i])} /\ S' = S
      BY <2>1, <2>5 DEF HandlerAccepts, serverVars
    <3>2. First(batch[i]) \in DOMAIN S
      <4>1. accepted' \subseteq 1 .. last' /\ last' = last
        BY <2>5, Zenon DEF IInv, TypeOK, HandlerAccepts, serverVars
      <4> QED BY <2>0, <3>1, <4>1, SMTT(20) DEF Entries
    <3> QED BY <3>1, <3>2, SMTT(20) DEF ALO!Next, ALO!Accept
  <2>6. ASSUME NEW i \in Instances, XAck(i) PROVE ALO!Next \/ (S' = S /\ accepted' = accepted)
    <3>1. First(batch[i]) \in accepted
      BY <2>6, Zenon DEF XAck, IInv, Reader
    <3> QED BY <2>4, <2>6, <3>1 DEF XAck
  <2>7. ASSUME NEW e \in lateAcks, LateXAck(e) PROVE ALO!Next \/ (S' = S /\ accepted' = accepted)
    BY <2>4, <2>7, Zenon DEF LateXAck, IInv, TypeOK
  <2>8. ASSUME NEW i \in Instances, ReadNew(i) PROVE ALO!Next
    BY <2>3, <2>8 DEF ReadNew
  <2>9. ASSUME LateRead PROVE ALO!Next
    BY <2>3, <2>9, SMTT(20) DEF LateRead
  <2>10. ASSUME NEW m \in Messages, Publish(m) \/ XAddLost(m)
         PROVE  UNCHANGED <<stream, last, pel, accepted>>
    BY <2>10 DEF Publish, XAddLost, serverVars
  <2>11. ASSUME NEW i \in Instances,
                \/ Subscribe(i) \/ GroupCreate(i) \/ GroupCreateLost(i) \/ ReadPending(i)
                \/ ReadFails(i) \/ ReadLost(i) \/ HandlerFails(i) \/ XAckLost(i) \/ ReadOn(i)
                \/ Crash(i)
         PROVE  UNCHANGED <<stream, last, pel, accepted>>
    BY <2>11, Zenon DEF Subscribe, GroupCreate, GroupCreateLost, BeginReading, ReadPending, ReadFails,
                 ReadLost, HandlerFails, XAckLost, ReadOn, Crash, serverVars
  <2>12. CASE LateGroupCreate \/ UNCHANGED vars
    BY <2>1, <2>12, SMTT(20) DEF LateGroupCreate, vars
  <2> QED
    BY <2>1, <2>2, <2>5, <2>6, <2>7, <2>8, <2>9, <2>10, <2>11, <2>12, Zenon
    DEF Next, PublisherStep, ReaderStep
<1> QED BY <1>1, <1>2, IInvHolds, PTL DEF Spec, ImplementsAtLeastOnce, ALO!Spec

-----------------------------------------------------------------------------
\* The safe part of PendingIsRecovered.  An entry is on its way to the handler
\* of an instance that is yet to read the pending list or has it in hand; and it
\* has got there once the handler was given it.
OnItsWay(i, e) ==
  \/ pc[i] = "create"
  \/ pc[i] = "read" /\ start[i] = "0"
  \/ pc[i] \in {"handle", "ack"} /\ e \in batch[i]
  \/ e \in seen[i]

\* A step does not pass the entry over.
NotPassedOver(i, e) ==
  OnItsWay(i, e) /\ e \in pel =>
    OnItsWay(i, e)' \/ e \notin pel' \/ pc'[i] \in {"down", "dead"}

\* What is acknowledged was given to the handler.
AckedWasSeen == \A i \in Instances : pc[i] = "ack" => First(batch[i]) \in seen[i]

\* A step of another instance, or of the server, as instance j sees it.
Aside(j) == pc'[j] = pc[j] /\ start'[j] = start[j] /\ batch'[j] = batch[j] /\ seen'[j] = seen[j]

\* A step of a reader acknowledges only what the handler was given, and passes
\* no pending entry over.
LEMMA ReaderPassesNothingOver ==
  ASSUME IInv, AckedWasSeen, NEW i \in Instances,
         Subscribe(i) \/ ReaderStep(i) \/ ReadLost(i) \/ Crash(i)
  PROVE  /\ pc'[i] = "ack" => First(batch'[i]) \in seen'[i]
         /\ \A e : NotPassedOver(i, e)
         /\ \A j \in Instances \ {i} : Aside(j)
<1>0. DOMAIN pc = Instances /\ DOMAIN start = Instances /\ DOMAIN batch = Instances
      /\ DOMAIN seen = Instances
  BY Zenon DEF IInv, TypeOK
<1>1. CASE Subscribe(i) \/ GroupCreate(i) \/ GroupCreateLost(i)
  <2>1. \/ pc[i] = "down" /\ pc' = [pc EXCEPT ![i] = "create"] /\ start' = start
        \/ pc' = [pc EXCEPT ![i] = "read"] /\ start' = [start EXCEPT ![i] = "0"]
    BY <1>1, Zenon DEF Subscribe, GroupCreate, GroupCreateLost, BeginReading
  <2>2. UNCHANGED <<batch, seen>>
    BY <1>1, Zenon DEF Subscribe, GroupCreate, GroupCreateLost, BeginReading
  <2> QED BY <1>0, <2>1, <2>2, Zenon DEF NotPassedOver, OnItsWay, Aside
<1>2. CASE ReadPending(i)
  <2>1. /\ pc' = [pc EXCEPT ![i] = "handle"] /\ batch' = [batch EXCEPT ![i] = pel]
        /\ UNCHANGED <<start, seen>>
    BY <1>2, Zenon DEF ReadPending
  <2> QED BY <1>0, <2>1, Zenon DEF NotPassedOver, OnItsWay, Aside
<1>3. CASE ReadNew(i)
  <2>1. /\ pc[i] = "read" /\ start[i] = ">" /\ pc' = [pc EXCEPT ![i] = "handle"]
        /\ \E new : batch' = [batch EXCEPT ![i] = new]
        /\ UNCHANGED <<start, seen>>
    BY <1>3, Zenon DEF ReadNew
  <2> QED BY <1>0, <2>1, Zenon DEF NotPassedOver, OnItsWay, Aside
<1>4. CASE ReadFails(i) \/ ReadLost(i)
  <2>1. /\ pc[i] = "read" /\ UNCHANGED <<start, batch, seen>>
        /\ pc' = [pc EXCEPT ![i] = "dead"] \/ pc' = pc
    BY <1>4, Zenon DEF ReadFails, ReadLost
  <2> QED BY <1>0, <2>1, Zenon DEF NotPassedOver, OnItsWay, Aside
<1>5. CASE HandlerAccepts(i)
  <2>1. /\ pc[i] = "handle" /\ pc' = [pc EXCEPT ![i] = "ack"] /\ UNCHANGED <<start, batch>>
        /\ seen' = [seen EXCEPT ![i] = seen[i] \cup {First(batch[i])}]
    BY <1>5, Zenon DEF HandlerAccepts
  <2> QED BY <1>0, <2>1, Zenon DEF NotPassedOver, OnItsWay, Aside
<1>6. CASE HandlerFails(i)
  <2>1. /\ pc[i] = "handle" /\ UNCHANGED <<pc, start>>
        /\ seen' = [seen EXCEPT ![i] = seen[i] \cup {First(batch[i])}]
        /\ batch' = [batch EXCEPT ![i] = batch[i] \ {First(batch[i])}]
    BY <1>6, Zenon DEF HandlerFails
  <2> QED BY <1>0, <2>1, Zenon DEF NotPassedOver, OnItsWay, Aside
<1>7. CASE XAck(i) \/ XAckLost(i)
  <2>1. /\ pc[i] = "ack" /\ pc' = [pc EXCEPT ![i] = "handle"] /\ UNCHANGED <<start, seen>>
        /\ batch' = [batch EXCEPT ![i] = batch[i] \ {First(batch[i])}]
    BY <1>7, Zenon DEF XAck, XAckLost
  <2>2. First(batch[i]) \in seen[i]
    BY <2>1, Zenon DEF AckedWasSeen
  <2> QED BY <1>0, <2>1, <2>2, Zenon DEF NotPassedOver, OnItsWay, Aside
<1>8. CASE ReadOn(i)
  <2>1. /\ pc[i] = "handle" /\ batch[i] = {} /\ pc' = [pc EXCEPT ![i] = "read"]
        /\ start' = [start EXCEPT ![i] = ">"] /\ UNCHANGED <<batch, seen>>
    BY <1>8, Zenon DEF ReadOn
  <2> QED BY <1>0, <2>1, Zenon DEF NotPassedOver, OnItsWay, Aside
<1>9. CASE Crash(i)
  <2>1. /\ pc' = [pc EXCEPT ![i] = "down"] /\ batch' = [batch EXCEPT ![i] = {}]
        /\ seen' = [seen EXCEPT ![i] = {}] /\ start' = start
    BY <1>9, Zenon DEF Crash
  <2> QED BY <1>0, <2>1, Zenon DEF NotPassedOver, Aside
<1> QED BY <1>1, <1>2, <1>3, <1>4, <1>5, <1>6, <1>7, <1>8, <1>9, Zenon DEF ReaderStep

\* A step that leaves an instance alone does not take an entry off its way.
LEMMA AsidePassesNothingOver ==
  ASSUME NEW j \in Instances, Aside(j)
  PROVE  \A e : NotPassedOver(j, e)
BY Zenon DEF Aside, NotPassedOver, OnItsWay

\* Every step passes nothing over, for any instance.
LEMMA NextPassesNothingOver ==
  ASSUME IInv, AckedWasSeen, [Next]_vars
  PROVE  AckedWasSeen' /\ \A i \in Instances : \A e : NotPassedOver(i, e)
<1>1. ASSUME NEW i \in Instances, Subscribe(i) \/ ReaderStep(i) \/ ReadLost(i) \/ Crash(i)
      PROVE  AckedWasSeen' /\ \A j \in Instances : \A e : NotPassedOver(j, e)
  <2>1. /\ pc'[i] = "ack" => First(batch'[i]) \in seen'[i]
        /\ \A e : NotPassedOver(i, e)
        /\ \A j \in Instances \ {i} : Aside(j)
    BY <1>1, ReaderPassesNothingOver
  <2>2. AckedWasSeen'
    BY <2>1, Zenon DEF AckedWasSeen, Aside
  <2> QED BY <2>1, <2>2, AsidePassesNothingOver, Zenon
<1>2. ASSUME UNCHANGED <<pc, start, batch, seen>>
      PROVE  AckedWasSeen' /\ \A j \in Instances : \A e : NotPassedOver(j, e)
  <2>1. \A j \in Instances : Aside(j)
    BY <1>2, Zenon DEF Aside
  <2>2. AckedWasSeen'
    BY <1>2, Zenon DEF AckedWasSeen
  <2> QED BY <2>1, <2>2, AsidePassesNothingOver, Zenon
<1>3. ASSUME NEW m \in Messages, Publish(m) \/ PublisherStep(m) \/ LateXAdd(m)
      PROVE  UNCHANGED <<pc, start, batch, seen>>
  BY <1>3, Zenon DEF Publish, PublisherStep, XAdd, XAddLost, LateXAdd
<1>4. LateGroupCreate \/ LateRead \/ (\E e \in lateAcks : LateXAck(e)) \/ UNCHANGED vars
      => UNCHANGED <<pc, start, batch, seen>>
  BY Zenon DEF LateGroupCreate, LateRead, LateXAck, vars
<1> QED BY <1>1, <1>2, <1>3, <1>4, Zenon DEF Next

\* "first read pending items in case of recovering from crash": an entry that is
\* pending while an instance has yet to read the pending list is never passed
\* over by that instance's reader, whatever is lost, retried or done by others:
\* it is still to be read or to be handled, or the handler was given it, until it
\* is acknowledged or the reader ends.
THEOREM StreamsPassNoPendingEntryOver ==
  Spec => [][\A i \in Instances : \A e \in Nat : NotPassedOver(i, e)]_vars
<1> DEFINE Kept == \A i \in Instances : \A e \in Nat : NotPassedOver(i, e)
<1>1. Init => AckedWasSeen
  BY DEF Init, AckedWasSeen
<1>2. IInv /\ AckedWasSeen /\ [Next]_vars => AckedWasSeen' /\ [Kept]_vars
  BY NextPassesNothingOver
<1> QED BY <1>1, <1>2, IInvHolds, PTL DEF Spec
=============================================================================
